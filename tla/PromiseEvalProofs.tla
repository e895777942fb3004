-------------------------- MODULE PromiseEvalProofs --------------------------
(***************************************************************************)
(* Calls that wait for promises, for every number of calls, arguments,     *)
(* callbacks and requests: each is sent once, when and only when what it   *)
(* waits for is known, unless it fell through one of the holes; and each   *)
(* request is answered once.                                               *)
(***************************************************************************)
EXTENDS PromiseEval, SequenceTheorems, FiniteSetTheorems, WellFoundedInduction, TLAPS

-----------------------------------------------------------------------------
(* The invariant *)

Vals == {Val(n) : n \in 0 .. MaxCalls}

\* What code can hold when there are n promises.
Items(n) == {Something} \cup {Prom(p) : p \in 1 .. n}

Value(x) == IF IsProm(x) THEN Val(x.prom) ELSE x
Message(c) == [i \in DOMAIN c |-> Value(c[i])]

PromiseRecord ==
  [result : {None} \cup Vals, callbacks : Nat, dependents : Seq(Nat), asker : {None} \cup Requests]

Types ==
  /\ promises \in Seq(PromiseRecord) /\ Len(promises) = Len(calls) /\ Len(calls) <= MaxCalls
  /\ \A p \in Ids : promises[p].result \in {None, Val(p)}
  /\ calls \in Seq(Seq(Items(MaxCalls)))
  /\ \A d \in Ids : calls[d] \in Seq(Items(d - 1)) /\ calls[d] # <<>>
  /\ DOMAIN depend \subseteq Ids /\ depend = [d \in DOMAIN depend |-> depend[d]]
  /\ out \in Seq([prom : Nat, call : Seq(Vals)])
  /\ replies \in Seq([to : Requests, value : Vals])
  /\ returned \in [Requests -> Seq(Items(Len(calls)))] /\ \A q \in Requests : Len(returned[q]) <= 1
  /\ lost \in [calls : SUBSET Ids, requests : SUBSET Requests]
  /\ left \in Nat

\* Where the code is.
Place ==
  /\ at \in {"idle", "request", "resolve", "notify", "dead"}
  /\ at = "request" => current \in Requests /\ returned[current] = <<>>
  /\ at \in {"resolve", "notify"} => current \in Ids /\ Resolved(current)
  /\ at = "notify" => left <= Len(promises[current].dependents)

\* The promise whose response is being handled is known, but not settled.
Passing(p) == at \in {"resolve", "notify"} /\ current = p
Settled == {p \in KnownIds : ~ Passing(p)}

\* Where the call d is noted with p, and the promises that have told it.
NotedAt(p, d) == {k \in DOMAIN promises[p].dependents : promises[p].dependents[k] = d}
Passed(p, k) == Resolved(p) /\ (Passing(p) => at = "notify" /\ k <= Len(promises[p].dependents) - left)
Told(d) == {p \in Ids : \E k \in NotedAt(p, d) : Passed(p, k)}

\* What is noted of a call c is right, with the promises in K known;
Known(x, K) == IsProm(x) => x.prom \in K
Shape(c, f, K) ==
  /\ f = [target |-> f.target, targetOn |-> f.targetOn, args |-> f.args, on |-> f.on]
  /\ f.target \in {None} \cup Vals
  /\ \/ f.targetOn = c[1] /\ IsProm(c[1])
     \/ f.targetOn = None /\ f.target # None
  /\ f.args \in [1 .. Len(c) - 1 -> {None} \cup Vals]
  /\ f.target # None => f.target = Value(c[1]) /\ Known(c[1], K)
  /\ \A i \in 1 .. Len(c) - 1 :
       /\ f.args[i] # None => f.args[i] = Value(c[i + 1]) /\ Known(c[i + 1], K)
       /\ IsProm(c[i + 1]) \/ f.args[i] # None
       /\ \A p \in 1 .. MaxCalls :
            c[i + 1] = Prom(p) => f.on[p] \in 1 .. Len(c) - 1 /\ c[f.on[p] + 1] = Prom(p)

\* it is noted only with promises it waits for.
WaitsFor(c, f, p) == f.targetOn = Prom(p) \/ \E i \in 1 .. Len(c) - 1 : c[i + 1] = Prom(p)
Noting ==
  /\ \A d \in DOMAIN depend : Shape(calls[d], depend[d], KnownIds)
  /\ \A p \in Ids : \A k \in DOMAIN promises[p].dependents :
       LET d == promises[p].dependents[k] IN
       d \in DOMAIN depend /\ WaitsFor(calls[d], depend[d], p)

\* A call waits for different promises, and what those in P had to tell is there.
Apart(c, f) ==
  \A i \in 1 .. Len(c) - 1 : IsProm(c[i + 1]) =>
    /\ f.targetOn # c[i + 1]
    /\ \A j \in 1 .. Len(c) - 1 : c[i + 1] = c[j + 1] => i = j
Filled(c, f, P) ==
  /\ Apart(c, f)
  /\ \A p \in 1 .. MaxCalls :
       /\ f.targetOn = Prom(p) => (f.target # None <=> p \in P)
       /\ \A i \in 1 .. Len(c) - 1 : c[i + 1] = Prom(p) => (f.args[i] # None <=> p \in P)

\* A call that fell through a hole waits for ever: nobody fills one argument.
Stuck(c, f, Z) ==
  \E i \in 1 .. Len(c) - 1 : \E p \in 1 .. MaxCalls :
    /\ f.args[i] = None /\ c[i + 1] = Prom(p)
    /\ f.on[p] # i \/ f.targetOn = Prom(p) \/ p \in Z
Waiting ==
  /\ lost.calls \subseteq DOMAIN depend
  /\ \A d \in lost.calls : Stuck(calls[d], depend[d], Settled)
  /\ \A d \in DOMAIN depend \ lost.calls :
       /\ Filled(calls[d], depend[d], Told(d))
       /\ \A p \in Ids : WaitsFor(calls[d], depend[d], p) => \E k \in Nat : NotedAt(p, d) = {k}

\* A call is sent if it need not wait, or no longer.
IsSent(d) == \E i \in DOMAIN out : out[i].prom = d
Sending ==
  /\ \A i \in DOMAIN out : out[i].prom \in Ids /\ out[i].call = Message(calls[out[i].prom])
  /\ \A i, j \in DOMAIN out : out[i].prom = out[j].prom => i = j
  /\ \A d \in Ids \ DOMAIN depend : IsSent(d) /\ \A i \in DOMAIN calls[d] : Known(calls[d][i], KnownIds)
  /\ \A d \in DOMAIN depend : IsSent(d) <=> Ready(depend[d])
  /\ \A d \in KnownIds : IsSent(d)

\* A request is answered if its result is known and the response with it handled;
\* before, the promise knows it.
Answered(q) == \E i \in DOMAIN replies : replies[i].to = q
Answering ==
  /\ \A i \in DOMAIN replies :
       LET r == returned[replies[i].to] IN
       r # <<>> /\ Known(r[1], KnownIds) /\ replies[i].value = Value(r[1])
  /\ \A i, j \in DOMAIN replies : replies[i].to = replies[j].to => i = j
  /\ \A q \in Requests :
       Answered(q) <=> returned[q] # <<>> /\ q \notin lost.requests /\ Known(returned[q][1], Settled)
  /\ \A q \in lost.requests : returned[q] # <<>>
  /\ \A p \in Ids \ Settled : \A q \in Requests :
       promises[p].asker = q <=> returned[q] = <<Prom(p)>> /\ q \notin lost.requests

Good == Types /\ Place /\ Noting /\ Waiting /\ Sending /\ Answering
EvalInv == at # "dead" => Good

-----------------------------------------------------------------------------
(* Promises and values *)

\* Promises are told apart by their ids, and from values.
LEMMA PromFacts ==
  /\ \A p : IsProm(Prom(p)) /\ Prom(p).prom = p
  /\ \A p, q : Prom(p) = Prom(q) => p = q
  /\ \A n : ~ IsProm(Val(n))
BY DEF IsProm, Prom, Val

\* None is neither a request, nor a value, nor a promise.
LEMMA NoneFacts ==
  /\ None \notin Requests /\ None \notin Vals
  /\ \A p \in 1 .. MaxCalls : None # Prom(p) /\ Val(p) \in Vals
  /\ MaxCalls \in Nat /\ Something \in Vals
  /\ \A v \in Vals : ~ IsProm(v)
BY NoneAssumption, BoundAssumption, PromFacts DEF Vals, Something

\* What code holds is a promise of its vat or a value.
LEMMA ItemFacts ==
  ASSUME NEW n \in 0 .. MaxCalls, NEW x \in Items(n)
  PROVE  /\ Value(x) \in Vals /\ x # None
         /\ IsProm(x) => x.prom \in 1 .. n /\ x = Prom(x.prom) /\ Value(x) = Val(x.prom)
         /\ ~ IsProm(x) => x = Something /\ Value(x) = x
<1>1. MaxCalls \in Nat /\ \A p \in 1 .. n : p \in 1 .. MaxCalls
  BY NoneFacts
<1>2. CASE x = Something
  BY <1>2, NoneFacts DEF Value
<1>3. CASE \E p \in 1 .. n : x = Prom(p)
  <2>1. PICK p \in 1 .. n : x = Prom(p)
    BY <1>3
  <2>2. IsProm(x) /\ x.prom = p
    BY <2>1, PromFacts
  <2> QED BY <1>1, <2>1, <2>2, NoneFacts DEF Value
<1> QED BY <1>2, <1>3 DEF Items

\* The more promises there are, the more code can hold.
LEMMA MoreItems ==
  ASSUME NEW n \in Nat, NEW m \in Nat, n <= m
  PROVE  Items(n) \subseteq Items(m)
BY DEF Items

\* A list of what code held is one of what it holds later.
LEMMA ItemsKept ==
  ASSUME NEW n \in Nat, NEW m \in Nat, n <= m, NEW s \in Seq(Items(n))
  PROVE  s \in Seq(Items(m))
BY MoreItems

-----------------------------------------------------------------------------
(* Small sets *)

\* None, one, or more than one.
LEMMA HowMany ==
  ASSUME NEW S, IsFiniteSet(S)
  PROVE  /\ Cardinality(S) \in Nat
         /\ Cardinality(S) = 0 <=> S = {}
         /\ \A x, y \in S : x # y => Cardinality(S) > 1
         /\ Cardinality(S) > 1 => \E x, y \in S : x # y
         /\ S # {} /\ ~ (Cardinality(S) > 1) => Cardinality(S) = 1
<1>1. Cardinality(S) \in Nat
  BY FS_CardinalityType
<1>2. Cardinality(S) = 0 <=> S = {}
  BY FS_EmptySet
<1>3. \A x, y \in S : x # y => Cardinality(S) > 1
  <2> SUFFICES ASSUME NEW x \in S, NEW y \in S, x # y PROVE Cardinality(S) > 1
    OBVIOUS
  <2>1. IsFiniteSet(S \ {x}) /\ Cardinality(S \ {x}) = Cardinality(S) - 1
    BY FS_RemoveElement
  <2>2. Cardinality(S \ {x}) # 0 /\ Cardinality(S \ {x}) \in Nat
    BY <2>1, FS_EmptySet, FS_CardinalityType
  <2> QED BY <1>1, <2>1, <2>2
<1>4. Cardinality(S) > 1 => \E x, y \in S : x # y
  <2> SUFFICES ASSUME Cardinality(S) > 1, \A x, y \in S : x = y PROVE FALSE
    OBVIOUS
  <2>1. PICK x \in S : TRUE
    BY <1>1, <1>2
  <2>2. S = {x}
    BY <2>1
  <2> QED BY <2>2, FS_Singleton
<1> QED BY <1>1, <1>2, <1>3, <1>4

\* Max finds the last position (FiniteSetsExt chooses it).
LEMMA GreatestOf ==
  ASSUME NEW b \in Nat, NEW T \in SUBSET (1 .. b), T # {}
  PROVE  Max(T) \in T
<1> DEFINE upto == {n .. b : n \in T}
<1>1. IsWellFoundedOn(StrictSubsetOrdering(1 .. b), FiniteSubsetsOf(1 .. b))
  BY FS_StrictSubsetOrderingWellFounded
<1>2. upto \subseteq FiniteSubsetsOf(1 .. b) /\ upto # {}
  <2>1. ASSUME NEW n \in T PROVE n .. b \in FiniteSubsetsOf(1 .. b)
    BY FS_Interval DEF FiniteSubsetsOf
  <2> QED BY <2>1
<1>3. PICK u \in upto : \A v \in upto : <<v, u>> \notin StrictSubsetOrdering(1 .. b)
  BY <1>1, <1>2, WFMin
<1>4. PICK m \in T : u = m .. b
  OBVIOUS
<1>5. ASSUME NEW n \in T, m < n PROVE FALSE
  <2>1. n .. b \subseteq m .. b /\ m \in m .. b /\ m \notin n .. b /\ m .. b \subseteq 1 .. b
    BY <1>5
  <2>2. <<n .. b, u>> \in StrictSubsetOrdering(1 .. b)
    BY <1>4, <2>1 DEF StrictSubsetOrdering
  <2> QED BY <1>3, <2>2
<1>6. \A n \in T : m >= n
  BY <1>5
<1> QED BY <1>6 DEF Max

\* A set of at most one element, as a sequence.
LEMMA OneInOrder ==
  /\ DOMAIN SetToSeq({}) = {}
  /\ \A x : DOMAIN SetToSeq({x}) = 1 .. 1 /\ SetToSeq({x})[1] = x
<1>1. ASSUME NEW S, NEW n \in Nat, Cardinality(S) = n, NEW f \in [1 .. n -> S], IsInjective(f)
      PROVE  SetToSeq(S) \in [1 .. n -> S]
  BY <1>1 DEF SetToSeq
<1>2. DOMAIN SetToSeq({}) = {}
  <2> DEFINE S == {}
             f == [i \in 1 .. 0 |-> i]
  <2>1. f \in [1 .. 0 -> S] /\ IsInjective(f) /\ 1 .. 0 = {}
    BY DEF IsInjective
  <2>2. Cardinality(S) = 0 /\ 0 \in Nat
    BY FS_EmptySet
  <2> HIDE DEF f, S
  <2>3. SetToSeq(S) \in [1 .. 0 -> S]
    BY <1>1, <2>1, <2>2
  <2>4. DOMAIN SetToSeq(S) = {}
    BY <2>1, <2>3
  <2> QED BY <2>4 DEF S
<1>3. ASSUME NEW x PROVE DOMAIN SetToSeq({x}) = 1 .. 1 /\ SetToSeq({x})[1] = x
  <2> DEFINE f == [i \in 1 .. 1 |-> x]
  <2>1. f \in [1 .. 1 -> {x}] /\ IsInjective(f)
    BY DEF IsInjective
  <2>2. Cardinality({x}) = 1
    BY FS_Singleton
  <2> HIDE DEF f
  <2>3. SetToSeq({x}) \in [1 .. 1 -> {x}]
    BY <1>1, <2>1, <2>2
  <2> QED BY <2>3
<1> QED BY <1>2, <1>3

-----------------------------------------------------------------------------
(* What is noted of one call *)

\* A dependent gets the value v of p.
Fill(f, p, v) ==
  IF f.targetOn = Prom(p) THEN [f EXCEPT !.target = v] ELSE [f EXCEPT !.args[f.on[p]] = v]

\* Which field that changes, and which it leaves.
LEMMA FillIs ==
  ASSUME NEW c, NEW f, NEW K, Shape(c, f, K), NEW p \in 1 .. MaxCalls, WaitsFor(c, f, p), NEW v
  PROVE  /\ Fill(f, p, v) = [target |-> Fill(f, p, v).target, targetOn |-> f.targetOn,
                             args |-> Fill(f, p, v).args, on |-> f.on]
         /\ f.targetOn = Prom(p) => Fill(f, p, v).target = v /\ Fill(f, p, v).args = f.args
         /\ f.targetOn # Prom(p) =>
              /\ Fill(f, p, v).target = f.target
              /\ f.on[p] \in 1 .. Len(c) - 1 /\ c[f.on[p] + 1] = Prom(p)
              /\ Fill(f, p, v).args = [i \in 1 .. Len(c) - 1 |-> IF i = f.on[p] THEN v ELSE f.args[i]]
<1> DEFINE t == f.target
           o == f.targetOn
           a == f.args
           n == f.on
<1>1. f = [target |-> t, targetOn |-> o, args |-> a, on |-> n] /\ DOMAIN a = 1 .. Len(c) - 1
  BY DEF Shape
<1>2. o # Prom(p) => n[p] \in 1 .. Len(c) - 1 /\ c[n[p] + 1] = Prom(p)
  BY DEF Shape, WaitsFor
<1>3. f.targetOn = o /\ f.target = t /\ f.args = a /\ f.on = n
  OBVIOUS
<1> HIDE DEF t, o, a, n
<1>4. CASE o = Prom(p)
  <2>1. Fill(f, p, v) = [target |-> v, targetOn |-> o, args |-> a, on |-> n]
    BY <1>1, <1>3, <1>4 DEF Fill
  <2> QED BY <1>3, <1>4, <2>1
<1>5. CASE o # Prom(p)
  <2>1. Fill(f, p, v) = [target |-> t, targetOn |-> o, args |-> [a EXCEPT ![n[p]] = v], on |-> n]
    BY <1>1, <1>3, <1>5 DEF Fill
  <2>2. [a EXCEPT ![n[p]] = v] = [i \in 1 .. Len(c) - 1 |-> IF i = n[p] THEN v ELSE a[i]]
    BY <1>1
  <2> QED BY <1>2, <1>3, <1>5, <2>1, <2>2
<1> QED BY <1>4, <1>5

\* It does not change what is to be waited for,
LEMMA FillTarget ==
  ASSUME NEW c, NEW f, NEW K, Shape(c, f, K), NEW p \in 1 .. MaxCalls, WaitsFor(c, f, p), NEW v
  PROVE  Fill(f, p, v).targetOn = f.targetOn
<1> DEFINE g == Fill(f, p, v)
<1>1. /\ g = [target |-> g.target, targetOn |-> f.targetOn, args |-> g.args, on |-> f.on]
      /\ f.targetOn = Prom(p) => g.target = v /\ g.args = f.args
      /\ f.targetOn # Prom(p) =>
           /\ g.target = f.target
           /\ f.on[p] \in 1 .. Len(c) - 1 /\ c[f.on[p] + 1] = Prom(p)
           /\ g.args = [i \in 1 .. Len(c) - 1 |-> IF i = f.on[p] THEN v ELSE f.args[i]]
  BY FillIs
<1> HIDE DEF g
<1>2. g.targetOn = f.targetOn
  BY <1>1
<1> QED BY <1>2 DEF g

\* what is noted stays right,
LEMMA FillShape ==
  ASSUME NEW c, c \in Seq(Items(MaxCalls)), c # <<>>, NEW f, NEW K, Shape(c, f, K),
         NEW p \in 1 .. MaxCalls, p \in K, WaitsFor(c, f, p)
  PROVE  Shape(c, Fill(f, p, Val(p)), K)
<1> DEFINE v == Val(p)
           g == Fill(f, p, v)
           N == 1 .. Len(c) - 1
<1>1. /\ g = [target |-> g.target, targetOn |-> f.targetOn, args |-> g.args, on |-> f.on]
      /\ f.targetOn = Prom(p) => g.target = v /\ g.args = f.args
      /\ f.targetOn # Prom(p) =>
           /\ g.target = f.target /\ f.on[p] \in N /\ c[f.on[p] + 1] = Prom(p)
           /\ g.args = [i \in N |-> IF i = f.on[p] THEN v ELSE f.args[i]]
  BY FillIs
<1>2. v \in Vals /\ v # None /\ Value(Prom(p)) = v /\ Known(Prom(p), K) /\ IsProm(Prom(p)) /\ Prom(p) # None
  BY NoneFacts, PromFacts DEF Value, Known
<1> HIDE DEF g, v
<1>3. /\ g = [target |-> g.target, targetOn |-> g.targetOn, args |-> g.args, on |-> g.on]
      /\ g.targetOn = f.targetOn /\ g.on = f.on
  BY <1>1
<1>4. /\ f.target \in {None} \cup Vals /\ f.args \in [N -> {None} \cup Vals]
      /\ \/ f.targetOn = c[1] /\ IsProm(c[1])
         \/ f.targetOn = None /\ f.target # None
      /\ f.target # None => f.target = Value(c[1]) /\ Known(c[1], K)
  BY DEF Shape
<1>5. ASSUME NEW i \in N
      PROVE  /\ f.args[i] # None => f.args[i] = Value(c[i + 1]) /\ Known(c[i + 1], K)
             /\ IsProm(c[i + 1]) \/ f.args[i] # None
             /\ \A r \in 1 .. MaxCalls :
                  c[i + 1] = Prom(r) => f.on[r] \in N /\ c[f.on[r] + 1] = Prom(r)
  BY DEF Shape
<1>6. /\ g.target \in {None} \cup Vals
      /\ f.targetOn = None => g.target = f.target
      /\ g.target # None => g.target = Value(c[1]) /\ Known(c[1], K)
  <2>1. CASE f.targetOn = Prom(p)
    <3>1. c[1] = Prom(p) /\ g.target = v
      BY <1>1, <1>2, <1>4, <2>1
    <3> QED BY <1>2, <2>1, <3>1
  <2>2. CASE f.targetOn # Prom(p)
    <3>1. g.target = f.target
      BY <1>1, <2>2
    <3> QED BY <1>4, <3>1
  <2> QED BY <2>1, <2>2
<1>7. /\ g.args \in [N -> {None} \cup Vals]
      /\ \A i \in N :
           /\ g.args[i] # None => g.args[i] = Value(c[i + 1]) /\ Known(c[i + 1], K)
           /\ IsProm(c[i + 1]) \/ g.args[i] # None
  <2>1. CASE f.targetOn = Prom(p)
    BY <1>1, <1>4, <1>5, <2>1
  <2>2. CASE f.targetOn # Prom(p)
    <3>1. g.args = [i \in N |-> IF i = f.on[p] THEN v ELSE f.args[i]] /\ c[f.on[p] + 1] = Prom(p)
      BY <1>1, <2>2
    <3> QED BY <1>2, <1>4, <1>5, <3>1
  <2> QED BY <2>1, <2>2
<1> QED
  <2>1. \/ g.targetOn = c[1] /\ IsProm(c[1])
        \/ g.targetOn = None /\ g.target # None
    BY <1>3, <1>4, <1>6
  <2>2. \A i \in N : \A r \in 1 .. MaxCalls :
          c[i + 1] = Prom(r) => g.on[r] \in N /\ c[g.on[r] + 1] = Prom(r)
    BY <1>3, <1>5
  <2>3. Shape(c, g, K)
    BY <1>3, <1>6, <1>7, <2>1, <2>2 DEF Shape
  <2> QED BY <2>3 DEF g, v

\* and exactly the places of p get filled;
LEMMA FillFilled ==
  ASSUME NEW c, NEW f, NEW K, Shape(c, f, K), NEW P, Filled(c, f, P),
         NEW p \in 1 .. MaxCalls, WaitsFor(c, f, p)
  PROVE  Filled(c, Fill(f, p, Val(p)), P \cup {p})
<1> DEFINE v == Val(p)
           g == Fill(f, p, v)
           N == 1 .. Len(c) - 1
<1>1. /\ g = [target |-> g.target, targetOn |-> f.targetOn, args |-> g.args, on |-> f.on]
      /\ f.targetOn = Prom(p) => g.target = v /\ g.args = f.args
      /\ f.targetOn # Prom(p) =>
           /\ g.target = f.target /\ f.on[p] \in N /\ c[f.on[p] + 1] = Prom(p)
           /\ g.args = [i \in N |-> IF i = f.on[p] THEN v ELSE f.args[i]]
  BY FillIs
<1>2. v # None /\ \A q, r : Prom(q) = Prom(r) => q = r
  BY NoneFacts, PromFacts
<1>3. \A q : IsProm(Prom(q))
  BY PromFacts
<1> HIDE DEF g, v
<1>4. g.targetOn = f.targetOn
  BY <1>1
<1>5. Apart(c, g)
  BY <1>4 DEF Filled, Apart
<1>6. ASSUME NEW q \in 1 .. MaxCalls, f.targetOn = Prom(q)
      PROVE  g.target # None <=> q \in P \cup {p}
  <2>1. f.target # None <=> q \in P
    BY <1>6 DEF Filled
  <2> QED BY <1>1, <1>2, <1>6, <2>1
<1>7. ASSUME NEW q \in 1 .. MaxCalls, NEW i \in N, c[i + 1] = Prom(q)
      PROVE  g.args[i] # None <=> q \in P \cup {p}
  <2>1. f.args[i] # None <=> q \in P
    BY <1>7 DEF Filled
  <2>2. f.targetOn # Prom(q) /\ \A j \in N : c[j + 1] = Prom(q) => j = i
    BY <1>3, <1>7 DEF Filled, Apart
  <2>3. CASE f.targetOn = Prom(p)
    <3>1. q # p /\ g.args = f.args
      BY <1>1, <2>2, <2>3
    <3> QED BY <2>1, <3>1
  <2>4. CASE f.targetOn # Prom(p)
    <3>1. g.args[i] = IF i = f.on[p] THEN v ELSE f.args[i]
      BY <1>1, <2>4
    <3>2. i = f.on[p] <=> q = p
      BY <1>1, <1>2, <1>7, <2>2, <2>4
    <3> QED BY <1>2, <2>1, <3>1, <3>2
  <2> QED BY <2>3, <2>4
<1> QED BY <1>4, <1>5, <1>6, <1>7 DEF Filled, g, v

\* but the place that nobody fills stays empty,
LEMMA FillStuck ==
  ASSUME NEW c, NEW f, NEW K, Shape(c, f, K), NEW Z, Stuck(c, f, Z),
         NEW p \in 1 .. MaxCalls, WaitsFor(c, f, p), p \notin Z
  PROVE  Stuck(c, Fill(f, p, Val(p)), Z)
<1> DEFINE v == Val(p)
           g == Fill(f, p, v)
           N == 1 .. Len(c) - 1
<1>1. /\ g = [target |-> g.target, targetOn |-> f.targetOn, args |-> g.args, on |-> f.on]
      /\ f.targetOn = Prom(p) => g.target = v /\ g.args = f.args
      /\ f.targetOn # Prom(p) =>
           /\ g.target = f.target /\ f.on[p] \in N /\ c[f.on[p] + 1] = Prom(p)
           /\ g.args = [i \in N |-> IF i = f.on[p] THEN v ELSE f.args[i]]
  BY FillIs
<1> HIDE DEF g, v
<1>2. g.targetOn = f.targetOn /\ g.on = f.on
  BY <1>1
<1>3. PICK i \in N : \E q \in 1 .. MaxCalls :
        /\ f.args[i] = None /\ c[i + 1] = Prom(q)
        /\ f.on[q] # i \/ f.targetOn = Prom(q) \/ q \in Z
  BY DEF Stuck
<1>4. PICK q \in 1 .. MaxCalls :
        /\ f.args[i] = None /\ c[i + 1] = Prom(q)
        /\ f.on[q] # i \/ f.targetOn = Prom(q) \/ q \in Z
  BY <1>3
<1>5. g.args[i] = None
  <2>1. CASE f.targetOn = Prom(p)
    BY <1>1, <1>4, <2>1
  <2>2. CASE f.targetOn # Prom(p)
    <3>1. f.on[p] = i => q = p
      BY <1>1, <1>4, <2>2, PromFacts
    <3>2. f.on[p] # i
      BY <1>4, <2>2, <3>1
    <3> QED BY <1>1, <1>4, <2>2, <3>2
  <2> QED BY <2>1, <2>2
<1> QED BY <1>2, <1>4, <1>5 DEF Stuck, g, v

\* so a call that fell through a hole is never ready,
LEMMA StuckNotReady ==
  ASSUME NEW c, NEW f, NEW K, Shape(c, f, K), NEW Z, Stuck(c, f, Z)
  PROVE  ~ Ready(f)
<1>1. DOMAIN f.args = 1 .. Len(c) - 1
  BY DEF Shape
<1> QED BY <1>1 DEF Ready, Stuck

\* and one that did not is ready when all it waits for have told it.
LEMMA FilledReady ==
  ASSUME NEW c, c \in Seq(Items(MaxCalls)), c # <<>>, NEW f, NEW K, Shape(c, f, K), NEW P, Filled(c, f, P)
  PROVE  Ready(f) <=> \A p \in 1 .. MaxCalls : WaitsFor(c, f, p) => p \in P
<1> DEFINE N == 1 .. Len(c) - 1
<1>1. DOMAIN f.args = N
  BY DEF Shape
<1>2. ASSUME Ready(f), NEW p \in 1 .. MaxCalls, WaitsFor(c, f, p) PROVE p \in P
  BY <1>1, <1>2 DEF Ready, Filled, WaitsFor
<1>3. ASSUME \A p \in 1 .. MaxCalls : WaitsFor(c, f, p) => p \in P PROVE Ready(f)
  <2>1. Len(c) \in Nat \ {0} /\ \A i \in 1 .. Len(c) : c[i] \in Items(MaxCalls)
    OBVIOUS
  <2>2. MaxCalls \in 0 .. MaxCalls
    BY NoneFacts
  <2>3. f.target # None
    <3>1. CASE f.targetOn = None
      <4>1. c[1] # None
        BY <2>1, <2>2, ItemFacts
      <4> QED BY <3>1, <4>1 DEF Shape
    <3>2. CASE f.targetOn # None
      <4>1. f.targetOn = c[1] /\ IsProm(c[1]) /\ c[1] \in Items(MaxCalls)
        BY <2>1, <3>2 DEF Shape
      <4>2. PICK p \in 1 .. MaxCalls : c[1] = Prom(p)
        BY <2>2, <4>1, ItemFacts
      <4>3. p \in P
        BY <1>3, <4>1, <4>2 DEF WaitsFor
      <4> QED BY <4>1, <4>2, <4>3 DEF Filled
    <3> QED BY <3>1, <3>2
  <2>4. ASSUME NEW i \in N PROVE f.args[i] # None
    <3>1. c[i + 1] \in Items(MaxCalls)
      BY <2>1
    <3>2. CASE IsProm(c[i + 1])
      <4>1. PICK p \in 1 .. MaxCalls : c[i + 1] = Prom(p)
        BY <2>2, <3>1, <3>2, ItemFacts
      <4>2. p \in P
        BY <1>3, <4>1 DEF WaitsFor
      <4> QED BY <4>1, <4>2 DEF Filled
    <3>3. CASE ~ IsProm(c[i + 1])
      BY <3>3 DEF Shape
    <3> QED BY <3>2, <3>3
  <2> QED BY <1>1, <2>3, <2>4 DEF Ready
<1> QED BY <1>2, <1>3

\* The target before the arguments.
LEMMA InFront ==
  ASSUME NEW S, NEW a \in Seq(S), NEW t \in S
  PROVE  /\ <<t>> \o a \in Seq(S) /\ Len(<<t>> \o a) = Len(a) + 1 /\ (<<t>> \o a)[1] = t
         /\ \A i \in 2 .. Len(a) + 1 : (<<t>> \o a)[i] = a[i - 1]
<1>1. <<t>> \in Seq(S) /\ Len(<<t>>) = 1 /\ <<t>>[1] = t
  OBVIOUS
<1> DEFINE u == <<t>>
<1> HIDE DEF u
<1>2. /\ u \o a \in Seq(S) /\ Len(u \o a) = Len(a) + 1 /\ (u \o a)[1] = t
      /\ \A i \in 2 .. Len(a) + 1 : (u \o a)[i] = a[i - 1]
  BY <1>1 DEF u
<1> QED BY <1>2 DEF u

\* A call that is ready has the values of all that it was made of.
LEMMA ReadyMessage ==
  ASSUME NEW c, c \in Seq(Items(MaxCalls)), c # <<>>, NEW f, NEW K, Shape(c, f, K), Ready(f)
  PROVE  /\ <<f.target>> \o f.args = Message(c) /\ <<f.target>> \o f.args \in Seq(Vals)
         /\ \A i \in DOMAIN c : Known(c[i], K)
<1> DEFINE N == 1 .. Len(c) - 1
           t == f.target
           a == f.args
           m == <<t>> \o a
<1>1. Len(c) \in Nat \ {0} /\ DOMAIN c = 1 .. Len(c)
  OBVIOUS
<1>2. /\ a \in [N -> {None} \cup Vals] /\ t \in {None} \cup Vals
      /\ t # None /\ \A i \in N : a[i] # None
  BY DEF Shape, Ready
<1>3. t = Value(c[1]) /\ Known(c[1], K) /\ \A i \in N : a[i] = Value(c[i + 1]) /\ Known(c[i + 1], K)
  BY <1>2 DEF Shape
<1> HIDE DEF t, a
<1>4. a \in Seq(Vals) /\ Len(a) = Len(c) - 1 /\ t \in Vals
  <2>1. a \in [N -> Vals] /\ t \in Vals
    BY <1>2
  <2>2. Len(c) - 1 \in Nat
    BY <1>1
  <2> QED BY <2>1, <2>2
<1>5. /\ m \in Seq(Vals) /\ Len(m) = Len(c) /\ m[1] = t
      /\ \A i \in 2 .. Len(c) : m[i] = a[i - 1]
  <2>1. /\ m \in Seq(Vals) /\ Len(m) = Len(a) + 1 /\ m[1] = t
        /\ \A i \in 2 .. Len(a) + 1 : m[i] = a[i - 1]
    BY <1>4, InFront
  <2>2. Len(a) + 1 = Len(c)
    BY <1>1, <1>4
  <2> HIDE DEF m
  <2> QED BY <2>1, <2>2
<1> HIDE DEF m
<1>6. ASSUME NEW i \in 2 .. Len(c) PROVE m[i] = Value(c[i]) /\ Known(c[i], K)
  <2>1. i - 1 \in N /\ (i - 1) + 1 = i
    BY <1>1
  <2> QED BY <1>3, <1>5, <2>1
<1>7. \A i \in 1 .. Len(c) : m[i] = Value(c[i]) /\ Known(c[i], K)
  BY <1>1, <1>3, <1>5, <1>6
<1>8. m = [i \in DOMAIN c |-> Value(c[i])]
  BY <1>1, <1>5, <1>7
<1> QED BY <1>1, <1>5, <1>7, <1>8 DEF Message, m, t, a

\* What is noted stays right when more gets known,
LEMMA ShapeGrows ==
  ASSUME NEW c, NEW f, NEW K, NEW L, K \subseteq L, Shape(c, f, K)
  PROVE  Shape(c, f, L)
BY DEF Shape, Known

\* and what is stuck stays stuck.
LEMMA StuckGrows ==
  ASSUME NEW c, NEW f, NEW Z, NEW Y, Z \subseteq Y, Stuck(c, f, Z)
  PROVE  Stuck(c, f, Y)
BY DEF Stuck

-----------------------------------------------------------------------------
(* Steps that leave most as it is *)

\* Promises and calls are numbered alike.
LEMMA IdsAre ==
  ASSUME Types
  PROVE  /\ Len(calls) \in 0 .. MaxCalls /\ Ids = 1 .. Len(calls) /\ DOMAIN calls = Ids
         /\ Len(promises) = Len(calls) /\ MaxCalls \in 0 .. MaxCalls
         /\ \A p \in Ids : p \in 1 .. MaxCalls /\ promises[p] \in PromiseRecord
         /\ \A d \in Ids : calls[d] \in Seq(Items(d - 1)) /\ calls[d] \in Seq(Items(MaxCalls)) /\ calls[d] # <<>>
         /\ KnownIds \subseteq Ids /\ Settled \subseteq KnownIds
<1>1. MaxCalls \in Nat
  BY NoneFacts
<1>2. /\ Len(calls) \in Nat /\ DOMAIN calls = 1 .. Len(calls) /\ Len(promises) = Len(calls)
      /\ Ids = 1 .. Len(promises) /\ \A p \in Ids : promises[p] \in PromiseRecord
      /\ \A d \in DOMAIN calls : calls[d] \in Seq(Items(MaxCalls))
  BY DEF Types, Ids
<1>3. \A d \in Ids : calls[d] \in Seq(Items(d - 1)) /\ calls[d] # <<>>
  BY DEF Types
<1>4. Len(calls) <= MaxCalls
  BY DEF Types
<1>5. KnownIds \subseteq Ids /\ Settled \subseteq KnownIds
  BY DEF KnownIds, Settled
<1>6. /\ Len(calls) \in 0 .. MaxCalls /\ MaxCalls \in 0 .. MaxCalls /\ Ids = 1 .. Len(calls)
      /\ \A p \in Ids : p \in 1 .. MaxCalls
  <2>1. Len(calls) \in Nat /\ Ids = 1 .. Len(calls)
    BY <1>2
  <2> QED BY <1>1, <1>4, <2>1
<1> QED BY <1>2, <1>3, <1>5, <1>6

\* An element of a sequence.
LEMMA InSeq ==
  ASSUME NEW S, NEW s \in Seq(S), NEW i \in DOMAIN s
  PROVE  s[i] \in S
OBVIOUS

\* What the queues and the history hold.
LEMMA QueuesAre ==
  ASSUME Types
  PROVE  /\ lost.calls \subseteq Ids /\ lost.requests \subseteq Requests
         /\ lost = [calls |-> lost.calls, requests |-> lost.requests]
         /\ \A i \in DOMAIN replies : replies[i].to \in Requests
         /\ \A i \in DOMAIN out : out[i].prom \in Nat /\ out[i].call \in Seq(Vals)
<1>1. lost \in [calls : SUBSET Ids, requests : SUBSET Requests]
  BY DEF Types
<1>2. /\ lost.calls \subseteq Ids /\ lost.requests \subseteq Requests
      /\ lost = [calls |-> lost.calls, requests |-> lost.requests]
  BY <1>1
<1>3. replies \in Seq([to : Requests, value : Vals])
  BY DEF Types
<1>4. \A i \in DOMAIN replies : replies[i].to \in Requests
  <2>1. \A i \in DOMAIN replies : replies[i] \in [to : Requests, value : Vals]
    BY <1>3, InSeq
  <2> QED BY <2>1
<1>5. out \in Seq([prom : Nat, call : Seq(Vals)])
  BY DEF Types
<1>6. \A i \in DOMAIN out : out[i].prom \in Nat /\ out[i].call \in Seq(Vals)
  <2>1. \A i \in DOMAIN out : out[i] \in [prom : Nat, call : Seq(Vals)]
    BY <1>5, InSeq
  <2> QED BY <2>1
<1> QED BY <1>2, <1>4, <1>6

\* The fields of a promise.
LEMMA RecordsAre ==
  ASSUME NEW x \in PromiseRecord
  PROVE  /\ x = [result |-> x.result, callbacks |-> x.callbacks, dependents |-> x.dependents, asker |-> x.asker]
         /\ x.result \in {None} \cup Vals /\ x.callbacks \in Nat
         /\ x.dependents \in Seq(Nat) /\ x.asker \in {None} \cup Requests
BY DEF PromiseRecord

\* One field of one promise changes.
LEMMA OneRecord ==
  ASSUME NEW ps, ps \in Seq(PromiseRecord), NEW p \in DOMAIN ps, NEW y \in PromiseRecord,
         NEW qs, qs = [ps EXCEPT ![p] = y]
  PROVE  /\ qs \in Seq(PromiseRecord) /\ Len(qs) = Len(ps) /\ DOMAIN qs = DOMAIN ps
         /\ \A r \in DOMAIN ps : qs[r] = IF r = p THEN y ELSE ps[r]
OBVIOUS

\* One promise gets a result,
LEMMA OneResult ==
  ASSUME NEW ps, ps \in Seq(PromiseRecord), NEW p \in DOMAIN ps, NEW x \in {None} \cup Vals,
         NEW qs, qs = [ps EXCEPT ![p].result = x]
  PROVE  /\ qs \in Seq(PromiseRecord) /\ Len(qs) = Len(ps) /\ DOMAIN qs = DOMAIN ps
         /\ \A r \in DOMAIN ps :
              /\ qs[r].result = IF r = p THEN x ELSE ps[r].result
              /\ qs[r].dependents = ps[r].dependents
              /\ qs[r].asker = ps[r].asker
<1> DEFINE a == ps[p].result
           b == ps[p].callbacks
           c == ps[p].dependents
           d == ps[p].asker
           y == [result |-> x, callbacks |-> b, dependents |-> c, asker |-> d]
<1>1. /\ ps[p] = [result |-> a, callbacks |-> b, dependents |-> c, asker |-> d]
      /\ a \in {None} \cup Vals /\ b \in Nat /\ c \in Seq(Nat) /\ d \in {None} \cup Requests
  <2>1. ps[p] \in PromiseRecord
    OBVIOUS
  <2> QED BY <2>1, RecordsAre
<1> HIDE DEF a, b, c, d
<1>2. y \in PromiseRecord /\ y.result = x /\ y.dependents = c /\ y.asker = d
  BY <1>1 DEF PromiseRecord
<1>3. ps[p].dependents = c /\ ps[p].asker = d
  BY <1>1
<1>4. [ps[p] EXCEPT !.result = x] = y
  BY <1>1
<1> HIDE DEF y
<1>5. qs = [ps EXCEPT ![p] = y]
  BY <1>4, Zenon
<1>6. /\ qs \in Seq(PromiseRecord) /\ Len(qs) = Len(ps) /\ DOMAIN qs = DOMAIN ps
      /\ \A r \in DOMAIN ps : qs[r] = IF r = p THEN y ELSE ps[r]
  <2>1. y \in PromiseRecord
    BY <1>2
  <2> QED BY <1>5, <2>1, OneRecord
<1> QED BY <1>2, <1>3, <1>6

\* one more callback,
LEMMA OneCallback ==
  ASSUME NEW ps, ps \in Seq(PromiseRecord), NEW p \in DOMAIN ps, NEW x \in Nat,
         NEW qs, qs = [ps EXCEPT ![p].callbacks = x]
  PROVE  /\ qs \in Seq(PromiseRecord) /\ Len(qs) = Len(ps) /\ DOMAIN qs = DOMAIN ps
         /\ \A r \in DOMAIN ps :
              /\ qs[r].result = ps[r].result
              /\ qs[r].dependents = ps[r].dependents
              /\ qs[r].asker = ps[r].asker
<1> DEFINE a == ps[p].result
           b == ps[p].callbacks
           c == ps[p].dependents
           d == ps[p].asker
           y == [result |-> a, callbacks |-> x, dependents |-> c, asker |-> d]
<1>1. /\ ps[p] = [result |-> a, callbacks |-> b, dependents |-> c, asker |-> d]
      /\ a \in {None} \cup Vals /\ b \in Nat /\ c \in Seq(Nat) /\ d \in {None} \cup Requests
  <2>1. ps[p] \in PromiseRecord
    OBVIOUS
  <2> QED BY <2>1, RecordsAre
<1> HIDE DEF a, b, c, d
<1>2. y \in PromiseRecord /\ y.result = a /\ y.dependents = c /\ y.asker = d
  BY <1>1 DEF PromiseRecord
<1>3. ps[p].result = a /\ ps[p].dependents = c /\ ps[p].asker = d
  BY <1>1
<1>4. [ps[p] EXCEPT !.callbacks = x] = y
  BY <1>1
<1> HIDE DEF y
<1>5. qs = [ps EXCEPT ![p] = y]
  BY <1>4, Zenon
<1>6. /\ qs \in Seq(PromiseRecord) /\ Len(qs) = Len(ps) /\ DOMAIN qs = DOMAIN ps
      /\ \A r \in DOMAIN ps : qs[r] = IF r = p THEN y ELSE ps[r]
  <2>1. y \in PromiseRecord
    BY <1>2
  <2> QED BY <1>5, <2>1, OneRecord
<1> QED BY <1>2, <1>3, <1>6

\* or a request to answer.
LEMMA OneAsker ==
  ASSUME NEW ps, ps \in Seq(PromiseRecord), NEW p \in DOMAIN ps, NEW x \in {None} \cup Requests,
         NEW qs, qs = [ps EXCEPT ![p].asker = x]
  PROVE  /\ qs \in Seq(PromiseRecord) /\ Len(qs) = Len(ps) /\ DOMAIN qs = DOMAIN ps
         /\ \A r \in DOMAIN ps :
              /\ qs[r].result = ps[r].result
              /\ qs[r].dependents = ps[r].dependents
              /\ qs[r].asker = IF r = p THEN x ELSE ps[r].asker
<1> DEFINE a == ps[p].result
           b == ps[p].callbacks
           c == ps[p].dependents
           d == ps[p].asker
           y == [result |-> a, callbacks |-> b, dependents |-> c, asker |-> x]
<1>1. /\ ps[p] = [result |-> a, callbacks |-> b, dependents |-> c, asker |-> d]
      /\ a \in {None} \cup Vals /\ b \in Nat /\ c \in Seq(Nat) /\ d \in {None} \cup Requests
  <2>1. ps[p] \in PromiseRecord
    OBVIOUS
  <2> QED BY <2>1, RecordsAre
<1> HIDE DEF a, b, c, d
<1>2. y \in PromiseRecord /\ y.result = a /\ y.dependents = c /\ y.asker = x
  BY <1>1 DEF PromiseRecord
<1>3. ps[p].result = a /\ ps[p].dependents = c
  BY <1>1
<1>4. [ps[p] EXCEPT !.asker = x] = y
  BY <1>1
<1> HIDE DEF y
<1>5. qs = [ps EXCEPT ![p] = y]
  BY <1>4, Zenon
<1>6. /\ qs \in Seq(PromiseRecord) /\ Len(qs) = Len(ps) /\ DOMAIN qs = DOMAIN ps
      /\ \A r \in DOMAIN ps : qs[r] = IF r = p THEN y ELSE ps[r]
  <2>1. y \in PromiseRecord
    BY <1>2
  <2> QED BY <1>5, <2>1, OneRecord
<1> QED BY <1>2, <1>3, <1>6

\* Calls that wait are not touched,
LEMMA StillNoted ==
  ASSUME Types, Noting, Waiting, calls' = calls, depend' = depend, lost'.calls = lost.calls,
         DOMAIN promises' = DOMAIN promises,
         \A p \in Ids : promises'[p].dependents = promises[p].dependents,
         KnownIds \subseteq KnownIds', Settled \subseteq Settled', \A d \in Ids : Told(d)' = Told(d)
  PROVE  Noting' /\ Waiting'
<1>1. Ids' = Ids /\ DOMAIN depend \subseteq Ids
  BY DEF Ids, Types
<1>2. ASSUME NEW d \in DOMAIN depend PROVE Shape(calls[d], depend[d], KnownIds')
  BY <1>2, ShapeGrows DEF Noting
<1>3. Noting'
  BY <1>1, <1>2 DEF Noting
<1>4. ASSUME NEW d \in lost.calls PROVE Stuck(calls[d], depend[d], Settled')
  BY <1>4, StuckGrows DEF Waiting
<1>5. \A p \in Ids : \A d : NotedAt(p, d)' = NotedAt(p, d)
  BY DEF NotedAt
<1>6. Waiting'
  BY <1>1, <1>4, <1>5 DEF Waiting
<1> QED BY <1>3, <1>6

\* nor are those that were sent,
LEMMA StillSent ==
  ASSUME Types, Sending, calls' = calls, depend' = depend, out' = out,
         DOMAIN promises' = DOMAIN promises, KnownIds \subseteq KnownIds',
         \A d \in KnownIds' : IsSent(d)
  PROVE  Sending'
<1>1. Ids' = Ids /\ \A d : IsSent(d)' <=> IsSent(d)
  BY DEF Ids, IsSent
<1>2. ASSUME NEW x, Known(x, KnownIds) PROVE Known(x, KnownIds')
  BY <1>2 DEF Known
<1> QED BY <1>1, <1>2 DEF Sending

\* nor requests.
LEMMA StillAnswered ==
  ASSUME Types, Answering, replies' = replies, returned' = returned, lost'.requests = lost.requests,
         DOMAIN promises' = DOMAIN promises, \A p \in Ids : promises'[p].asker = promises[p].asker,
         KnownIds \subseteq KnownIds', Settled' = Settled
  PROVE  Answering'
<1>1. Ids' = Ids /\ \A q : Answered(q)' <=> Answered(q)
  BY DEF Ids, Answered
<1>2. ASSUME NEW x, Known(x, KnownIds) PROVE Known(x, KnownIds')
  BY <1>2 DEF Known
<1> QED BY <1>1, <1>2 DEF Answering

\* Nothing happens to the promise whose response is handled.
LEMMA SameSets ==
  ASSUME DOMAIN promises' = DOMAIN promises,
         \A p \in Ids : /\ promises'[p].result = promises[p].result
                        /\ promises'[p].dependents = promises[p].dependents,
         \/ at' = at /\ current' = current /\ (at = "notify" => left' = left)
         \/ {at, at'} \cap {"resolve", "notify"} = {}
  PROVE  KnownIds' = KnownIds /\ Settled' = Settled /\ \A d : Told(d)' = Told(d)
<1>1. Ids' = Ids
  BY DEF Ids
<1>2. KnownIds' = KnownIds
  BY <1>1 DEF KnownIds, Resolved
<1>3. \A p : Passing(p)' <=> Passing(p)
  BY DEF Passing
<1>4. Settled' = Settled
  BY <1>2, <1>3 DEF Settled
<1>5. ASSUME NEW p \in Ids, NEW k PROVE Passed(p, k)' <=> Passed(p, k)
  BY <1>3 DEF Passed, Resolved, Passing
<1>6. ASSUME NEW d PROVE Told(d)' = Told(d)
  BY <1>1, <1>5 DEF Told, NotedAt
<1> QED BY <1>2, <1>4, <1>6

\* Types of a step that changes promises only,
LEMMA SameTypes ==
  ASSUME Types, UNCHANGED <<calls, depend, out, replies, returned, lost>>, left' \in Nat,
         promises' \in Seq(PromiseRecord), Len(promises') = Len(promises), DOMAIN promises' = DOMAIN promises,
         \A p \in Ids : promises'[p].result \in {None, Val(p)}
  PROVE  Types'
<1>1. Ids' = Ids
  BY DEF Ids
<1> QED BY <1>1 DEF Types

\* and of one that does not.
LEMMA SamePromises ==
  ASSUME Types, UNCHANGED <<promises, calls, depend, out, replies, returned, lost>>, left' \in Nat
  PROVE  Types' /\ Ids' = Ids
BY DEF Types, Ids

-----------------------------------------------------------------------------
(* Handlers and callbacks begin and end *)

\* A handler begins (eval_func_local, hylic_eval.cpp:158-183).
LEMMA HandleRequestKeeps ==
  ASSUME Good, NEW q \in Requests, HandleRequest(q)
  PROVE  Good'
<1>1. /\ at = "idle" /\ returned[q] = <<>> /\ at' = "request" /\ current' = q
      /\ UNCHANGED <<promises, depend, out, replies, left, calls, returned, lost>>
  BY DEF HandleRequest, vatVars
<1>2. Types /\ Noting /\ Waiting /\ Sending /\ Answering
  BY DEF Good
<1>3. Types' /\ Ids' = Ids
  <2>1. left' \in Nat
    BY <1>1, <1>2 DEF Types
  <2> QED BY <1>1, <1>2, <2>1, SamePromises
<1>4. KnownIds' = KnownIds /\ Settled' = Settled /\ \A d : Told(d)' = Told(d)
  <2>1. {at, at'} \cap {"resolve", "notify"} = {}
    BY <1>1
  <2> QED BY <1>1, <2>1, SameSets
<1>5. Place'
  BY <1>1 DEF Place
<1>6. Noting' /\ Waiting'
  BY <1>1, <1>2, <1>4, StillNoted
<1>7. Sending'
  BY <1>1, <1>2, <1>4, StillSent DEF Sending
<1>8. Answering'
  BY <1>1, <1>2, <1>4, StillAnswered
<1> QED BY <1>3, <1>5, <1>6, <1>7, <1>8 DEF Good

\* A callback ends, (hylic_eval.cpp:90-104)
LEMMA EndCallbackKeeps ==
  ASSUME Good, EndCallback
  PROVE  Good'
<1>1. /\ at = "resolve" /\ left > 0 /\ left' = left - 1 /\ at' = at /\ current' = current
      /\ UNCHANGED <<promises, depend, out, replies, calls, returned, lost>>
  BY DEF EndCallback, vatVars
<1>2. Types /\ Place /\ Noting /\ Waiting /\ Sending /\ Answering
  BY DEF Good
<1>3. Types' /\ Ids' = Ids
  <2>1. left' \in Nat
    BY <1>1, <1>2 DEF Types
  <2> QED BY <1>1, <1>2, <2>1, SamePromises
<1>4. KnownIds' = KnownIds /\ Settled' = Settled /\ \A d : Told(d)' = Told(d)
  BY <1>1, SameSets
<1>5. Place'
  BY <1>1, <1>2, <1>3 DEF Place, Resolved
<1>6. Noting' /\ Waiting'
  BY <1>1, <1>2, <1>4, StillNoted
<1>7. Sending'
  BY <1>1, <1>2, <1>4, StillSent DEF Sending
<1>8. Answering'
  BY <1>1, <1>2, <1>4, StillAnswered
<1> QED BY <1>3, <1>5, <1>6, <1>7, <1>8 DEF Good

\* and so does the last: the promise has told nobody yet.
LEMMA EndCallbacksKeeps ==
  ASSUME Good, EndCallbacks
  PROVE  Good'
<1>1. /\ at = "resolve" /\ at' = "notify" /\ current' = current
      /\ left' = Len(promises[current].dependents)
      /\ UNCHANGED <<promises, depend, out, replies, calls, returned, lost>>
  BY DEF EndCallbacks, vatVars
<1>2. Types /\ Place /\ Noting /\ Waiting /\ Sending /\ Answering
  BY DEF Good
<1>3. current \in Ids /\ Resolved(current) /\ left' \in Nat
  <2>1. current \in Ids /\ Resolved(current)
    BY <1>1, <1>2 DEF Place
  <2>2. promises[current] \in PromiseRecord
    BY <1>2, <2>1, IdsAre
  <2>3. promises[current].dependents \in Seq(Nat)
    BY <2>2, RecordsAre
  <2> QED BY <1>1, <2>1, <2>3
<1>4. Types' /\ Ids' = Ids
  BY <1>1, <1>2, <1>3, SamePromises
<1>5. KnownIds' = KnownIds /\ \A p : Passing(p)' <=> Passing(p)
  BY <1>1, <1>4 DEF KnownIds, Resolved, Passing
<1>6. Settled' = Settled
  BY <1>5 DEF Settled
<1>7. ASSUME NEW p \in Ids, NEW k \in DOMAIN promises[p].dependents
      PROVE  Passed(p, k)' <=> Passed(p, k)
  <2>1. CASE p = current
    <3>1. ~ Passed(p, k)
      BY <1>1, <2>1 DEF Passed, Passing
    <3>2. promises[p].dependents \in Seq(Nat)
      BY <1>2, IdsAre, RecordsAre
    <3>3. k \in 1 .. Len(promises[p].dependents) /\ Len(promises[p].dependents) \in Nat
      BY <3>2
    <3>4. ~ Passed(p, k)'
      BY <1>1, <2>1, <3>3 DEF Passed, Passing
    <3> QED BY <3>1, <3>4
  <2>2. CASE p # current
    BY <1>1, <2>2 DEF Passed, Passing, Resolved
  <2> QED BY <2>1, <2>2
<1>8. \A d : Told(d)' = Told(d)
  <2>1. \A p, d : NotedAt(p, d)' = NotedAt(p, d) /\ NotedAt(p, d) \subseteq DOMAIN promises[p].dependents
    BY <1>1 DEF NotedAt
  <2> QED BY <1>4, <1>7, <2>1 DEF Told
<1>9. Place'
  <2>1. current' \in Ids' /\ Resolved(current)'
    BY <1>1, <1>3, <1>4 DEF Resolved
  <2>2. left' <= Len(promises'[current'].dependents)
    BY <1>1, <1>3
  <2> QED BY <1>1, <2>1, <2>2 DEF Place
<1>10. Noting' /\ Waiting'
  BY <1>1, <1>2, <1>5, <1>6, <1>8, StillNoted
<1>11. Sending'
  BY <1>1, <1>2, <1>5, StillSent DEF Sending
<1>12. Answering'
  BY <1>1, <1>2, <1>5, <1>6, StillAnswered
<1> QED BY <1>4, <1>9, <1>10, <1>11, <1>12 DEF Good

\* A callback is added (on_promise_do, hylic_eval.cpp:73-75).
LEMMA OnPromiseKeeps ==
  ASSUME Good, NEW p \in Ids, OnPromise(p), at' # "dead"
  PROVE  Good' /\ KnownIds' = KnownIds
<1>1. /\ at' = at /\ promises' = [promises EXCEPT ![p].callbacks = @ + 1]
      /\ UNCHANGED <<depend, out, replies, current, left, calls, returned, lost>>
  BY DEF OnPromise
<1>2. Types /\ Place /\ Noting /\ Waiting /\ Sending /\ Answering
  BY DEF Good
<1>3. promises \in Seq(PromiseRecord) /\ p \in DOMAIN promises
  BY <1>2 DEF Types, Ids
<1>4. PICK x \in Nat : x = promises[p].callbacks + 1
  BY <1>3, RecordsAre
<1>5. /\ promises' \in Seq(PromiseRecord) /\ Len(promises') = Len(promises)
      /\ DOMAIN promises' = DOMAIN promises /\ Ids = DOMAIN promises /\ Ids' = Ids
      /\ \A r \in DOMAIN promises :
           /\ promises'[r].result = promises[r].result
           /\ promises'[r].dependents = promises[r].dependents
           /\ promises'[r].asker = promises[r].asker
  <2>1. promises' = [promises EXCEPT ![p].callbacks = x]
    BY <1>1, <1>4
  <2> QED BY <1>3, <2>1, OneCallback DEF Ids
<1>6. Types'
  <2>1. left' \in Nat /\ \A r \in Ids : promises'[r].result \in {None, Val(r)}
    BY <1>1, <1>2, <1>5 DEF Types
  <2> QED BY <1>1, <1>2, <1>5, <2>1, SameTypes
<1>7. KnownIds' = KnownIds /\ Settled' = Settled /\ \A d : Told(d)' = Told(d)
  BY <1>1, <1>5, SameSets
<1>8. Place'
  BY <1>1, <1>2, <1>5 DEF Place, Resolved
<1>9. Noting' /\ Waiting'
  BY <1>1, <1>2, <1>5, <1>7, StillNoted
<1>10. Sending'
  BY <1>1, <1>2, <1>5, <1>7, StillSent DEF Sending
<1>11. Answering'
  BY <1>1, <1>2, <1>5, <1>7, StillAnswered
<1> QED BY <1>6, <1>7, <1>8, <1>9, <1>10, <1>11 DEF Good

\* A promise gets its result (pleroma.cpp:92-99): it is known, but has told nobody.
LEMMA HandleResponseKeeps ==
  ASSUME Good, NEW i \in DOMAIN out, HandleResponse(out[i])
  PROVE  Good' /\ KnownIds' = KnownIds \cup {out[i].prom} /\ out[i].prom \in Ids
<1>0. PICK p : p = out[i].prom
  OBVIOUS
<1>1. /\ at = "idle" /\ ~ Resolved(p) /\ promises' = [promises EXCEPT ![p].result = Val(p)]
      /\ at' = "resolve" /\ current' = p /\ left' = promises[p].callbacks
      /\ UNCHANGED <<depend, out, replies, calls, returned, lost>>
  BY <1>0 DEF HandleResponse, Result
<1>2. Types /\ Place /\ Noting /\ Waiting /\ Sending /\ Answering
  BY DEF Good
<1>3. p \in Ids /\ IsSent(p)
  BY <1>0, <1>2 DEF Sending, IsSent
<1>4. promises \in Seq(PromiseRecord) /\ p \in DOMAIN promises /\ Val(p) \in Vals /\ Val(p) # None
  <2>1. p \in 1 .. MaxCalls
    BY <1>2, <1>3, IdsAre
  <2> QED BY <1>2, <1>3, <2>1, NoneFacts DEF Types, Ids
<1>5. /\ promises' \in Seq(PromiseRecord) /\ Len(promises') = Len(promises)
      /\ DOMAIN promises' = DOMAIN promises /\ Ids = DOMAIN promises /\ Ids' = Ids
      /\ \A r \in DOMAIN promises :
           /\ promises'[r].result = IF r = p THEN Val(p) ELSE promises[r].result
           /\ promises'[r].dependents = promises[r].dependents
           /\ promises'[r].asker = promises[r].asker
  <2>1. PICK x \in {None} \cup Vals : x = Val(p)
    BY <1>4
  <2>2. promises' = [promises EXCEPT ![p].result = x]
    BY <1>1, <2>1
  <2> QED BY <1>4, <2>1, <2>2, OneResult DEF Ids
<1>6. Types'
  <2>1. promises[p].callbacks \in Nat
    BY <1>4, RecordsAre
  <2>2. \A r \in Ids : promises'[r].result \in {None, Val(r)}
    BY <1>2, <1>5 DEF Types
  <2> QED BY <1>1, <1>2, <1>5, <2>1, <2>2, SameTypes
<1>7. KnownIds' = KnownIds \cup {p} /\ p \notin KnownIds
  <2>1. \A r \in Ids : Resolved(r)' <=> r = p \/ Resolved(r)
    BY <1>4, <1>5 DEF Resolved
  <2> QED BY <1>1, <1>3, <1>5, <2>1 DEF KnownIds
<1>8. Settled' = Settled
  <2>1. \A r : ~ Passing(r) /\ (Passing(r)' <=> r = p)
    BY <1>1 DEF Passing
  <2> QED BY <1>7, <2>1 DEF Settled
<1>9. \A d : Told(d)' = Told(d)
  <2>1. \A r \in Ids : \A k : Passed(r, k)' <=> Passed(r, k)
    <3> SUFFICES ASSUME NEW r \in Ids, NEW k PROVE Passed(r, k)' <=> Passed(r, k)
      OBVIOUS
    <3>1. CASE r = p
      BY <1>1, <3>1 DEF Passed, Passing
    <3>2. CASE r # p
      BY <1>1, <1>5, <3>2 DEF Passed, Passing, Resolved
    <3> QED BY <3>1, <3>2
  <2>2. \A r \in Ids : \A d : NotedAt(r, d)' = NotedAt(r, d)
    BY <1>5 DEF NotedAt
  <2> QED BY <1>5, <2>1, <2>2 DEF Told
<1>10. Place'
  <2>1. Resolved(p)'
    BY <1>3, <1>4, <1>5 DEF Resolved
  <2> QED BY <1>1, <1>3, <1>5, <2>1 DEF Place
<1>11. Noting' /\ Waiting'
  BY <1>1, <1>2, <1>5, <1>7, <1>8, <1>9, StillNoted
<1>12. Sending'
  <2>1. \A d \in KnownIds' : IsSent(d)
    BY <1>2, <1>3, <1>7 DEF Sending
  <2> QED BY <1>1, <1>2, <1>5, <1>7, <2>1, StillSent
<1>13. Answering'
  BY <1>1, <1>2, <1>5, <1>7, <1>8, StillAnswered
<1> QED BY <1>0, <1>3, <1>6, <1>7, <1>10, <1>11, <1>12, <1>13 DEF Good

-----------------------------------------------------------------------------
(* Requests are answered *)

\* A list of one element.
LEMMA Single ==
  ASSUME NEW S, NEW s \in Seq(S), s # <<>>, Len(s) <= 1
  PROVE  Len(s) = 1 /\ s[1] \in S /\ s = <<s[1]>>
<1>1. Len(s) = 1 /\ s[1] \in S /\ DOMAIN s = 1 .. 1
  OBVIOUS
<1> DEFINE t == <<s[1]>>
<1>2. t \in Seq(S) /\ Len(t) = 1 /\ t[1] = s[1]
  BY <1>1
<1> HIDE DEF t
<1>3. s = t
  BY <1>1, <1>2
<1> QED BY <1>1, <1>3 DEF t

\* What a handler has returned.
LEMMA ReturnedAre ==
  ASSUME Types, NEW q \in Requests, returned[q] # <<>>
  PROVE  /\ returned[q] = <<returned[q][1]>> /\ returned[q][1] \in Items(Len(calls))
         /\ \A p : returned[q][1] = Prom(p) <=> returned[q] = <<Prom(p)>>
<1>1. returned[q] \in Seq(Items(Len(calls))) /\ Len(returned[q]) <= 1
  BY DEF Types
<1>2. returned[q] = <<returned[q][1]>> /\ returned[q][1] \in Items(Len(calls))
  BY <1>1, Single
<1>3. \A x, y : <<x>> = <<y>> => x = y
  OBVIOUS
<1> QED BY <1>2, <1>3

\* One more in a queue.
LEMMA OneMore ==
  ASSUME NEW S, NEW q \in Seq(S), NEW x \in S
  PROVE  /\ Append(q, x) \in Seq(S) /\ DOMAIN Append(q, x) = DOMAIN q \cup {Len(q) + 1}
         /\ Len(q) + 1 \notin DOMAIN q /\ Append(q, x)[Len(q) + 1] = x
         /\ \A i \in DOMAIN q : Append(q, x)[i] = q[i]
<1>1. /\ Len(q) \in Nat /\ DOMAIN q = 1 .. Len(q) /\ Append(q, x) \in Seq(S)
      /\ DOMAIN Append(q, x) = 1 .. Len(q) + 1 /\ Append(q, x)[Len(q) + 1] = x
      /\ \A i \in DOMAIN q : Append(q, x)[i] = q[i]
  OBVIOUS
<1> QED BY <1>1

\* One more response to a request.
LEMMA OneReply ==
  ASSUME Types, NEW q \in Requests, NEW v \in Vals, replies' = Append(replies, [to |-> q, value |-> v])
  PROVE  /\ replies' \in Seq([to : Requests, value : Vals])
         /\ \A r : Answered(r)' <=> r = q \/ Answered(r)
         /\ \A i \in DOMAIN replies' :
              \/ i \in DOMAIN replies /\ replies'[i] = replies[i]
              \/ i = Len(replies) + 1 /\ replies'[i].to = q /\ replies'[i].value = v
<1> DEFINE m == [to |-> q, value |-> v]
<1>1. m \in [to : Requests, value : Vals] /\ m.to = q /\ m.value = v
  OBVIOUS
<1>2. replies \in Seq([to : Requests, value : Vals]) /\ replies' = Append(replies, m)
  BY DEF Types
<1> HIDE DEF m
<1>3. /\ replies' \in Seq([to : Requests, value : Vals])
      /\ DOMAIN replies' = DOMAIN replies \cup {Len(replies) + 1} /\ replies'[Len(replies) + 1] = m
      /\ \A i \in DOMAIN replies : replies'[i] = replies[i]
  BY <1>1, <1>2, OneMore
<1> QED BY <1>1, <1>3 DEF Answered

\* The response with it is handled: who asked is answered (pleroma.cpp:102-108), and
\* everybody who waited has been told.
LEMMA EndResponseKeeps ==
  ASSUME Good, EndResponse
  PROVE  Good' /\ KnownIds' = KnownIds /\ \A r : Answered(r) => Answered(r)'
<1>0. PICK p : p = current
  OBVIOUS
<1>1. /\ at = "notify" /\ left = 0 /\ replies' = Reply(p) /\ at' = "idle"
      /\ UNCHANGED <<promises, depend, out, left, calls, returned, lost>>
  BY <1>0 DEF EndResponse
<1>2. Types /\ Place /\ Noting /\ Waiting /\ Sending /\ Answering
  BY DEF Good
<1>3. p \in Ids /\ Resolved(p) /\ promises[p] \in PromiseRecord /\ p \in 1 .. MaxCalls
  BY <1>0, <1>1, <1>2, IdsAre DEF Place
<1>4. promises[p].result = Val(p) /\ Val(p) \in Vals /\ promises[p].asker \in {None} \cup Requests
  BY <1>2, <1>3, NoneFacts, RecordsAre DEF Types, Resolved
<1>5. Ids' = Ids /\ KnownIds' = KnownIds /\ p \in KnownIds
  BY <1>1, <1>3 DEF Ids, KnownIds, Resolved
<1>6. Settled' = Settled \cup {p} /\ p \notin Settled
  <2>1. \A r : ~ Passing(r)' /\ (Passing(r) <=> r = p)
    BY <1>0, <1>1 DEF Passing
  <2> QED BY <1>5, <2>1 DEF Settled
<1>7. \A d : Told(d)' = Told(d)
  <2>1. \A r \in Ids : \A d : NotedAt(r, d)' = NotedAt(r, d) /\ NotedAt(r, d) \subseteq DOMAIN promises[r].dependents
    BY <1>1 DEF NotedAt
  <2>2. ASSUME NEW r \in Ids, NEW k \in DOMAIN promises[r].dependents
        PROVE  Passed(r, k)' <=> Passed(r, k)
    <3>1. CASE r = p
      <4>1. promises[r].dependents \in Seq(Nat)
        BY <1>3, <3>1, RecordsAre
      <4>2. k <= Len(promises[r].dependents) - 0
        BY <4>1
      <4> QED BY <1>0, <1>1, <4>2 DEF Passed, Passing, Resolved
    <3>2. CASE r # p
      BY <1>0, <1>1, <3>2 DEF Passed, Passing, Resolved
    <3> QED BY <3>1, <3>2
  <2> QED BY <1>5, <2>1, <2>2 DEF Told
<1>8. Noting' /\ Waiting'
  BY <1>1, <1>2, <1>5, <1>6, <1>7, StillNoted
<1>9. Sending'
  BY <1>1, <1>2, <1>5, StillSent DEF Sending
<1>10. Place'
  BY <1>1 DEF Place
<1>11. \A q \in Requests \ lost.requests :
         returned[q] # <<>> => (returned[q][1] = Prom(p) <=> promises[p].asker = q)
  BY <1>2, <1>3, <1>6, ReturnedAre DEF Answering
<1>12. \A q \in Requests : promises[p].asker = q => returned[q] # <<>> /\ q \notin lost.requests
  <2>1. \A q \in Requests : promises[p].asker = q => returned[q] = <<Prom(p)>> /\ q \notin lost.requests
    BY <1>2, <1>3, <1>6 DEF Answering
  <2>2. <<Prom(p)>> # <<>>
    OBVIOUS
  <2> QED BY <2>1, <2>2
<1>13. \A x : Known(x, Settled') <=> Known(x, Settled) \/ (IsProm(x) /\ x.prom = p)
  BY <1>6 DEF Known
<1>14. ASSUME NEW q \in Requests, returned[q] # <<>>
       PROVE  IsProm(returned[q][1]) /\ returned[q][1].prom = p <=> returned[q][1] = Prom(p)
  <2>1. Len(calls) \in 0 .. MaxCalls /\ returned[q][1] \in Items(Len(calls))
    BY <1>2, <1>14, IdsAre, ReturnedAre
  <2> QED BY <2>1, ItemFacts, PromFacts
<1>15. \A q \in Requests :
         Answered(q) \/ promises[p].asker = q
           <=> returned[q] # <<>> /\ q \notin lost.requests /\ Known(returned[q][1], Settled')
  BY <1>2, <1>11, <1>12, <1>13, <1>14 DEF Answering
<1>16. CASE promises[p].asker = None
  <2>1. replies' = replies
    BY <1>1, <1>16 DEF Reply
  <2>2. \A q : Answered(q)' <=> Answered(q)
    BY <2>1 DEF Answered
  <2>3. None \notin Requests
    BY NoneFacts
  <2>4. Types'
    BY <1>1, <1>2, <1>5, <2>1 DEF Types
  <2>5. Answering'
    BY <1>1, <1>2, <1>5, <1>6, <1>15, <1>16, <2>1, <2>2, <2>3 DEF Answering
  <2> QED BY <1>5, <1>8, <1>9, <1>10, <2>2, <2>4, <2>5 DEF Good
<1>17. CASE promises[p].asker # None
  <2>1. PICK q \in Requests : promises[p].asker = q
    BY <1>4, <1>17
  <2>2. replies' = Append(replies, [to |-> q, value |-> Val(p)])
    BY <1>1, <1>4, <1>17, <2>1 DEF Reply
  <2>3. /\ replies' \in Seq([to : Requests, value : Vals])
        /\ \A r : Answered(r)' <=> r = q \/ Answered(r)
        /\ \A i \in DOMAIN replies' :
              \/ i \in DOMAIN replies /\ replies'[i] = replies[i]
              \/ i = Len(replies) + 1 /\ replies'[i].to = q /\ replies'[i].value = Val(p)
    BY <1>2, <1>4, <2>1, <2>2, OneReply
  <2>4. Types'
    BY <1>1, <1>2, <1>5, <2>3 DEF Types
  <2>5. returned[q] # <<>> /\ q \notin lost.requests /\ returned[q][1] = Prom(p)
    BY <1>11, <1>12, <2>1
  <2>6. ~ Answered(q)
    <3>1. ~ Known(returned[q][1], Settled)
      BY <1>6, <2>5, PromFacts DEF Known
    <3> QED BY <1>2, <3>1 DEF Answering
  <2>7. Known(Prom(p), KnownIds) /\ Value(Prom(p)) = Val(p)
    BY <1>5, PromFacts DEF Known, Value
  <2>8. ASSUME NEW i \in DOMAIN replies'
        PROVE  LET r == returned[replies'[i].to] IN
               r # <<>> /\ Known(r[1], KnownIds) /\ replies'[i].value = Value(r[1])
    BY <1>2, <2>3, <2>5, <2>7 DEF Answering
  <2>9. ASSUME NEW i \in DOMAIN replies', NEW j \in DOMAIN replies', replies'[i].to = replies'[j].to
        PROVE  i = j
    BY <1>2, <2>3, <2>6, <2>9 DEF Answering, Answered
  <2>10. \A r \in Requests :
           Answered(r)' <=> returned[r] # <<>> /\ r \notin lost.requests /\ Known(returned[r][1], Settled')
    BY <1>15, <2>1, <2>3
  <2>11. \A r \in lost.requests : returned[r] # <<>>
    BY <1>2 DEF Answering
  <2>12. \A r \in Ids \ Settled' : \A s \in Requests :
           promises[r].asker = s <=> returned[s] = <<Prom(r)>> /\ s \notin lost.requests
    BY <1>2, <1>6 DEF Answering
  <2>13. Answering'
    BY <1>1, <1>5, <2>8, <2>9, <2>10, <2>11, <2>12 DEF Answering
  <2> QED BY <1>5, <1>8, <1>9, <1>10, <2>3, <2>4, <2>13 DEF Good
<1> QED BY <1>16, <1>17

\* A handler of request q returns x.
LEMMA ReturnedTypes ==
  ASSUME Types, NEW q \in Requests, NEW x \in Holdable, returned' = [returned EXCEPT ![q] = <<x>>]
  PROVE  /\ x \in Items(Len(calls))
         /\ returned' \in [Requests -> Seq(Items(Len(calls)))] /\ \A r \in Requests : Len(returned'[r]) <= 1
         /\ returned'[q] = <<x>> /\ returned'[q] # <<>> /\ returned'[q][1] = x
         /\ \A r \in Requests : r # q => returned'[r] = returned[r]
<1>1. x \in Items(Len(calls))
  <2>1. Ids = 1 .. Len(calls)
    BY IdsAre
  <2> QED BY <2>1 DEF Holdable, Items
<1>2. returned \in [Requests -> Seq(Items(Len(calls)))] /\ \A r \in Requests : Len(returned[r]) <= 1
  BY DEF Types
<1> DEFINE s == <<x>>
<1>3. s \in Seq(Items(Len(calls))) /\ Len(s) = 1 /\ s # <<>> /\ s[1] = x
  BY <1>1
<1>4. returned' = [returned EXCEPT ![q] = s]
  OBVIOUS
<1> HIDE DEF s
<1>5. /\ returned' \in [Requests -> Seq(Items(Len(calls)))] /\ \A r \in Requests : Len(returned'[r]) <= 1
      /\ returned'[q] = s /\ \A r \in Requests : r # q => returned'[r] = returned[r]
  BY <1>2, <1>3, <1>4
<1> QED BY <1>1, <1>3, <1>5 DEF s

\* Lists of one element are told apart by it.
LEMMA Singletons == \A x, y : <<x>> = <<y>> <=> x = y
<1> SUFFICES ASSUME NEW x, NEW y, <<x>> = <<y>> PROVE x = y
  OBVIOUS
<1>1. <<x>>[1] = <<y>>[1]
  OBVIOUS
<1> QED BY <1>1

\* The handler returns a value.
LEMMA ReturnValueKeeps ==
  ASSUME Good, NEW x \in Holdable, Return(x), ~ IsProm(x)
  PROVE  Good' /\ KnownIds' = KnownIds /\ \A r : Answered(r)' <=> r = current \/ Answered(r)
<1>0. PICK q : q = current
  OBVIOUS
<1>1. /\ at = "request" /\ at' = "idle" /\ returned' = [returned EXCEPT ![q] = <<x>>]
      /\ replies' = Append(replies, [to |-> q, value |-> x])
      /\ UNCHANGED <<promises, depend, out, left, calls, lost>>
  BY <1>0 DEF Return
<1>2. Types /\ Place /\ Noting /\ Waiting /\ Sending /\ Answering
  BY DEF Good
<1>3. q \in Requests /\ returned[q] = <<>>
  BY <1>0, <1>1, <1>2 DEF Place
<1>4. /\ x \in Items(Len(calls))
      /\ returned' \in [Requests -> Seq(Items(Len(calls)))] /\ \A r \in Requests : Len(returned'[r]) <= 1
      /\ returned'[q] = <<x>> /\ returned'[q] # <<>> /\ returned'[q][1] = x
      /\ \A r \in Requests : r # q => returned'[r] = returned[r]
  BY <1>1, <1>2, <1>3, ReturnedTypes
<1>5. x \in Vals /\ Value(x) = x /\ Known(x, KnownIds) /\ Known(x, Settled)
  <2>1. Len(calls) \in 0 .. MaxCalls
    BY <1>2, IdsAre
  <2>2. Value(x) \in Vals /\ Value(x) = x
    BY <1>4, <2>1, ItemFacts
  <2> QED BY <2>2 DEF Known
<1>6. KnownIds' = KnownIds /\ Settled' = Settled /\ Ids' = Ids /\ \A d : Told(d)' = Told(d)
  <2>1. {at, at'} \cap {"resolve", "notify"} = {}
    BY <1>1
  <2> QED BY <1>1, <2>1, SameSets DEF Ids
<1>7. /\ replies' \in Seq([to : Requests, value : Vals])
      /\ \A r : Answered(r)' <=> r = q \/ Answered(r)
      /\ \A i \in DOMAIN replies' :
           \/ i \in DOMAIN replies /\ replies'[i] = replies[i]
           \/ i = Len(replies) + 1 /\ replies'[i].to = q /\ replies'[i].value = x
  BY <1>1, <1>2, <1>3, <1>5, OneReply
<1>8. Types'
  BY <1>1, <1>2, <1>4, <1>6, <1>7 DEF Types
<1>9. Place'
  BY <1>1 DEF Place
<1>10. Noting' /\ Waiting'
  BY <1>1, <1>2, <1>6, StillNoted
<1>11. Sending'
  BY <1>1, <1>2, <1>6, StillSent DEF Sending
<1>12. q \notin lost.requests /\ ~ Answered(q)
  BY <1>2, <1>3 DEF Answering
<1>13. lost.requests \subseteq Requests /\ \A i \in DOMAIN replies : replies[i].to \in Requests
  BY <1>2, QueuesAre
<1>14. Answering'
  <2>1. ASSUME NEW i \in DOMAIN replies'
        PROVE  LET r == returned'[replies'[i].to] IN
               r # <<>> /\ Known(r[1], KnownIds) /\ replies'[i].value = Value(r[1])
    <3>1. CASE i \in DOMAIN replies /\ replies'[i] = replies[i]
      <4>1. replies[i].to # q /\ replies[i].to \in Requests
        BY <1>12, <1>13, <3>1 DEF Answered
      <4>2. returned'[replies[i].to] = returned[replies[i].to]
        BY <1>4, <4>1
      <4> QED BY <1>2, <3>1, <4>2 DEF Answering
    <3>2. CASE replies'[i].to = q /\ replies'[i].value = x
      BY <1>4, <1>5, <3>2
    <3> QED BY <1>7, <3>1, <3>2
  <2>2. ASSUME NEW i \in DOMAIN replies', NEW j \in DOMAIN replies', replies'[i].to = replies'[j].to
        PROVE  i = j
    BY <1>2, <1>7, <1>12, <2>2 DEF Answering, Answered
  <2>3. ASSUME NEW r \in Requests
        PROVE  Answered(r)' <=> returned'[r] # <<>> /\ r \notin lost.requests /\ Known(returned'[r][1], Settled)
    <3>1. CASE r = q
      BY <1>4, <1>5, <1>7, <1>12, <3>1
    <3>2. CASE r # q
      BY <1>2, <1>4, <1>7, <3>2 DEF Answering
    <3> QED BY <3>1, <3>2
  <2>4. ASSUME NEW r \in lost.requests PROVE returned'[r] # <<>>
    BY <1>2, <1>4, <1>12, <1>13 DEF Answering
  <2>5. ASSUME NEW p \in Ids \ Settled, NEW r \in Requests
        PROVE  promises[p].asker = r <=> returned'[r] = <<Prom(p)>> /\ r \notin lost.requests
    <3>1. promises[p].asker = r <=> returned[r] = <<Prom(p)>> /\ r \notin lost.requests
      BY <1>2 DEF Answering
    <3>2. CASE r = q
      <4>1. <<Prom(p)>> # <<>> /\ x # Prom(p)
        BY PromFacts
      <4> QED BY <1>3, <1>4, <3>1, <3>2, <4>1, Singletons
    <3>3. CASE r # q
      BY <1>4, <3>1, <3>3
    <3> QED BY <3>2, <3>3
  <2> QED BY <1>1, <1>6, <2>1, <2>2, <2>3, <2>4, <2>5 DEF Answering
<1> QED BY <1>0, <1>6, <1>7, <1>8, <1>9, <1>10, <1>11, <1>14 DEF Good

\* The handler returns a promise.
LEMMA ReturnPromiseKeeps ==
  ASSUME Good, NEW x \in Holdable, Return(x), IsProm(x)
  PROVE  Good' /\ KnownIds' = KnownIds
<1>0. PICK q, p : q = current /\ p = x.prom
  OBVIOUS
<1>1. /\ at = "request" /\ at' = "idle" /\ returned' = [returned EXCEPT ![q] = <<x>>]
      /\ promises' = [promises EXCEPT ![p].asker = q]
      /\ lost' = [lost EXCEPT !.requests = @ \cup
                    IF ~ Resolved(p) THEN {promises[p].asker} \ {None} ELSE {q}]
      /\ UNCHANGED <<replies, depend, out, left, calls>>
  BY <1>0 DEF Return, Answerable
<1>2. Types /\ Place /\ Noting /\ Waiting /\ Sending /\ Answering
  BY DEF Good
<1>3. q \in Requests /\ returned[q] = <<>>
  BY <1>0, <1>1, <1>2 DEF Place
<1>4. /\ x \in Items(Len(calls))
      /\ returned' \in [Requests -> Seq(Items(Len(calls)))] /\ \A r \in Requests : Len(returned'[r]) <= 1
      /\ returned'[q] = <<x>> /\ returned'[q] # <<>> /\ returned'[q][1] = x
      /\ \A r \in Requests : r # q => returned'[r] = returned[r]
  BY <1>1, <1>2, <1>3, ReturnedTypes
<1>5. x = Prom(p) /\ p \in Ids /\ p \in DOMAIN promises /\ promises \in Seq(PromiseRecord)
  <2>1. Len(calls) \in 0 .. MaxCalls /\ Ids = 1 .. Len(calls)
    BY <1>2, IdsAre
  <2>2. x = Prom(p) /\ p \in Ids
    BY <1>0, <1>4, <2>1, ItemFacts
  <2> QED BY <1>2, <2>2 DEF Types, Ids
<1>6. /\ promises' \in Seq(PromiseRecord) /\ Len(promises') = Len(promises)
      /\ DOMAIN promises' = DOMAIN promises /\ Ids = DOMAIN promises /\ Ids' = Ids
      /\ \A r \in DOMAIN promises :
           /\ promises'[r].result = promises[r].result
           /\ promises'[r].dependents = promises[r].dependents
           /\ promises'[r].asker = IF r = p THEN q ELSE promises[r].asker
  <2>1. PICK a \in {None} \cup Requests : a = q
    BY <1>3
  <2>2. promises' = [promises EXCEPT ![p].asker = a]
    BY <1>1, <2>1
  <2>3. /\ promises' \in Seq(PromiseRecord) /\ Len(promises') = Len(promises)
        /\ DOMAIN promises' = DOMAIN promises
        /\ \A r \in DOMAIN promises :
             /\ promises'[r].result = promises[r].result
             /\ promises'[r].dependents = promises[r].dependents
             /\ promises'[r].asker = IF r = p THEN a ELSE promises[r].asker
    <3>1. p \in DOMAIN promises /\ promises \in Seq(PromiseRecord)
      BY <1>5
    <3>2. a \in {None} \cup Requests
      OBVIOUS
    <3> QED BY <2>2, <3>1, <3>2, OneAsker
  <2> QED BY <2>1, <2>3 DEF Ids
<1>7. KnownIds' = KnownIds /\ Settled' = Settled /\ \A d : Told(d)' = Told(d)
  <2>1. {at, at'} \cap {"resolve", "notify"} = {}
    BY <1>1
  <2> QED BY <1>6, <2>1, SameSets
<1>8. \A r \in Ids : r \in Settled <=> Resolved(r)
  BY <1>1 DEF Settled, KnownIds, Passing
<1> DEFINE more == IF ~ Resolved(p) THEN {promises[p].asker} \ {None} ELSE {q}
<1>9. more \subseteq Requests
  <2>1. promises[p].asker \in {None} \cup Requests
    BY <1>5, RecordsAre
  <2> QED BY <1>3, <2>1
<1>10. PICK M : M = more
  OBVIOUS
<1>11. lost'.calls = lost.calls /\ lost'.requests = lost.requests \cup M
       /\ lost' \in [calls : SUBSET Ids, requests : SUBSET Requests]
  <2>1. lost \in [calls : SUBSET Ids, requests : SUBSET Requests]
    BY <1>2 DEF Types
  <2>2. lost' = [lost EXCEPT !.requests = @ \cup M]
    BY <1>1, <1>10
  <2>3. lost = [calls |-> lost.calls, requests |-> lost.requests]
    BY <2>1
  <2>4. lost' = [calls |-> lost.calls, requests |-> lost.requests \cup M]
    BY <2>2, <2>3
  <2> QED BY <1>9, <1>10, <2>1, <2>4
<1> HIDE DEF more
<1>12. Types'
  <2>1. \A r \in Ids : promises'[r].result \in {None, Val(r)}
    BY <1>2, <1>6 DEF Types
  <2>2. lost' \in [calls : SUBSET Ids', requests : SUBSET Requests]
    BY <1>6, <1>11
  <2>3. /\ promises' \in Seq(PromiseRecord) /\ Len(promises') = Len(calls')
        /\ \A r \in Ids' : promises'[r].result \in {None, Val(r)}
    BY <1>1, <1>2, <1>6, <2>1 DEF Types
  <2>4. /\ returned' \in [Requests -> Seq(Items(Len(calls')))]
        /\ \A r \in Requests : Len(returned'[r]) <= 1
    BY <1>1, <1>4
  <2>5. /\ Len(calls') <= MaxCalls /\ calls' \in Seq(Seq(Items(MaxCalls)))
        /\ \A d \in Ids' : calls'[d] \in Seq(Items(d - 1)) /\ calls'[d] # <<>>
        /\ DOMAIN depend' \subseteq Ids' /\ depend' = [d \in DOMAIN depend' |-> depend'[d]]
    BY <1>1, <1>2, <1>6 DEF Types
  <2>6. /\ out' \in Seq([prom : Nat, call : Seq(Vals)])
        /\ replies' \in Seq([to : Requests, value : Vals]) /\ left' \in Nat
    BY <1>1, <1>2 DEF Types
  <2> QED BY <2>2, <2>3, <2>4, <2>5, <2>6 DEF Types
<1>13. Place'
  BY <1>1 DEF Place
<1>14. Noting' /\ Waiting'
  BY <1>1, <1>2, <1>6, <1>7, <1>11, StillNoted
<1>15. Sending'
  BY <1>1, <1>2, <1>6, <1>7, StillSent DEF Sending
<1>16. q \notin lost.requests /\ ~ Answered(q)
  BY <1>2, <1>3 DEF Answering
<1>17. \A r \in M : returned'[r] # <<>> /\ ~ Answered(r)
  <2>1. CASE Resolved(p)
    BY <1>4, <1>10, <1>16, <2>1 DEF more
  <2>2. CASE ~ Resolved(p)
    <3> SUFFICES ASSUME NEW r \in M PROVE returned'[r] # <<>> /\ ~ Answered(r)
      OBVIOUS
    <3>1. r \in Requests /\ promises[p].asker = r
      BY <1>9, <1>10, <2>2 DEF more
    <3>2. returned[r] = <<Prom(p)>> /\ returned[r][1] = Prom(p) /\ returned[r] # <<>>
      BY <1>2, <1>5, <1>8, <2>2, <3>1 DEF Answering
    <3>3. ~ Known(returned[r][1], Settled)
      BY <1>5, <1>8, <2>2, <3>2, PromFacts DEF Known
    <3>4. r # q
      BY <1>3, <3>2
    <3> QED BY <1>2, <1>4, <3>1, <3>2, <3>3, <3>4 DEF Answering
  <2> QED BY <2>1, <2>2
<1>18. q \in M <=> Resolved(p)
  <2>1. CASE Resolved(p)
    BY <1>10, <2>1 DEF more
  <2>2. CASE ~ Resolved(p)
    <3>1. promises[p].asker # q
      <4>1. <<Prom(p)>> # <<>>
        OBVIOUS
      <4> QED BY <1>2, <1>3, <1>5, <1>8, <2>2, <4>1 DEF Answering
    <3> QED BY <1>10, <2>2, <3>1 DEF more
  <2> QED BY <2>1, <2>2
<1>19. \A r : Answered(r)' <=> Answered(r)
  BY <1>1 DEF Answered
<1>20. Answering'
  <2>1. ASSUME NEW i \in DOMAIN replies
        PROVE  LET r == returned'[replies[i].to] IN
               r # <<>> /\ Known(r[1], KnownIds) /\ replies[i].value = Value(r[1])
    <3>1. replies[i].to # q /\ replies[i].to \in Requests
      BY <1>2, <1>16, QueuesAre DEF Answered
    <3>2. returned'[replies[i].to] = returned[replies[i].to]
      BY <1>4, <3>1
    <3> QED BY <1>2, <3>2 DEF Answering
  <2>2. ASSUME NEW r \in Requests
        PROVE  Answered(r) <=> /\ returned'[r] # <<>> /\ r \notin lost'.requests
                               /\ Known(returned'[r][1], Settled)
    <3>1. CASE r = q
      <4>1. ~ Resolved(p) => ~ Known(Prom(p), Settled)
        BY <1>5, <1>8, PromFacts DEF Known
      <4> QED BY <1>4, <1>5, <1>11, <1>16, <1>18, <3>1, <4>1
    <3>2. CASE r # q
      <4>1. Answered(r) <=> returned[r] # <<>> /\ r \notin lost.requests /\ Known(returned[r][1], Settled)
        BY <1>2 DEF Answering
      <4> QED BY <1>4, <1>11, <1>17, <3>2, <4>1
    <3> QED BY <3>1, <3>2
  <2>3. ASSUME NEW r \in lost'.requests PROVE returned'[r] # <<>>
    <3>1. CASE r \in M
      BY <1>17, <3>1
    <3>2. CASE r \in lost.requests
      <4>1. r \in Requests /\ returned[r] # <<>> /\ r # q
        BY <1>2, <1>16, <3>2, QueuesAre DEF Answering
      <4> QED BY <1>4, <4>1
    <3> QED BY <1>11, <3>1, <3>2
  <2>4. ASSUME NEW s \in Ids \ Settled, NEW r \in Requests
        PROVE  promises'[s].asker = r <=> returned'[r] = <<Prom(s)>> /\ r \notin lost'.requests
    <3>1. promises[s].asker = r <=> returned[r] = <<Prom(s)>> /\ r \notin lost.requests
      BY <1>2 DEF Answering
    <3>2. ~ Resolved(s) /\ <<Prom(s)>> # <<>>
      BY <1>8
    <3>3. Prom(s) = Prom(p) <=> s = p
      BY PromFacts
    <3>4. None \notin Requests
      BY NoneFacts
    <3>5. CASE r = q
      <4>1. promises[s].asker # r
        BY <1>3, <3>1, <3>2, <3>5
      <4>2. returned'[r] = <<Prom(s)>> <=> s = p
        BY <1>4, <1>5, <3>3, <3>5, Singletons
      <4>3. promises'[s].asker = r <=> s = p
        BY <1>6, <3>5, <4>1
      <4>4. s = p => r \notin lost'.requests
        BY <1>11, <1>16, <1>18, <3>2, <3>5
      <4> QED BY <4>2, <4>3, <4>4
    <3>6. CASE r # q /\ s = p
      <4>1. promises'[s].asker # r
        BY <1>6, <3>6
      <4>2. returned[r] = <<Prom(p)>> /\ r \notin lost.requests => r \in M
        BY <1>10, <3>1, <3>2, <3>4, <3>6 DEF more
      <4> QED BY <1>4, <1>11, <3>6, <4>1, <4>2
    <3>7. CASE r # q /\ s # p
      <4>1. promises'[s].asker = promises[s].asker /\ returned'[r] = returned[r]
        BY <1>4, <1>6, <3>7
      <4>2. r \in M => returned[r] = <<Prom(p)>>
        BY <1>2, <1>5, <1>8, <1>10, <1>18, <3>7 DEF Answering, more
      <4>3. r \in M => returned[r] # <<Prom(s)>>
        BY <3>3, <3>7, <4>2, Singletons
      <4> QED BY <1>11, <3>1, <4>1, <4>3
    <3> QED BY <3>5, <3>6, <3>7
  <2>5. \A i, j \in DOMAIN replies : replies[i].to = replies[j].to => i = j
    BY <1>2 DEF Answering
  <2> QED BY <1>1, <1>6, <1>7, <1>19, <2>1, <2>2, <2>3, <2>4, <2>5 DEF Answering
<1> QED BY <1>7, <1>12, <1>13, <1>14, <1>15, <1>20 DEF Good


-----------------------------------------------------------------------------
(* A dependent is told *)

\* One more message sent.
LEMMA OneSent ==
  ASSUME Types, NEW d \in Nat, NEW m \in Seq(Vals), out' = Append(out, [prom |-> d, call |-> m])
  PROVE  /\ out' \in Seq([prom : Nat, call : Seq(Vals)])
         /\ \A r : IsSent(r)' <=> r = d \/ IsSent(r)
         /\ \A i \in DOMAIN out' :
              \/ i \in DOMAIN out /\ out'[i] = out[i]
              \/ i = Len(out) + 1 /\ out'[i].prom = d /\ out'[i].call = m
<1> DEFINE e == [prom |-> d, call |-> m]
<1>1. e \in [prom : Nat, call : Seq(Vals)] /\ e.prom = d /\ e.call = m
  OBVIOUS
<1>2. out \in Seq([prom : Nat, call : Seq(Vals)]) /\ out' = Append(out, e)
  BY DEF Types
<1> HIDE DEF e
<1>3. /\ out' \in Seq([prom : Nat, call : Seq(Vals)])
      /\ DOMAIN out' = DOMAIN out \cup {Len(out) + 1} /\ out'[Len(out) + 1] = e
      /\ \A i \in DOMAIN out : out'[i] = out[i]
  BY <1>1, <1>2, OneMore
<1> QED BY <1>1, <1>3 DEF IsSent

\* A dependent is told, and its message sent if it is ready (hylic_eval.cpp:106-153).
LEMMA NotifyKeeps ==
  ASSUME Good, Notify
  PROVE  Good' /\ KnownIds' = KnownIds /\ \A r : IsSent(r) => IsSent(r)'
<1>0. PICK p, d : p = current /\ d = Due
  OBVIOUS
<1>1. /\ at = "notify" /\ left > 0 /\ left' = left - 1 /\ at' = at /\ current' = current
      /\ depend' = [depend EXCEPT ![d] = Satisfied(depend[d], p)]
      /\ out' = IF Ready(Satisfied(depend[d], p))
                THEN Append(out, [prom |-> d, call |->
                       <<Satisfied(depend[d], p).target>> \o Satisfied(depend[d], p).args])
                ELSE out
      /\ UNCHANGED <<promises, replies, calls, returned, lost>>
  BY <1>0 DEF Notify, LeftAfter
<1>2. Types /\ Place /\ Noting /\ Waiting /\ Sending /\ Answering
  BY DEF Good
<1>3. PICK D : D = promises[p].dependents
  OBVIOUS
<1>4. /\ p \in Ids /\ Resolved(p) /\ p \in 1 .. MaxCalls /\ promises[p].result = Val(p)
      /\ left \in Nat /\ left <= Len(D) /\ D \in Seq(Nat)
  <2>1. p \in Ids /\ Resolved(p) /\ left <= Len(D)
    BY <1>0, <1>1, <1>2, <1>3 DEF Place
  <2>2. left \in Nat /\ promises[p].result = Val(p)
    BY <1>2, <2>1 DEF Types, Resolved
  <2>3. p \in 1 .. MaxCalls /\ D \in Seq(Nat)
    BY <1>2, <1>3, <2>1, IdsAre, RecordsAre
  <2> QED BY <2>1, <2>2, <2>3
<1>5. PICK k : k = Len(D) - left + 1
  OBVIOUS
<1>6. /\ k \in DOMAIN D /\ D[k] = d /\ Len(D) - left = k - 1 /\ Len(D) - left' = k /\ k \in Nat
      /\ left' \in Nat /\ left' <= Len(D)
  <2>1. D[k] = d
    BY <1>0, <1>3, <1>5 DEF Due
  <2>2. Len(D) \in Nat /\ DOMAIN D = 1 .. Len(D)
    BY <1>4
  <2> QED BY <1>1, <1>4, <1>5, <2>1, <2>2
<1>7. d \in DOMAIN depend /\ d \in Ids /\ d \in Nat /\ WaitsFor(calls[d], depend[d], p)
  <2>1. d \in DOMAIN depend /\ WaitsFor(calls[d], depend[d], p)
    BY <1>2, <1>3, <1>4, <1>6 DEF Noting
  <2>2. d \in Ids
    BY <1>2, <2>1 DEF Types
  <2>3. d \in Nat
    BY <1>2, <2>2, IdsAre
  <2> QED BY <2>1, <2>2, <2>3
<1>8. PICK c, f, g : c = calls[d] /\ f = depend[d] /\ g = Fill(f, p, Val(p))
  OBVIOUS
<1>9. /\ DOMAIN depend' = DOMAIN depend /\ depend' = [e \in DOMAIN depend' |-> depend'[e]]
      /\ \A e \in DOMAIN depend : depend'[e] = IF e = d THEN g ELSE depend[e]
      /\ out' = IF Ready(g) THEN Append(out, [prom |-> d, call |-> <<g.target>> \o g.args]) ELSE out
  <2>1. Satisfied(depend[d], p) = g
    BY <1>4, <1>8 DEF Satisfied, Fill
  <2>2. depend' = [depend EXCEPT ![d] = g]
    BY <1>1, <2>1
  <2>3. depend = [e \in DOMAIN depend |-> depend[e]]
    BY <1>2 DEF Types
  <2>4. /\ DOMAIN depend' = DOMAIN depend /\ depend' = [e \in DOMAIN depend' |-> depend'[e]]
        /\ \A e \in DOMAIN depend : depend'[e] = IF e = d THEN g ELSE depend[e]
    BY <1>7, <2>2, <2>3
  <2> QED BY <1>1, <2>1, <2>4
<1>10. /\ Ids' = Ids /\ KnownIds' = KnownIds /\ Settled' = Settled
       /\ p \notin Settled /\ p \in KnownIds
  <2>1. Ids' = Ids /\ KnownIds' = KnownIds /\ \A r : Passing(r)' <=> Passing(r)
    BY <1>1 DEF Ids, KnownIds, Resolved, Passing
  <2>2. Passing(p)
    BY <1>0, <1>1 DEF Passing
  <2> QED BY <1>4, <2>1, <2>2 DEF Settled, KnownIds
<1>11. /\ \A r, e : NotedAt(r, e)' = NotedAt(r, e) /\ NotedAt(r, e) \subseteq DOMAIN promises[r].dependents
       /\ k \in NotedAt(p, d) /\ \A e : k \in NotedAt(p, e) => e = d
  BY <1>1, <1>3, <1>6 DEF NotedAt
<1>12. ASSUME NEW r \in Ids, NEW j \in DOMAIN promises[r].dependents
       PROVE  Passed(r, j)' <=> Passed(r, j) \/ (r = p /\ j = k)
  <2>1. CASE r # p
    BY <1>0, <1>1, <2>1 DEF Passed, Passing, Resolved
  <2>2. CASE r = p
    <3>1. j \in Nat
      BY <1>3, <1>4, <2>2
    <3>2. Passed(p, j) <=> j <= k - 1
      BY <1>0, <1>1, <1>3, <1>4, <1>6 DEF Passed, Passing
    <3>3. Passed(p, j)' <=> j <= k
      BY <1>0, <1>1, <1>3, <1>4, <1>6 DEF Passed, Passing, Resolved
    <3> QED BY <1>6, <2>2, <3>1, <3>2, <3>3
  <2> QED BY <2>1, <2>2
<1>13. /\ Told(d)' = Told(d) \cup {p} /\ \A e : e # d => Told(e)' = Told(e)
  BY <1>4, <1>10, <1>11, <1>12 DEF Told
<1>14. /\ c \in Seq(Items(MaxCalls)) /\ c # <<>> /\ Shape(c, f, KnownIds) /\ WaitsFor(c, f, p)
       /\ Shape(c, g, KnownIds)
  <2>1. c \in Seq(Items(MaxCalls)) /\ c # <<>>
    BY <1>2, <1>7, <1>8, IdsAre
  <2>2. Shape(c, f, KnownIds) /\ WaitsFor(c, f, p)
    BY <1>2, <1>7, <1>8 DEF Noting
  <2> QED BY <1>4, <1>8, <1>10, <2>1, <2>2, FillShape
<1>15. \A r : WaitsFor(c, g, r) <=> WaitsFor(c, f, r)
  <2>1. g.targetOn = f.targetOn
    BY <1>4, <1>8, <1>14, FillTarget
  <2> QED BY <2>1 DEF WaitsFor
<1>16. Noting'
  <2>1. ASSUME NEW e \in DOMAIN depend PROVE Shape(calls[e], depend'[e], KnownIds)
    BY <1>2, <1>8, <1>9, <1>14 DEF Noting
  <2>2. ASSUME NEW r \in Ids, NEW j \in DOMAIN promises[r].dependents
        PROVE  LET e == promises[r].dependents[j] IN
               e \in DOMAIN depend /\ WaitsFor(calls[e], depend'[e], r)
    BY <1>2, <1>8, <1>9, <1>15 DEF Noting
  <2> QED BY <1>1, <1>9, <1>10, <2>1, <2>2 DEF Noting
<1>17. Waiting'
  <2>1. ASSUME NEW e \in lost.calls PROVE Stuck(calls[e], depend'[e], Settled)
    <3>1. e \in DOMAIN depend /\ Stuck(calls[e], depend[e], Settled)
      BY <1>2 DEF Waiting
    <3>2. CASE e = d
      <4>1. Stuck(c, g, Settled)
        BY <1>4, <1>8, <1>10, <1>14, <3>1, <3>2, FillStuck
      <4> QED BY <1>8, <1>9, <3>1, <3>2, <4>1
    <3>3. CASE e # d
      BY <1>9, <3>1, <3>3
    <3> QED BY <3>2, <3>3
  <2>2. ASSUME NEW e \in DOMAIN depend \ lost.calls
        PROVE  /\ Filled(calls[e], depend'[e], Told(e)')
               /\ \A r \in Ids : WaitsFor(calls[e], depend'[e], r) => \E j \in Nat : NotedAt(r, e) = {j}
    <3>1. /\ Filled(calls[e], depend[e], Told(e))
          /\ \A r \in Ids : WaitsFor(calls[e], depend[e], r) => \E j \in Nat : NotedAt(r, e) = {j}
      BY <1>2 DEF Waiting
    <3>2. CASE e = d
      <4>1. Filled(c, g, Told(d) \cup {p})
        BY <1>4, <1>8, <1>14, <3>1, <3>2, FillFilled
      <4> QED BY <1>7, <1>8, <1>9, <1>13, <1>15, <3>1, <3>2, <4>1
    <3>3. CASE e # d
      BY <1>9, <1>13, <3>1, <3>3
    <3> QED BY <3>2, <3>3
  <2>3. lost.calls \subseteq DOMAIN depend
    BY <1>2 DEF Waiting
  <2> QED BY <1>1, <1>9, <1>10, <1>11, <2>1, <2>2, <2>3 DEF Waiting
<1>18. ~ Ready(f) /\ ~ IsSent(d)
  <2>1. CASE d \in lost.calls
    <3>1. Stuck(c, f, Settled)
      BY <1>2, <1>8, <2>1 DEF Waiting
    <3> QED BY <1>2, <1>7, <1>8, <1>14, <3>1, StuckNotReady DEF Sending
  <2>2. CASE d \notin lost.calls
    <3>1. Filled(c, f, Told(d)) /\ \E j \in Nat : NotedAt(p, d) = {j}
      BY <1>2, <1>4, <1>7, <1>8, <2>2 DEF Waiting
    <3>2. NotedAt(p, d) = {k}
      BY <1>11, <3>1
    <3>3. ~ Passed(p, k)
      BY <1>0, <1>1, <1>3, <1>6 DEF Passed, Passing
    <3>4. p \notin Told(d)
      BY <3>2, <3>3 DEF Told
    <3>5. ~ Ready(f)
      BY <1>4, <1>14, <3>1, <3>4, FilledReady
    <3> QED BY <1>2, <1>7, <1>8, <3>5 DEF Sending
  <2> QED BY <2>1, <2>2
<1>19. Place'
  <2>1. Resolved(p)'
    BY <1>1, <1>4 DEF Resolved
  <2> QED BY <1>0, <1>1, <1>3, <1>4, <1>6, <1>10, <2>1 DEF Place
<1>20. Answering'
  BY <1>1, <1>2, <1>10, StillAnswered
<1>21. CASE ~ Ready(g)
  <2>1. out' = out /\ \A r : IsSent(r)' <=> IsSent(r)
    BY <1>9, <1>21 DEF IsSent
  <2>2. Types'
    BY <1>1, <1>2, <1>6, <1>9, <1>10, <2>1 DEF Types
  <2>3. \A e \in DOMAIN depend : Ready(depend'[e]) <=> Ready(depend[e])
    BY <1>8, <1>9, <1>18, <1>21
  <2>4. Sending'
    BY <1>1, <1>2, <1>9, <1>10, <2>1, <2>3 DEF Sending
  <2> QED BY <1>10, <1>16, <1>17, <1>19, <1>20, <2>1, <2>2, <2>4 DEF Good
<1>22. CASE Ready(g)
  <2>1. PICK m : m = <<g.target>> \o g.args
    OBVIOUS
  <2>2. m = Message(c) /\ m \in Seq(Vals)
    BY <1>14, <1>22, <2>1, ReadyMessage
  <2>3. out' = Append(out, [prom |-> d, call |-> m])
    BY <1>9, <1>22, <2>1
  <2>4. /\ out' \in Seq([prom : Nat, call : Seq(Vals)])
        /\ \A r : IsSent(r)' <=> r = d \/ IsSent(r)
        /\ \A i \in DOMAIN out' :
             \/ i \in DOMAIN out /\ out'[i] = out[i]
             \/ i = Len(out) + 1 /\ out'[i].prom = d /\ out'[i].call = m
    BY <1>2, <1>7, <2>2, <2>3, OneSent
  <2>5. Types'
    BY <1>1, <1>2, <1>6, <1>9, <1>10, <2>4 DEF Types
  <2>6. \A i \in DOMAIN out' : out'[i].prom \in Ids /\ out'[i].call = Message(calls[out'[i].prom])
    BY <1>2, <1>7, <1>8, <2>2, <2>4 DEF Sending
  <2>7. ASSUME NEW i \in DOMAIN out', NEW j \in DOMAIN out', out'[i].prom = out'[j].prom
        PROVE  i = j
    BY <1>2, <1>18, <2>4, <2>7 DEF Sending, IsSent
  <2>8. \A e \in DOMAIN depend : IsSent(e)' <=> Ready(depend'[e])
    BY <1>2, <1>8, <1>9, <1>22, <2>4 DEF Sending
  <2>9. Sending'
    <3>1. \A e \in Ids \ DOMAIN depend : IsSent(e)' /\ \A i \in DOMAIN calls[e] : Known(calls[e][i], KnownIds)
      BY <1>2, <2>4 DEF Sending
    <3>2. \A e \in KnownIds : IsSent(e)'
      BY <1>2, <2>4 DEF Sending
    <3> QED BY <1>1, <1>9, <1>10, <2>6, <2>7, <2>8, <3>1, <3>2 DEF Sending
  <2> QED BY <1>10, <1>16, <1>17, <1>19, <1>20, <2>4, <2>5, <2>9 DEF Good
<1> QED BY <1>21, <1>22

-----------------------------------------------------------------------------
(* A call is made *)

CallOf(t, args) == <<t>> \o args

\* What a call is made of,
LEMMA ArgumentsAre ==
  ASSUME Types, NEW t \in Holdable, NEW args \in Arguments
  PROVE  /\ t \in Items(Len(calls)) /\ args \in Seq(Items(Len(calls)))
         /\ Len(args) \in Nat /\ DOMAIN args = 1 .. Len(args)
         /\ \A i \in 1 .. Len(args) : IsProm(args[i]) /\ args[i].prom \in Ids /\ args[i] = Prom(args[i].prom)
         /\ IsProm(t) => t.prom \in Ids /\ t = Prom(t.prom)
         /\ ~ IsProm(t) => t = Something
<1>1. Ids = 1 .. Len(calls) /\ Len(calls) \in 0 .. MaxCalls
  BY IdsAre
<1>2. t \in Items(Len(calls))
  BY <1>1 DEF Holdable, Items
<1>3. /\ IsProm(t) => t.prom \in Ids /\ t = Prom(t.prom)
      /\ ~ IsProm(t) => t = Something
  BY <1>1, <1>2, ItemFacts
<1>4. PICK m \in 0 .. MaxArgs : args \in [1 .. m -> {Prom(p) : p \in Ids}]
  BY DEF Arguments, BoundedSeq, SeqOf
<1>5. m \in Nat
  BY BoundAssumption
<1>6. \A i \in 1 .. m : IsProm(args[i]) /\ args[i].prom \in Ids /\ args[i] = Prom(args[i].prom)
  BY <1>4, PromFacts
<1>7. \A i \in 1 .. m : args[i] \in Items(Len(calls))
  BY <1>1, <1>6 DEF Items
<1>8. args \in [1 .. m -> Items(Len(calls))]
  BY <1>4, <1>7
<1>9. args \in Seq(Items(Len(calls))) /\ Len(args) = m
  BY <1>5, <1>8
<1> QED BY <1>2, <1>3, <1>4, <1>5, <1>6, <1>9

\* as a list,
LEMMA CallIs ==
  ASSUME Types, NEW t \in Holdable, NEW args \in Arguments, NEW c, c = CallOf(t, args)
  PROVE  /\ c \in Seq(Items(Len(calls))) /\ c # <<>> /\ Len(c) = Len(args) + 1 /\ Len(c) - 1 = Len(args)
         /\ c[1] = t /\ \A i \in 1 .. Len(args) : c[i + 1] = args[i]
<1>1. t \in Items(Len(calls)) /\ args \in Seq(Items(Len(calls))) /\ Len(args) \in Nat
  BY ArgumentsAre
<1>2. /\ c \in Seq(Items(Len(calls))) /\ Len(c) = Len(args) + 1 /\ c[1] = t
      /\ \A i \in 2 .. Len(args) + 1 : c[i] = args[i - 1]
  <2>1. c = <<t>> \o args
    BY DEF CallOf
  <2> HIDE DEF CallOf
  <2>2. /\ <<t>> \o args \in Seq(Items(Len(calls))) /\ Len(<<t>> \o args) = Len(args) + 1
        /\ (<<t>> \o args)[1] = t
        /\ \A i \in 2 .. Len(args) + 1 : (<<t>> \o args)[i] = args[i - 1]
    BY <1>1, InFront
  <2> QED BY <2>1, <2>2
<1>3. ASSUME NEW i \in 1 .. Len(args) PROVE c[i + 1] = args[i]
  <2>1. i + 1 \in 2 .. Len(args) + 1 /\ (i + 1) - 1 = i
    BY <1>1
  <2> QED BY <1>2, <2>1
<1>4. c # <<>> /\ Len(c) - 1 = Len(args)
  BY <1>1, <1>2
<1> QED BY <1>2, <1>3, <1>4

\* and as its DependPromFunc.
LEMMA NotedCall ==
  ASSUME Types, NEW t \in Holdable, NEW args \in Arguments, NEW c, c = CallOf(t, args),
         NEW f, f = DependPromFunc(t, args)
  PROVE  /\ Shape(c, f, KnownIds) /\ f.target = TargetNow(t)
         /\ f.targetOn # None <=> f.target = None
         /\ DOMAIN f.args = DOMAIN args /\ \A i \in 1 .. Len(args) : f.args[i] = None
<1> DEFINE N == 1 .. Len(args)
           U == {None} \cup Vals
           w == TargetNow(t)
           o == IF w = None THEN t ELSE None
           a == [i \in N |-> IF IsProm(args[i]) THEN None ELSE args[i]]
           n == [p \in {args[i].prom : i \in {j \in N : IsProm(args[j])}} |->
                   Max({i \in N : args[i] = Prom(p)})]
<1>1. /\ Len(args) \in Nat /\ DOMAIN args = N
      /\ \A i \in N : IsProm(args[i]) /\ args[i].prom \in Ids /\ args[i] = Prom(args[i].prom)
      /\ IsProm(t) => t.prom \in Ids /\ t = Prom(t.prom)
      /\ ~ IsProm(t) => t = Something
  BY ArgumentsAre
<1>2. Len(c) - 1 = Len(args) /\ c[1] = t /\ \A i \in N : c[i + 1] = args[i]
  BY CallIs
<1>3. f = [target |-> w, targetOn |-> o, args |-> a, on |-> n]
  BY <1>1 DEF DependPromFunc
<1>4. w \in U /\ (w # None => w = Value(t) /\ Known(t, KnownIds)) /\ (w = None => IsProm(t))
  <2>1. CASE IsProm(t)
    <3>1. promises[t.prom].result \in {None, Val(t.prom)} /\ t.prom \in 1 .. MaxCalls
      BY <1>1, <2>1, IdsAre DEF Types
    <3> QED BY <1>1, <2>1, <3>1, NoneFacts DEF TargetNow, Value, Known, KnownIds, Resolved
  <2>2. CASE ~ IsProm(t)
    <3>1. w = t /\ t \in Vals /\ t # None
      BY <1>1, <2>2, NoneFacts DEF TargetNow
    <3> QED BY <2>2, <3>1 DEF Value, Known
  <2> QED BY <2>1, <2>2
<1>5. a \in [N -> U] /\ \A i \in N : a[i] = None
  BY <1>1
<1>6. ASSUME NEW i \in N, NEW p, args[i] = Prom(p) PROVE n[p] \in N /\ args[n[p]] = Prom(p)
  <2> DEFINE T == {j \in N : args[j] = Prom(p)}
  <2>1. T \in SUBSET N /\ T # {} /\ p \in {args[j].prom : j \in {k \in N : IsProm(args[k])}}
    BY <1>1, <1>6, PromFacts
  <2>2. n[p] = Max(T)
    BY <2>1
  <2> HIDE DEF n
  <2>3. Max(T) \in T
    BY <1>1, <2>1, GreatestOf
  <2> QED BY <2>2, <2>3
<1> HIDE DEF w, a, n
<1>7. f.target = w /\ f.targetOn = o /\ f.args = a /\ f.on = n
  BY <1>3
<1>8. o # None <=> w = None
  <2>1. t # None
    <3>1. t \in Items(Len(calls)) /\ Len(calls) \in 0 .. MaxCalls
      BY ArgumentsAre, IdsAre
    <3> QED BY <3>1, ItemFacts
  <2> QED BY <2>1
<1>9. \/ o = c[1] /\ IsProm(c[1])
      \/ o = None /\ w # None
  BY <1>2, <1>4
<1>10. ASSUME NEW i \in N
       PROVE  /\ f.args[i] # None => f.args[i] = Value(c[i + 1]) /\ Known(c[i + 1], KnownIds)
              /\ IsProm(c[i + 1]) \/ f.args[i] # None
              /\ \A p \in 1 .. MaxCalls :
                   c[i + 1] = Prom(p) => f.on[p] \in N /\ c[f.on[p] + 1] = Prom(p)
  BY <1>1, <1>2, <1>5, <1>6, <1>7
<1> HIDE DEF o
<1>11. Shape(c, f, KnownIds)
  <2>1. f = [target |-> f.target, targetOn |-> f.targetOn, args |-> f.args, on |-> f.on]
    BY <1>3, <1>7
  <2>2. \/ f.targetOn = c[1] /\ IsProm(c[1])
        \/ f.targetOn = None /\ f.target # None
    BY <1>7, <1>9
  <2>3. /\ f.target \in U /\ f.args \in [1 .. Len(c) - 1 -> U]
        /\ f.target # None => f.target = Value(c[1]) /\ Known(c[1], KnownIds)
    BY <1>2, <1>4, <1>5, <1>7
  <2> QED BY <1>2, <1>10, <2>1, <2>2, <2>3 DEF Shape
<1> QED BY <1>1, <1>5, <1>7, <1>8, <1>11 DEF a, w

\* How often a call is noted with p: once, unless p occurs twice.
LEMMA TimesAre ==
  ASSUME Types, NEW t \in Holdable, NEW args \in Arguments, NEW c, c = CallOf(t, args), NEW f, NEW p
  PROVE  /\ Times(p, f, args) \in Nat
         /\ Times(p, f, args) # 0 <=> WaitsFor(c, f, p)
         /\ Times(p, f, args) > 1 <=>
              \E i \in 1 .. Len(args) :
                /\ args[i] = Prom(p)
                /\ f.targetOn = Prom(p) \/ \E j \in 1 .. Len(args) : j # i /\ args[j] = Prom(p)
<1> DEFINE N == 1 .. Len(args)
           S == {i \in N : args[i] = Prom(p)}
           n == Cardinality(S)
           o == f.targetOn = Prom(p)
<1>1. Len(args) \in Nat /\ DOMAIN args = N
  BY ArgumentsAre
<1>2. IsFiniteSet(S)
  <2>1. IsFiniteSet(N)
    BY <1>1, FS_Interval
  <2> QED BY <2>1, FS_Subset
<1>3. Times(p, f, args) = n + (IF o THEN 1 ELSE 0)
  BY <1>1 DEF Times
<1>4. WaitsFor(c, f, p) <=> o \/ S # {}
  <2>1. Len(c) - 1 = Len(args) /\ \A i \in N : c[i + 1] = args[i]
    BY CallIs
  <2> QED BY <2>1 DEF WaitsFor
<1>5. /\ n \in Nat /\ (n = 0 <=> S = {})
      /\ \A x, y \in S : x # y => n > 1
      /\ n > 1 => \E x, y \in S : x # y
  <2> HIDE DEF S
  <2> QED BY <1>2, HowMany
<1>6. n > 1 <=> \E i \in S : \E j \in N : j # i /\ args[j] = Prom(p)
  BY <1>5
<1> HIDE DEF n, S
<1>7. Times(p, f, args) > 1 <=> n > 1 \/ (o /\ S # {})
  BY <1>3, <1>5
<1>8. /\ Times(p, f, args) \in Nat
      /\ Times(p, f, args) # 0 <=> o \/ S # {}
  BY <1>3, <1>5
<1> QED BY <1>4, <1>6, <1>7, <1>8 DEF S

\* A promise of its fields.
LEMMA MakeRecord ==
  ASSUME NEW r \in {None} \cup Vals, NEW b \in Nat, NEW s \in Seq(Nat), NEW a \in {None} \cup Requests
  PROVE  [result |-> r, callbacks |-> b, dependents |-> s, asker |-> a] \in PromiseRecord
BY DEF PromiseRecord

\* A promise with other dependents.
LEMMA NewDependents ==
  ASSUME NEW x \in PromiseRecord, NEW u \in Seq(Nat), NEW y, y = [x EXCEPT !.dependents = u]
  PROVE  y \in PromiseRecord /\ y.result = x.result /\ y.asker = x.asker /\ y.dependents = u
<1> DEFINE r == x.result
           b == x.callbacks
           a == x.asker
<1>1. /\ x = [result |-> r, callbacks |-> b, dependents |-> x.dependents, asker |-> a]
      /\ r \in {None} \cup Vals /\ b \in Nat /\ a \in {None} \cup Requests
  BY RecordsAre
<1> HIDE DEF r, b, a
<1>2. y = [result |-> r, callbacks |-> b, dependents |-> u, asker |-> a]
  BY <1>1
<1>3. y \in PromiseRecord
  <2>1. [result |-> r, callbacks |-> b, dependents |-> u, asker |-> a] \in PromiseRecord
    BY <1>1, MakeRecord
  <2> QED BY <1>2, <2>1
<1>4. y.result = r /\ y.asker = a /\ y.dependents = u
  BY <1>2
<1>5. x.result = r /\ x.asker = a
  BY <1>1
<1> QED BY <1>3, <1>4, <1>5

\* A list that gets longer by k times d.
LEMMA LongerBy ==
  ASSUME NEW s \in Seq(Nat), NEW k \in Nat, NEW d \in Nat, NEW u, u = s \o [i \in 1 .. k |-> d]
  PROVE  /\ u \in Seq(Nat) /\ Len(s) \in Nat /\ DOMAIN s = 1 .. Len(s) /\ DOMAIN u = 1 .. Len(s) + k
         /\ \A i \in 1 .. Len(s) : u[i] = s[i]
         /\ \A i \in Len(s) + 1 .. Len(s) + k : u[i] = d
<1> DEFINE m == [i \in 1 .. k |-> d]
<1>1. m \in Seq(Nat) /\ Len(m) = k /\ (\A i \in 1 .. k : m[i] = d) /\ u = s \o m
  OBVIOUS
<1> HIDE DEF m
<1>2. Len(s) \in Nat /\ DOMAIN s = 1 .. Len(s)
  OBVIOUS
<1>3. u \in Seq(Nat) /\ Len(u) = Len(s) + k
  BY <1>1
<1>4. DOMAIN u = 1 .. Len(s) + k
  BY <1>2, <1>3
<1>5. \A i \in 1 .. Len(s) : u[i] = s[i]
  BY <1>1
<1>6. ASSUME NEW i \in Len(s) + 1 .. Len(s) + k PROVE u[i] = d
  <2>1. u[i] = m[i - Len(s)]
    BY <1>1, <1>2
  <2>2. i - Len(s) \in 1 .. k
    BY <1>2
  <2> QED BY <1>1, <2>1, <2>2
<1> QED BY <1>2, <1>3, <1>4, <1>5, <1>6

\* The promises after a call: a new one, and the others with the call noted.
LEMMA PromisesAfterCall ==
  ASSUME Types, Noting, NEW t \in Holdable, NEW args \in Arguments, NEW c, c = CallOf(t, args),
         NEW f, f = DependPromFunc(t, args), NEW pid, pid = Len(calls) + 1,
         \/ Waits(f, args) /\ promises' = Append(Noted(pid, f, args), NewPromise)
         \/ ~ Waits(f, args) /\ promises' = Append(promises, NewPromise)
  PROVE  /\ promises' \in Seq(PromiseRecord) /\ Len(promises') = pid
         /\ pid \in Nat /\ pid \notin Ids /\ Ids' = Ids \cup {pid}
         /\ promises'[pid] = NewPromise
         /\ \A r \in Ids :
              /\ promises'[r].result = promises[r].result /\ promises'[r].asker = promises[r].asker
              /\ Len(promises[r].dependents) \in Nat
              /\ DOMAIN promises[r].dependents \subseteq DOMAIN promises'[r].dependents
              /\ \A e : e # pid => NotedAt(r, e)' = NotedAt(r, e)
              /\ NotedAt(r, pid)' = Len(promises[r].dependents) + 1
                                    .. Len(promises[r].dependents) + Times(r, f, args)
<1>1. /\ Ids = 1 .. Len(calls) /\ Len(promises) = Len(calls) /\ Len(calls) \in Nat
      /\ pid \in Nat /\ pid \notin Ids
  <2>1. Ids = 1 .. Len(calls) /\ Len(promises) = Len(calls) /\ Len(calls) \in 0 .. MaxCalls
    BY IdsAre
  <2> QED BY <2>1, NoneFacts
<1>2. NewPromise \in PromiseRecord
  <2> DEFINE e == <<>>
  <2>1. e \in Seq(Nat)
    OBVIOUS
  <2> HIDE DEF e
  <2>2. [result |-> None, callbacks |-> 0, dependents |-> e, asker |-> None] \in PromiseRecord
    BY <2>1 DEF PromiseRecord
  <2> QED BY <2>2 DEF NewPromise, e
<1> DEFINE after(r) == IF Waits(f, args)
                       THEN [promises[r] EXCEPT !.dependents = @ \o [i \in 1 .. Times(r, f, args) |-> pid]]
                       ELSE promises[r]
<1>3. ASSUME NEW r \in Ids
      PROVE  /\ after(r) \in PromiseRecord
             /\ after(r).result = promises[r].result /\ after(r).asker = promises[r].asker
             /\ Len(promises[r].dependents) \in Nat
             /\ DOMAIN promises[r].dependents = 1 .. Len(promises[r].dependents)
             /\ DOMAIN after(r).dependents = 1 .. Len(promises[r].dependents) + Times(r, f, args)
             /\ \A i \in DOMAIN promises[r].dependents : after(r).dependents[i] = promises[r].dependents[i]
             /\ \A i \in Len(promises[r].dependents) + 1 .. Len(promises[r].dependents) + Times(r, f, args) :
                  after(r).dependents[i] = pid
  <2>1. promises[r] \in PromiseRecord
    BY IdsAre
  <2>2. Times(r, f, args) \in Nat /\ (Times(r, f, args) # 0 <=> WaitsFor(c, f, r))
    BY TimesAre
  <2>3. CASE Waits(f, args)
    <3>1. PICK x, k : x = promises[r] /\ k = Times(r, f, args)
      OBVIOUS
    <3>2. PICK u : u = x.dependents \o [i \in 1 .. k |-> pid]
      OBVIOUS
    <3>3. after(r) = [x EXCEPT !.dependents = u]
      <4>1. u = promises[r].dependents \o [i \in 1 .. Times(r, f, args) |-> pid]
        BY <3>1, <3>2
      <4> QED BY <2>3, <3>1, <4>1
    <3> HIDE DEF after
    <3>4. x \in PromiseRecord /\ x.dependents \in Seq(Nat) /\ k \in Nat /\ pid \in Nat
      BY <1>1, <2>1, <2>2, <3>1, RecordsAre
    <3>5. /\ u \in Seq(Nat) /\ Len(x.dependents) \in Nat /\ DOMAIN x.dependents = 1 .. Len(x.dependents)
          /\ DOMAIN u = 1 .. Len(x.dependents) + k
          /\ \A i \in 1 .. Len(x.dependents) : u[i] = x.dependents[i]
          /\ \A i \in Len(x.dependents) + 1 .. Len(x.dependents) + k : u[i] = pid
      <4>1. PICK s : s = x.dependents
        OBVIOUS
      <4>2. s \in Seq(Nat) /\ u = s \o [i \in 1 .. k |-> pid]
        BY <3>2, <3>4, <4>1
      <4>3. /\ u \in Seq(Nat) /\ Len(s) \in Nat /\ DOMAIN s = 1 .. Len(s) /\ DOMAIN u = 1 .. Len(s) + k
            /\ \A i \in 1 .. Len(s) : u[i] = s[i]
            /\ \A i \in Len(s) + 1 .. Len(s) + k : u[i] = pid
        BY <3>4, <4>2, LongerBy
      <4> QED BY <4>1, <4>3
    <3>6. /\ after(r) \in PromiseRecord /\ after(r).result = x.result /\ after(r).asker = x.asker
          /\ after(r).dependents = u
      BY <3>3, <3>4, <3>5, NewDependents
    <3> QED BY <3>1, <3>5, <3>6
  <2>4. CASE ~ Waits(f, args)
    <3>1. ~ WaitsFor(c, f, r)
      <4>1. /\ \A i \in 1 .. Len(args) : c[i + 1] = args[i]
            /\ Len(c) - 1 = Len(args) /\ DOMAIN args = 1 .. Len(args)
        BY CallIs, ArgumentsAre
      <4>2. Prom(r) # None /\ IsProm(Prom(r))
        BY IdsAre, NoneFacts, PromFacts
      <4> QED BY <2>4, <4>1, <4>2 DEF WaitsFor, Waits
    <3>2. Times(r, f, args) = 0 /\ after(r) = promises[r]
      BY <2>2, <2>4, <3>1
    <3>3. promises[r].dependents \in Seq(Nat)
      BY <2>1, RecordsAre
    <3>4. Len(promises[r].dependents) \in Nat /\ DOMAIN promises[r].dependents = 1 .. Len(promises[r].dependents)
      BY <3>3
    <3>5. /\ Len(promises[r].dependents) + 0 = Len(promises[r].dependents)
          /\ Len(promises[r].dependents) + 1 .. Len(promises[r].dependents) = {}
      BY <3>4
    <3> HIDE DEF after
    <3> QED BY <2>1, <3>2, <3>4, <3>5
  <2> QED BY <2>3, <2>4
<1>4. PICK q : q = [r \in Ids |-> after(r)]
  OBVIOUS
<1>5. promises' = Append(q, NewPromise)
  <2>1. CASE Waits(f, args)
    <3>1. q = Noted(pid, f, args)
      BY <1>4, <2>1 DEF Noted
    <3> QED BY <2>1, <3>1
  <2>2. CASE ~ Waits(f, args)
    <3>1. promises \in Seq(PromiseRecord)
      BY DEF Types
    <3>2. promises = [r \in Ids |-> promises[r]]
      BY <3>1 DEF Ids
    <3> QED BY <1>4, <2>2, <3>2
  <2> QED BY <2>1, <2>2
<1> HIDE DEF after
<1>6. /\ q \in Seq(PromiseRecord) /\ Len(q) = Len(calls) /\ DOMAIN q = Ids
      /\ \A r \in Ids : q[r] = after(r)
  <2>1. q \in [1 .. Len(calls) -> PromiseRecord] /\ \A r \in Ids : q[r] = after(r)
    BY <1>1, <1>3, <1>4
  <2> QED BY <1>1, <2>1
<1>7. /\ promises' \in Seq(PromiseRecord) /\ DOMAIN promises' = Ids \cup {pid}
      /\ promises'[pid] = NewPromise /\ \A r \in Ids : promises'[r] = after(r)
  BY <1>2, <1>5, <1>6, OneMore
<1>8. Len(promises') = pid /\ Ids' = Ids \cup {pid}
  BY <1>1, <1>2, <1>5, <1>6, <1>7 DEF Ids
<1>9. ASSUME NEW r \in Ids, NEW i \in DOMAIN promises[r].dependents PROVE promises[r].dependents[i] # pid
  <2>1. promises[r].dependents[i] \in Ids
    BY DEF Noting, Types
  <2> QED BY <1>1, <2>1
<1>10. ASSUME NEW r \in Ids
       PROVE  /\ Len(promises[r].dependents) \in Nat
              /\ DOMAIN promises[r].dependents \subseteq DOMAIN promises'[r].dependents
              /\ \A e : e # pid => NotedAt(r, e)' = NotedAt(r, e)
              /\ NotedAt(r, pid)' = Len(promises[r].dependents) + 1
                                    .. Len(promises[r].dependents) + Times(r, f, args)
  <2>1. PICK D, E, m, n : /\ D = promises[r].dependents /\ E = promises'[r].dependents
                          /\ m = Len(promises[r].dependents) /\ n = Times(r, f, args)
    OBVIOUS
  <2>2. /\ m \in Nat /\ n \in Nat /\ DOMAIN D = 1 .. m /\ DOMAIN E = 1 .. m + n
        /\ \A i \in 1 .. m : E[i] = D[i] /\ D[i] # pid
        /\ \A i \in m + 1 .. m + n : E[i] = pid
    <3>1. n \in Nat
      BY <2>1, TimesAre
    <3>2. E = after(r).dependents
      BY <1>7, <2>1
    <3> QED BY <1>3, <1>9, <2>1, <3>1, <3>2
  <2>3. \A i : i \in 1 .. m + n <=> i \in 1 .. m \/ i \in m + 1 .. m + n
    BY <2>2
  <2>4. DOMAIN D \subseteq DOMAIN E
    BY <2>2
  <2>5. \A e : e # pid => {k \in DOMAIN E : E[k] = e} = {k \in DOMAIN D : D[k] = e}
    BY <2>2, <2>3
  <2>6. {k \in DOMAIN E : E[k] = pid} = m + 1 .. m + n
    BY <2>2, <2>3
  <2>7. \A e : /\ NotedAt(r, e) = {k \in DOMAIN D : D[k] = e}
               /\ NotedAt(r, e)' = {k \in DOMAIN E : E[k] = e}
    BY <2>1 DEF NotedAt
  <2>8. \A e : e # pid => NotedAt(r, e)' = NotedAt(r, e)
    BY <2>5, <2>7
  <2>9. NotedAt(r, pid)' = m + 1 .. m + n
    BY <2>6, <2>7
  <2> QED BY <2>1, <2>2, <2>4, <2>8, <2>9
<1>11. \A r \in Ids : promises'[r].result = promises[r].result /\ promises'[r].asker = promises[r].asker
  BY <1>3, <1>7
<1> QED BY <1>1, <1>7, <1>8, <1>10, <1>11

\* All of that in one.
LEMMA CallFacts ==
  ASSUME Types, NEW t \in Holdable, NEW args \in Arguments, NEW c, c = CallOf(t, args),
         NEW f, f = DependPromFunc(t, args)
  PROVE  /\ c \in Seq(Items(MaxCalls)) /\ c # <<>> /\ Len(c) - 1 = Len(args)
         /\ DOMAIN args = 1 .. Len(args) /\ DOMAIN f.args = DOMAIN args
         /\ \A i \in 1 .. Len(args) :
              /\ c[i + 1] = args[i] /\ f.args[i] = None
              /\ IsProm(args[i]) /\ args[i].prom \in Ids /\ args[i] = Prom(args[i].prom)
         /\ Shape(c, f, KnownIds) /\ f.target = TargetNow(t)
         /\ f.targetOn # None <=> f.target = None
         /\ \A p \in Ids : p \in 1 .. MaxCalls
<1>1. /\ c \in Seq(Items(Len(calls))) /\ c # <<>> /\ Len(c) = Len(args) + 1 /\ Len(c) - 1 = Len(args)
      /\ c[1] = t /\ \A i \in 1 .. Len(args) : c[i + 1] = args[i]
  BY CallIs
<1>2. /\ Shape(c, f, KnownIds) /\ f.target = TargetNow(t)
      /\ f.targetOn # None <=> f.target = None
      /\ DOMAIN f.args = DOMAIN args /\ \A i \in 1 .. Len(args) : f.args[i] = None
  BY NotedCall
<1>3. /\ DOMAIN args = 1 .. Len(args)
      /\ \A i \in 1 .. Len(args) : IsProm(args[i]) /\ args[i].prom \in Ids /\ args[i] = Prom(args[i].prom)
  BY ArgumentsAre
<1>4. \A p \in Ids : p \in 1 .. MaxCalls
  BY IdsAre
<1>5. c \in Seq(Items(MaxCalls))
  <2>1. Len(calls) \in Nat /\ MaxCalls \in Nat /\ Len(calls) <= MaxCalls
    BY IdsAre, NoneFacts DEF Types
  <2> QED BY <1>1, <2>1, ItemsKept
<1> QED BY <1>1, <1>2, <1>3, <1>4, <1>5

\* Who calls through a hole waits for ever,
LEMMA HoleIsStuck ==
  ASSUME Types, at # "notify", NEW t \in Holdable, NEW args \in Arguments, NEW c, c = CallOf(t, args),
         NEW f, f = DependPromFunc(t, args), Hole(t, args)
  PROVE  Stuck(c, f, Settled)
<1> DEFINE N == 1 .. Len(args)
<1>1. /\ Len(c) - 1 = Len(args) /\ \A i \in N : c[i + 1] = args[i] /\ f.args[i] = None
      /\ DOMAIN args = N /\ \A i \in N : args[i].prom \in Ids /\ args[i] = Prom(args[i].prom)
      /\ \A p \in Ids : p \in 1 .. MaxCalls
  BY CallFacts
<1>2. ASSUME NEW i \in N, NEW p \in Ids, args[i] = Prom(p),
             f.on[p] # i \/ f.targetOn = Prom(p) \/ p \in Settled
      PROVE  Stuck(c, f, Settled)
  BY <1>1, <1>2 DEF Stuck
<1>3. CASE \E p \in Ids : Times(p, f, args) > 1
  <2>1. PICK p \in Ids : Times(p, f, args) > 1
    BY <1>3
  <2>2. PICK i \in N : /\ args[i] = Prom(p)
                       /\ f.targetOn = Prom(p) \/ \E j \in N : j # i /\ args[j] = Prom(p)
    BY <2>1, TimesAre
  <2>3. CASE f.targetOn = Prom(p)
    BY <1>2, <2>2, <2>3
  <2>4. CASE \E j \in N : j # i /\ args[j] = Prom(p)
    <3>1. PICK j \in N : j # i /\ args[j] = Prom(p)
      BY <2>4
    <3>2. f.on[p] # i \/ f.on[p] # j
      BY <3>1
    <3> QED BY <1>2, <2>2, <3>1, <3>2
  <2> QED BY <2>2, <2>3, <2>4
<1>4. CASE \E i \in N : Resolved(args[i].prom) /\ ~ (at = "resolve" /\ current = args[i].prom)
  <2>1. PICK i \in N : Resolved(args[i].prom) /\ ~ (at = "resolve" /\ current = args[i].prom)
    BY <1>4
  <2>2. args[i].prom \in Settled
    BY <1>1, <2>1 DEF Settled, KnownIds, Passing
  <2> QED BY <1>1, <1>2, <2>2
<1> QED BY <1>1, <1>3, <1>4 DEF Hole

\* and others are told by each promise once, later.
LEMMA NoHole ==
  ASSUME Types, NEW t \in Holdable, NEW args \in Arguments, NEW c, c = CallOf(t, args),
         NEW f, f = DependPromFunc(t, args), ~ Hole(t, args)
  PROVE  /\ Filled(c, f, {})
         /\ \A p \in Ids : WaitsFor(c, f, p) => Times(p, f, args) = 1 /\ p \notin Settled
<1> DEFINE N == 1 .. Len(args)
<1>1. /\ Len(c) - 1 = Len(args) /\ \A i \in N : c[i + 1] = args[i] /\ f.args[i] = None
      /\ f.target = TargetNow(t) /\ (f.targetOn # None <=> f.target = None)
      /\ DOMAIN args = N /\ \A i \in N : IsProm(args[i]) /\ args[i].prom \in Ids /\ args[i] = Prom(args[i].prom)
      /\ \A p \in Ids : p \in 1 .. MaxCalls
  BY CallFacts
<1>2. \A p \in Ids : /\ Times(p, f, args) \in Nat /\ ~ (Times(p, f, args) > 1)
                     /\ Times(p, f, args) # 0 <=> WaitsFor(c, f, p)
  BY TimesAre DEF Hole
<1>3. ASSUME NEW i \in N, NEW p \in Ids, args[i] = Prom(p)
      PROVE  f.targetOn # Prom(p) /\ \A j \in N : args[j] = Prom(p) => i = j
  BY <1>2, <1>3, TimesAre
<1>4. ASSUME NEW i \in N PROVE args[i].prom \notin Settled
  <2>1. Resolved(args[i].prom) => at = "resolve" /\ current = args[i].prom
    BY <1>1 DEF Hole
  <2> QED BY <2>1 DEF Settled, KnownIds, Passing
<1>5. Apart(c, f)
  <2>1. ASSUME NEW i \in N PROVE f.targetOn # args[i] /\ \A j \in N : args[i] = args[j] => i = j
    <3>1. PICK p \in Ids : args[i] = Prom(p)
      BY <1>1
    <3> QED BY <1>3, <3>1
  <2> QED BY <1>1, <2>1 DEF Apart
<1>6. \A p \in 1 .. MaxCalls : f.targetOn = Prom(p) => f.target = None
  BY <1>1, NoneFacts
<1>7. Filled(c, f, {})
  BY <1>1, <1>5, <1>6 DEF Filled
<1>8. ASSUME NEW p \in Ids, WaitsFor(c, f, p) PROVE Times(p, f, args) = 1 /\ p \notin Settled
  <2>1. Times(p, f, args) = 1
    BY <1>2, <1>8
  <2>2. CASE f.targetOn = Prom(p)
    <3>1. f.targetOn = t /\ TargetNow(t) = None
      <4>1. f.targetOn = (IF TargetNow(t) = None THEN t ELSE None) /\ Prom(p) # None
        BY <1>1, NoneFacts DEF DependPromFunc
      <4> QED BY <2>2, <4>1
    <3>2. promises[p].result = None
      BY <2>2, <3>1, PromFacts DEF TargetNow
    <3> QED BY <2>1, <3>2 DEF Settled, KnownIds, Resolved
  <2>3. CASE \E i \in N : args[i] = Prom(p)
    BY <1>4, <2>1, <2>3, PromFacts
  <2> QED BY <1>1, <1>8, <2>2, <2>3 DEF WaitsFor
<1> QED BY <1>7, <1>8

\* A call that has nothing to wait for.
LEMMA NoWait ==
  ASSUME Types, NEW t \in Holdable, NEW args \in Arguments, NEW c, c = CallOf(t, args),
         NEW f, f = DependPromFunc(t, args), ~ Waits(f, args)
  PROVE  /\ ~ Hole(t, args)
         /\ <<TargetNow(t)>> \o args = Message(c) /\ <<TargetNow(t)>> \o args \in Seq(Vals)
         /\ \A i \in DOMAIN c : Known(c[i], KnownIds)
<1>1. /\ DOMAIN args = 1 .. Len(args) /\ args \in Seq(Items(Len(calls)))
      /\ \A i \in 1 .. Len(args) : IsProm(args[i])
  BY ArgumentsAre
<1>2. DOMAIN args = {} /\ f.targetOn = None
  BY <1>1 DEF Waits
<1>3. /\ Shape(c, f, KnownIds) /\ f.target = TargetNow(t) /\ DOMAIN f.args = DOMAIN args
      /\ c \in Seq(Items(MaxCalls)) /\ c # <<>>
      /\ f.targetOn # None <=> f.target = None
  BY CallFacts
<1>5. f.target # None
  BY <1>2, <1>3
<1>6. Ready(f)
  BY <1>2, <1>3, <1>5 DEF Ready
<1>7. f.args = args
  <2>1. f.args = [i \in DOMAIN f.args |-> f.args[i]] /\ args = [i \in DOMAIN args |-> args[i]]
    BY <1>1, <1>3 DEF Shape
  <2> QED BY <1>2, <1>3, <2>1
<1>8. /\ <<f.target>> \o f.args = Message(c) /\ <<f.target>> \o f.args \in Seq(Vals)
      /\ \A i \in DOMAIN c : Known(c[i], KnownIds)
  BY <1>3, <1>6, ReadyMessage
<1>9. ~ Hole(t, args)
  <2>1. ASSUME NEW p \in Ids PROVE ~ (Times(p, f, args) > 1)
    BY <1>1, <1>2, TimesAre
  <2> QED BY <1>2, <2>1 DEF Hole
<1> QED BY <1>3, <1>7, <1>8, <1>9

\* A call is made (eval_message_node, hylic_eval.cpp:204-282): it is sent, or noted.
LEMMA MessageNodeKeeps ==
  ASSUME Good, NEW t \in Holdable, NEW args \in Arguments, MessageNode(t, args)
  PROVE  /\ Good' /\ KnownIds' = KnownIds
         /\ calls' = Append(calls, CallOf(t, args)) /\ Ids' = 1 .. Len(calls) + 1
         /\ \A r \in Ids : IsSent(r)' <=> IsSent(r)
<1>0. PICK n, c, f : n = Len(calls) + 1 /\ c = CallOf(t, args) /\ f = DependPromFunc(t, args)
  OBVIOUS
<1>2. Types /\ Place /\ Noting /\ Waiting /\ Sending /\ Answering
  BY DEF Good
<1>1. /\ at \in {"request", "resolve"} /\ n <= MaxCalls
      /\ calls' = Append(calls, c)
      /\ lost' = IF Hole(t, args) THEN [lost EXCEPT !.calls = @ \cup {n}] ELSE lost
      /\ \/ /\ Waits(f, args) /\ promises' = Append(Noted(n, f, args), NewPromise) /\ out' = out
            /\ depend' = [p \in DOMAIN depend \cup {n} |-> IF p = n THEN f ELSE depend[p]]
         \/ /\ ~ Waits(f, args) /\ promises' = Append(promises, NewPromise) /\ depend' = depend
            /\ out' = Append(out, [prom |-> n, call |-> <<TargetNow(t)>> \o args])
      /\ UNCHANGED <<replies, at, current, left, returned>>
  <2>1. Len(promises) + 1 = n
    BY <1>0, <1>2 DEF Types
  <2>2. at \in {"request", "resolve"}
    BY DEF MessageNode, Running
  <2> QED BY <1>0, <2>1, <2>2 DEF MessageNode, CallOf
<1>3. /\ c \in Seq(Items(MaxCalls)) /\ c \in Seq(Items(n - 1)) /\ c # <<>> /\ Shape(c, f, KnownIds)
      /\ Ids = 1 .. Len(calls) /\ DOMAIN calls = Ids
  <2>1. c \in Seq(Items(MaxCalls)) /\ c # <<>> /\ Shape(c, f, KnownIds)
    BY <1>0, <1>2, CallFacts
  <2>2. c \in Seq(Items(Len(calls)))
    BY <1>0, <1>2, CallIs
  <2>3. Ids = 1 .. Len(calls) /\ DOMAIN calls = Ids /\ Len(calls) \in Nat
    BY <1>2, IdsAre DEF Types
  <2>4. n - 1 = Len(calls)
    BY <1>0, <2>3
  <2> QED BY <2>1, <2>2, <2>3, <2>4
<1>4. /\ promises' \in Seq(PromiseRecord) /\ Len(promises') = n
      /\ n \in Nat /\ n \notin Ids /\ Ids' = Ids \cup {n}
      /\ promises'[n] = NewPromise
      /\ \A r \in Ids :
           /\ promises'[r].result = promises[r].result /\ promises'[r].asker = promises[r].asker
           /\ Len(promises[r].dependents) \in Nat
           /\ DOMAIN promises[r].dependents \subseteq DOMAIN promises'[r].dependents
           /\ \A e : e # n => NotedAt(r, e)' = NotedAt(r, e)
           /\ NotedAt(r, n)' = Len(promises[r].dependents) + 1
                               .. Len(promises[r].dependents) + Times(r, f, args)
  BY <1>0, <1>1, <1>2, PromisesAfterCall
<1>5. /\ calls' \in Seq(Seq(Items(MaxCalls))) /\ Len(calls') = n /\ DOMAIN calls' = Ids'
      /\ calls'[n] = c /\ \A d \in Ids : calls'[d] = calls[d]
  <2>1. calls \in Seq(Seq(Items(MaxCalls))) /\ Len(calls) \in Nat
    BY <1>2 DEF Types
  <2>2. /\ Append(calls, c) \in Seq(Seq(Items(MaxCalls)))
        /\ DOMAIN Append(calls, c) = DOMAIN calls \cup {Len(calls) + 1}
        /\ Append(calls, c)[Len(calls) + 1] = c
        /\ \A d \in DOMAIN calls : Append(calls, c)[d] = calls[d]
    BY <1>3, <2>1, OneMore
  <2>3. Len(Append(calls, c)) = n
    BY <1>0, <2>1
  <2> QED BY <1>0, <1>1, <1>3, <1>4, <2>2, <2>3
<1>6. /\ promises'[n].result = None /\ promises'[n].dependents = <<>> /\ promises'[n].asker = None
      /\ \A e : NotedAt(n, e)' = {}
  <2>1. promises'[n].result = None /\ promises'[n].dependents = <<>> /\ promises'[n].asker = None
    BY <1>4 DEF NewPromise
  <2> QED BY <2>1 DEF NotedAt
<1>7. /\ KnownIds' = KnownIds /\ Settled' = Settled /\ KnownIds \subseteq Ids /\ Settled \subseteq KnownIds
      /\ \A r \in Ids : Resolved(r)' <=> Resolved(r)
  <2>1. \A r \in Ids : Resolved(r)' <=> Resolved(r)
    BY <1>4 DEF Resolved
  <2>2. KnownIds' = KnownIds
    BY <1>4, <1>6, <2>1 DEF KnownIds, Resolved
  <2>3. \A r : Passing(r)' <=> Passing(r)
    BY <1>1 DEF Passing
  <2> QED BY <2>1, <2>2, <2>3 DEF Settled, KnownIds
<1>8. \A r \in Ids : \A k : (Passed(r, k) <=> r \in Settled) /\ (Passed(r, k)' <=> r \in Settled)
  <2> SUFFICES ASSUME NEW r \in Ids, NEW k
               PROVE  (Passed(r, k) <=> r \in Settled) /\ (Passed(r, k)' <=> r \in Settled)
    OBVIOUS
  <2>1. r \in Settled <=> Resolved(r) /\ ~ Passing(r)
    BY DEF Settled, KnownIds
  <2>2. Passed(r, k) <=> Resolved(r) /\ ~ Passing(r)
    BY <1>1 DEF Passed
  <2>3. Passed(r, k)' <=> Resolved(r) /\ ~ Passing(r)
    BY <1>1, <1>7 DEF Passed, Passing
  <2> QED BY <2>1, <2>2, <2>3
<1>9. /\ \A e \in Ids : Told(e)' = Told(e)
      /\ Told(n)' = {r \in Settled : NotedAt(r, n)' # {}}
  <2>1. \A e : Told(e)' = {r \in Ids : r \in Settled /\ NotedAt(r, e)' # {}}
    BY <1>4, <1>6, <1>8 DEF Told
  <2>2. \A e : Told(e) = {r \in Ids : r \in Settled /\ NotedAt(r, e) # {}}
    BY <1>8 DEF Told
  <2>3. \A e \in Ids : \A r \in Ids : NotedAt(r, e)' = NotedAt(r, e)
    BY <1>4
  <2> QED BY <1>7, <2>1, <2>2, <2>3
<1>10. /\ DOMAIN depend \subseteq Ids
       /\ DOMAIN depend' = DOMAIN depend \cup (IF Waits(f, args) THEN {n} ELSE {})
       /\ depend' = [d \in DOMAIN depend' |-> depend'[d]]
       /\ \A d \in DOMAIN depend : depend'[d] = depend[d]
       /\ Waits(f, args) => depend'[n] = f
  <2>1. DOMAIN depend \subseteq Ids /\ depend = [d \in DOMAIN depend |-> depend[d]]
    BY <1>2 DEF Types
  <2>2. CASE Waits(f, args)
    BY <1>1, <1>4, <2>1, <2>2
  <2>3. CASE ~ Waits(f, args)
    BY <1>1, <2>1, <2>3
  <2> QED BY <2>2, <2>3
<1>11. /\ lost'.calls = lost.calls \cup (IF Hole(t, args) THEN {n} ELSE {})
       /\ lost'.requests = lost.requests
       /\ lost' \in [calls : SUBSET Ids', requests : SUBSET Requests]
       /\ lost.calls \subseteq DOMAIN depend
  <2>1. /\ lost = [calls |-> lost.calls, requests |-> lost.requests]
        /\ lost.calls \subseteq Ids /\ lost.requests \subseteq Requests
    BY <1>2, QueuesAre
  <2>2. lost' = [calls |-> lost.calls \cup (IF Hole(t, args) THEN {n} ELSE {}), requests |-> lost.requests]
    BY <1>1, <2>1
  <2>3. lost.calls \subseteq DOMAIN depend
    BY <1>2 DEF Waiting
  <2> QED BY <1>4, <2>1, <2>2, <2>3
<1>12. Hole(t, args) => Waits(f, args)
  BY <1>0, <1>2, NoWait
<1>13. Noting'
  <2>1. ASSUME NEW d \in DOMAIN depend' PROVE Shape(calls'[d], depend'[d], KnownIds)
    <3>1. CASE d \in DOMAIN depend
      BY <1>2, <1>5, <1>10, <3>1 DEF Noting
    <3>2. CASE d = n /\ Waits(f, args)
      BY <1>3, <1>5, <1>10, <3>2
    <3> QED BY <1>10, <3>1, <3>2
  <2>2. ASSUME NEW r \in Ids', NEW k \in DOMAIN promises'[r].dependents
        PROVE  LET d == promises'[r].dependents[k] IN
               d \in DOMAIN depend' /\ WaitsFor(calls'[d], depend'[d], r)
    <3>1. PICK d : d = promises'[r].dependents[k]
      OBVIOUS
    <3>2. k \in NotedAt(r, d)'
      BY <3>1 DEF NotedAt
    <3>3. r \in Ids
      BY <1>4, <1>6, <3>2
    <3>4. CASE d = n
      <4>1. Times(r, f, args) \in Nat /\ (Times(r, f, args) # 0 <=> WaitsFor(c, f, r))
        BY <1>0, <1>2, TimesAre
      <4>2. Times(r, f, args) # 0
        BY <1>4, <3>2, <3>3, <3>4, <4>1
      <4>3. Waits(f, args)
        <5>1. /\ \A i \in 1 .. Len(args) : c[i + 1] = args[i] /\ IsProm(args[i])
              /\ Len(c) - 1 = Len(args) /\ DOMAIN args = 1 .. Len(args)
          BY <1>0, <1>2, CallFacts
        <5>2. Prom(r) # None
          BY <1>2, <3>3, IdsAre, NoneFacts
        <5> QED BY <4>1, <4>2, <5>1, <5>2 DEF WaitsFor, Waits
      <4> QED BY <1>5, <1>10, <3>1, <3>4, <4>1, <4>2, <4>3
    <3>5. CASE d # n
      <4>1. k \in NotedAt(r, d)
        BY <1>4, <3>2, <3>3, <3>5
      <4>2. k \in DOMAIN promises[r].dependents /\ promises[r].dependents[k] = d
        BY <4>1 DEF NotedAt
      <4>3. d \in DOMAIN depend /\ WaitsFor(calls[d], depend[d], r)
        BY <1>2, <3>3, <4>2 DEF Noting
      <4> QED BY <1>5, <1>10, <3>1, <4>3
    <3> QED BY <3>4, <3>5
  <2> QED BY <1>7, <2>1, <2>2 DEF Noting
<1>14. Waiting'
  <2>1. ASSUME NEW d \in lost'.calls PROVE Stuck(calls'[d], depend'[d], Settled)
    <3>1. CASE d \in lost.calls
      BY <1>2, <1>5, <1>10, <1>11, <3>1 DEF Waiting
    <3>2. CASE d = n /\ Hole(t, args)
      <4>1. Stuck(c, f, Settled)
        BY <1>0, <1>1, <1>2, <3>2, HoleIsStuck
      <4> QED BY <1>5, <1>10, <1>12, <3>2, <4>1
    <3> QED BY <1>11, <3>1, <3>2
  <2>2. ASSUME NEW d \in DOMAIN depend' \ lost'.calls
        PROVE  /\ Filled(calls'[d], depend'[d], Told(d)')
               /\ \A r \in Ids' : WaitsFor(calls'[d], depend'[d], r) => \E k \in Nat : NotedAt(r, d)' = {k}
    <3>1. CASE d \in DOMAIN depend
      <4>1. d \in DOMAIN depend \ lost.calls /\ d \in Ids /\ d # n
        BY <1>4, <1>10, <1>11, <3>1
      <4>2. /\ Filled(calls[d], depend[d], Told(d))
            /\ \A r \in Ids : WaitsFor(calls[d], depend[d], r) => \E k \in Nat : NotedAt(r, d) = {k}
        BY <1>2, <4>1 DEF Waiting
      <4>3. ~ WaitsFor(calls[d], depend[d], n)
        <5>1. /\ calls[d] \in Seq(Items(d - 1)) /\ calls[d] # <<>> /\ Shape(calls[d], depend[d], KnownIds)
              /\ d - 1 \in 0 .. MaxCalls /\ n \notin 1 .. d - 1
          BY <1>0, <1>2, <1>3, <3>1, <4>1, IdsAre, NoneFacts DEF Noting
        <5>2. \A i \in 1 .. Len(calls[d]) : calls[d][i] # Prom(n)
          BY <5>1, ItemFacts, PromFacts
        <5>3. 1 \in 1 .. Len(calls[d]) /\ \A i \in 1 .. Len(calls[d]) - 1 : i + 1 \in 1 .. Len(calls[d])
          BY <5>1
        <5>4. depend[d].targetOn = calls[d][1] \/ depend[d].targetOn = None
          BY <5>1 DEF Shape
        <5>5. Prom(n) # None
          BY <1>1, <1>4, NoneFacts, <1>0, <1>2, IdsAre
        <5> QED BY <5>2, <5>3, <5>4, <5>5 DEF WaitsFor
      <4> QED BY <1>4, <1>5, <1>9, <1>10, <3>1, <4>1, <4>2, <4>3
    <3>2. CASE d = n /\ Waits(f, args)
      <4>1. /\ Filled(c, f, {})
            /\ \A r \in Ids : WaitsFor(c, f, r) => Times(r, f, args) = 1 /\ r \notin Settled
        BY <1>0, <1>2, <1>11, <3>2, NoHole
      <4>2. \A r \in Ids : Times(r, f, args) \in Nat /\ (Times(r, f, args) # 0 <=> WaitsFor(c, f, r))
        BY <1>0, <1>2, TimesAre
      <4>3. ASSUME NEW r \in Ids, WaitsFor(c, f, r) PROVE \E k \in Nat : NotedAt(r, n)' = {k}
        <5>1. PICK m \in Nat : m = Len(promises[r].dependents)
          BY <1>4
        <5>2. NotedAt(r, n)' = m + 1 .. m + 1
          BY <1>4, <4>1, <4>3, <5>1
        <5>3. m + 1 .. m + 1 = {m + 1} /\ m + 1 \in Nat
          OBVIOUS
        <5> QED BY <5>2, <5>3
      <4>4. ASSUME NEW r \in Settled PROVE NotedAt(r, n)' = {}
        <5>1. r \in Ids /\ ~ WaitsFor(c, f, r)
          BY <1>7, <4>1
        <5>2. PICK m \in Nat : m = Len(promises[r].dependents)
          BY <1>4, <5>1
        <5>3. NotedAt(r, n)' = m + 1 .. m + 0
          BY <1>4, <4>2, <5>1, <5>2
        <5> QED BY <5>3
      <4>5. Told(n)' = {}
        BY <1>9, <4>4
      <4>6. ~ WaitsFor(c, f, n)
        <5>1. n - 1 \in 0 .. MaxCalls /\ n \notin 1 .. n - 1
          BY <1>0, <1>2, <1>4, IdsAre
        <5>2. \A i \in 1 .. Len(c) : c[i] # Prom(n)
          BY <1>3, <5>1, ItemFacts, PromFacts
        <5>3. 1 \in 1 .. Len(c) /\ \A i \in 1 .. Len(c) - 1 : i + 1 \in 1 .. Len(c)
          BY <1>3
        <5>4. f.targetOn = c[1] \/ f.targetOn = None
          BY <1>3 DEF Shape
        <5>5. Prom(n) # None
          BY <1>1, <1>4, NoneFacts, <1>0, <1>2, IdsAre
        <5> QED BY <5>2, <5>3, <5>4, <5>5 DEF WaitsFor
      <4> QED BY <1>4, <1>5, <1>10, <3>2, <4>1, <4>3, <4>5, <4>6
    <3> QED BY <1>10, <3>1, <3>2
  <2>3. lost'.calls \subseteq DOMAIN depend'
    BY <1>10, <1>11, <1>12
  <2> QED BY <1>7, <2>1, <2>2, <2>3 DEF Waiting
<1>15. Place'
  BY <1>1, <1>2, <1>4, <1>7 DEF Place
<1>16. Answering'
  <2>1. \A q : Answered(q)' <=> Answered(q)
    BY <1>1 DEF Answered
  <2>2. ASSUME NEW q \in Requests PROVE returned[q] # <<Prom(n)>>
    <3>1. CASE returned[q] = <<>>
      BY <3>1
    <3>2. CASE returned[q] # <<>>
      <4>1. returned[q][1] \in Items(Len(calls)) /\ (returned[q][1] = Prom(n) <=> returned[q] = <<Prom(n)>>)
        BY <1>2, <3>2, ReturnedAre
      <4>2. Len(calls) \in 0 .. MaxCalls /\ n \notin 1 .. Len(calls)
        BY <1>2, <1>3, <1>4, IdsAre
      <4> QED BY <4>1, <4>2, ItemFacts, PromFacts
    <3> QED BY <3>1, <3>2
  <2>3. ASSUME NEW p \in Ids' \ Settled, NEW q \in Requests
        PROVE  promises'[p].asker = q <=> returned[q] = <<Prom(p)>> /\ q \notin lost.requests
    <3>1. CASE p \in Ids
      BY <1>2, <1>4, <3>1 DEF Answering
    <3>2. CASE p = n
      BY <1>6, <2>2, <3>2, NoneFacts
    <3> QED BY <1>4, <3>1, <3>2
  <2> QED BY <1>1, <1>2, <1>7, <1>11, <2>1, <2>3 DEF Answering
<1>17. /\ promises' \in Seq(PromiseRecord) /\ Len(promises') = Len(calls') /\ Len(calls') <= MaxCalls
       /\ \A p \in Ids' : promises'[p].result \in {None, Val(p)}
       /\ calls' \in Seq(Seq(Items(MaxCalls)))
       /\ \A d \in Ids' : calls'[d] \in Seq(Items(d - 1)) /\ calls'[d] # <<>>
       /\ DOMAIN depend' \subseteq Ids' /\ depend' = [d \in DOMAIN depend' |-> depend'[d]]
       /\ replies' \in Seq([to : Requests, value : Vals])
       /\ returned' \in [Requests -> Seq(Items(Len(calls')))] /\ \A q \in Requests : Len(returned'[q]) <= 1
       /\ lost' \in [calls : SUBSET Ids', requests : SUBSET Requests]
       /\ left' \in Nat
  <2>1. promises' \in Seq(PromiseRecord) /\ Len(promises') = Len(calls') /\ Len(calls') <= MaxCalls
    BY <1>1, <1>4, <1>5
  <2>2. \A p \in Ids' : promises'[p].result \in {None, Val(p)}
    BY <1>2, <1>4, <1>6 DEF Types
  <2>3. \A d \in Ids' : calls'[d] \in Seq(Items(d - 1)) /\ calls'[d] # <<>>
    BY <1>2, <1>3, <1>4, <1>5 DEF Types
  <2>4. /\ replies' \in Seq([to : Requests, value : Vals]) /\ left' \in Nat
        /\ returned \in [Requests -> Seq(Items(Len(calls)))] /\ \A q \in Requests : Len(returned'[q]) <= 1
    BY <1>1, <1>2 DEF Types
  <2>5. returned' \in [Requests -> Seq(Items(Len(calls')))]
    <3>1. Len(calls) \in Nat /\ n \in Nat /\ Len(calls) <= n
      BY <1>0, <1>2, <1>4, IdsAre
    <3>2. ASSUME NEW q \in Requests PROVE returned[q] \in Seq(Items(n))
      <4>1. returned[q] \in Seq(Items(Len(calls)))
        BY <2>4
      <4> QED BY <3>1, <4>1, ItemsKept
    <3> QED BY <1>1, <1>5, <2>4, <3>2
  <2> QED BY <1>4, <1>5, <1>10, <1>11, <2>1, <2>2, <2>3, <2>4, <2>5
<1>20. calls' = Append(calls, CallOf(t, args)) /\ Ids' = 1 .. Len(calls) + 1
  <2>1. Len(calls) \in Nat
    BY <1>2, IdsAre
  <2> QED BY <1>0, <1>1, <1>3, <1>4, <2>1
<1>18. CASE Waits(f, args)
  <2>1. out' = out /\ \A r : IsSent(r)' <=> IsSent(r)
    BY <1>1, <1>18 DEF IsSent
  <2>2. Types'
    BY <1>2, <1>17, <2>1 DEF Types
  <2>3. ~ Ready(f)
    <3>1. /\ f.targetOn # None <=> f.target = None
          /\ DOMAIN args = 1 .. Len(args) /\ DOMAIN f.args = DOMAIN args
          /\ \A i \in 1 .. Len(args) : f.args[i] = None
      BY <1>0, <1>2, CallFacts
    <3> QED BY <1>18, <3>1 DEF Waits, Ready
  <2>4. ~ IsSent(n)
    BY <1>2, <1>4 DEF Sending, IsSent
  <2>5. \A i \in DOMAIN out : out[i].prom \in Ids' /\ out[i].call = Message(calls'[out[i].prom])
    BY <1>2, <1>4, <1>5 DEF Sending
  <2>6. \A d \in Ids' \ DOMAIN depend' :
          IsSent(d) /\ \A i \in DOMAIN calls'[d] : Known(calls'[d][i], KnownIds)
    <3>1. \A d \in Ids' \ DOMAIN depend' : d \in Ids \ DOMAIN depend /\ calls'[d] = calls[d]
      BY <1>4, <1>5, <1>10, <1>18
    <3> QED BY <1>2, <3>1 DEF Sending
  <2>7. \A d \in DOMAIN depend' : IsSent(d) <=> Ready(depend'[d])
    BY <1>2, <1>10, <1>18, <2>3, <2>4 DEF Sending
  <2>8. Sending'
    BY <1>2, <1>7, <2>1, <2>5, <2>6, <2>7 DEF Sending
  <2>9. Good'
    BY <1>13, <1>14, <1>15, <1>16, <2>2, <2>8 DEF Good
  <2> QED BY <1>7, <1>20, <2>1, <2>9
<1>19. CASE ~ Waits(f, args)
  <2>1. PICK m : m = <<TargetNow(t)>> \o args
    OBVIOUS
  <2>2. m = Message(c) /\ m \in Seq(Vals) /\ \A i \in DOMAIN c : Known(c[i], KnownIds)
    BY <1>0, <1>2, <1>19, <2>1, NoWait
  <2>3. out' = Append(out, [prom |-> n, call |-> m])
    BY <1>1, <1>19, <2>1
  <2>4. /\ out' \in Seq([prom : Nat, call : Seq(Vals)])
        /\ \A r : IsSent(r)' <=> r = n \/ IsSent(r)
        /\ \A i \in DOMAIN out' :
             \/ i \in DOMAIN out /\ out'[i] = out[i]
             \/ i = Len(out) + 1 /\ out'[i].prom = n /\ out'[i].call = m
    <3>1. n \in Nat /\ m \in Seq(Vals)
      BY <1>4, <2>2
    <3> QED BY <1>2, <2>3, <3>1, OneSent
  <2>5. Types'
    BY <1>17, <2>4 DEF Types
  <2>6. ~ IsSent(n)
    BY <1>2, <1>4 DEF Sending, IsSent
  <2>7. ASSUME NEW i \in DOMAIN out'
        PROVE  out'[i].prom \in Ids' /\ out'[i].call = Message(calls'[out'[i].prom])
    <3>1. CASE i \in DOMAIN out /\ out'[i] = out[i]
      <4>1. out[i].prom \in Ids /\ out[i].call = Message(calls[out[i].prom])
        BY <1>2, <3>1 DEF Sending
      <4> QED BY <1>4, <1>5, <3>1, <4>1
    <3>2. CASE out'[i].prom = n /\ out'[i].call = m
      BY <1>4, <1>5, <2>2, <3>2
    <3> QED BY <2>4, <3>1, <3>2
  <2>8. ASSUME NEW i \in DOMAIN out', NEW j \in DOMAIN out', out'[i].prom = out'[j].prom
        PROVE  i = j
    BY <1>2, <2>4, <2>6, <2>8 DEF Sending, IsSent
  <2>9. \A d \in Ids' \ DOMAIN depend' :
          IsSent(d)' /\ \A i \in DOMAIN calls'[d] : Known(calls'[d][i], KnownIds)
    <3>1. \A d \in Ids' \ DOMAIN depend' : (d \in Ids \ DOMAIN depend /\ calls'[d] = calls[d]) \/ d = n
      BY <1>4, <1>5, <1>10, <1>19
    <3> QED BY <1>2, <1>5, <2>2, <2>4, <3>1 DEF Sending
  <2>10. \A d \in DOMAIN depend' : IsSent(d)' <=> Ready(depend'[d])
    BY <1>2, <1>4, <1>10, <1>19, <2>4 DEF Sending
  <2>11. \A d \in KnownIds' : IsSent(d)'
    BY <1>2, <1>7, <2>4 DEF Sending
  <2>12. Sending'
    BY <1>7, <2>7, <2>8, <2>9, <2>10, <2>11 DEF Sending
  <2>13. Good'
    BY <1>13, <1>14, <1>15, <1>16, <2>5, <2>12 DEF Good
  <2> QED BY <1>4, <1>7, <1>20, <2>4, <2>13
<1> QED BY <1>18, <1>19

-----------------------------------------------------------------------------
(* Every step *)

\* At first there is nothing,
LEMMA InitGood ==
  ASSUME Init
  PROVE  Good
<1> DEFINE e == <<>>
<1>1. /\ e \in Seq(PromiseRecord) /\ e \in Seq(Seq(Items(MaxCalls))) /\ Len(e) = 0 /\ DOMAIN e = {}
      /\ e \in Seq([prom : Nat, call : Seq(Vals)]) /\ e \in Seq([to : Requests, value : Vals])
      /\ \A n : e \in Seq(Items(n))
      /\ e = [d \in {} |-> e[d]]
  OBVIOUS
<1>2. /\ promises = e /\ depend = e /\ out = e /\ replies = e /\ at = "idle" /\ left = 0 /\ calls = e
      /\ returned = [q \in Requests |-> e] /\ lost = [calls |-> {}, requests |-> {}]
  BY DEF Init
<1>3. Ids = {} /\ \A q \in Requests : returned[q] = <<>>
  BY <1>1, <1>2 DEF Ids
<1> HIDE DEF e
<1>4. Types
  <2>1. /\ returned \in [Requests -> Seq(Items(Len(calls)))] /\ \A q \in Requests : Len(returned[q]) <= 1
    BY <1>1, <1>2
  <2>2. lost \in [calls : SUBSET Ids, requests : SUBSET Requests]
    BY <1>2
  <2>3. Len(promises) = Len(calls) /\ Len(calls) <= MaxCalls
    BY <1>1, <1>2, NoneFacts
  <2> QED BY <1>1, <1>2, <1>3, <2>1, <2>2, <2>3 DEF Types
<1>5. Place
  BY <1>2 DEF Place
<1>6. DOMAIN depend = {} /\ DOMAIN out = {} /\ DOMAIN replies = {} /\ KnownIds = {} /\ lost.calls = {} /\ lost.requests = {}
  BY <1>1, <1>2, <1>3 DEF KnownIds
<1>7. Noting /\ Waiting
  BY <1>3, <1>6 DEF Noting, Waiting
<1>8. Sending
  BY <1>3, <1>6 DEF Sending
<1>9. Answering
  BY <1>3, <1>6 DEF Answering, Answered
<1> QED BY <1>4, <1>5, <1>7, <1>8, <1>9 DEF Good

\* and every step keeps the invariant.
LEMMA EvalStep ==
  ASSUME EvalInv, [Next]_vars
  PROVE  EvalInv'
<1>1. CASE at' = "dead"
  BY <1>1 DEF EvalInv
<1>2. CASE UNCHANGED vars
  <2>1. UNCHANGED <<promises, depend, out, replies, at, current, left, calls, returned, lost>>
    BY <1>2 DEF vars, vatVars
  <2>2. CASE at = "dead"
    BY <2>1, <2>2 DEF EvalInv
  <2>3. CASE at # "dead"
    <3>1. Good
      BY <2>3 DEF EvalInv
    <3>2. Types' /\ Ids' = Ids
      <4>1. left' \in Nat
        BY <2>1, <3>1 DEF Good, Types
      <4> QED BY <2>1, <3>1, <4>1, SamePromises DEF Good
    <3>3. KnownIds' = KnownIds /\ Settled' = Settled /\ \A d : Told(d)' = Told(d)
      BY <2>1, SameSets
    <3>4. Place'
      BY <2>1, <3>1, <3>2 DEF Good, Place, Resolved
    <3>5. Noting' /\ Waiting'
      BY <2>1, <3>1, <3>3, StillNoted DEF Good
    <3>6. Sending'
      BY <2>1, <3>1, <3>3, StillSent DEF Good, Sending
    <3>7. Answering'
      BY <2>1, <3>1, <3>3, StillAnswered DEF Good
    <3> QED BY <3>2, <3>4, <3>5, <3>6, <3>7 DEF Good, EvalInv
  <2> QED BY <2>2, <2>3
<1>3. CASE Next /\ at' # "dead"
  <2>1. at # "dead"
    BY <1>3 DEF Next, Code, MessageNode, OnPromise, Running, Return, ReturnNothing, EndCallback,
      EndCallbacks, Notify, EndResponse, HandleRequest, HandleResponse
  <2>2. Good
    BY <2>1 DEF EvalInv
  <2> SUFFICES Good'
    BY DEF EvalInv
  <2>3. ASSUME NEW t \in Holdable, NEW args \in Arguments, MessageNode(t, args) PROVE Good'
    BY <2>2, <2>3, MessageNodeKeeps
  <2>4. ASSUME NEW p \in Ids, OnPromise(p) PROVE Good'
    BY <1>3, <2>2, <2>4, OnPromiseKeeps
  <2>5. ASSUME NEW x \in Holdable, Return(x) PROVE Good'
    BY <2>2, <2>5, ReturnValueKeeps, ReturnPromiseKeeps
  <2>6. CASE ReturnNothing
    BY <1>3, <2>6 DEF ReturnNothing
  <2>7. CASE EndCallback
    BY <2>2, <2>7, EndCallbackKeeps
  <2>8. CASE EndCallbacks
    BY <2>2, <2>8, EndCallbacksKeeps
  <2>9. CASE Notify
    BY <2>2, <2>9, NotifyKeeps
  <2>10. CASE EndResponse
    BY <2>2, <2>10, EndResponseKeeps
  <2>11. ASSUME NEW q \in Requests, HandleRequest(q) PROVE Good'
    BY <2>2, <2>11, HandleRequestKeeps
  <2>12. ASSUME NEW i \in DOMAIN out, HandleResponse(out[i]) PROVE Good'
    BY <2>2, <2>12, HandleResponseKeeps
  <2> QED BY <1>3, <2>3, <2>4, <2>5, <2>6, <2>7, <2>8, <2>9, <2>10, <2>11, <2>12 DEF Next, Code
<1> QED BY <1>1, <1>2, <1>3

\* Whatever handlers and callbacks do, unless an assert has failed: promises,
\* what is noted of calls, messages and responses fit together (hylic_eval.cpp:90-282).
THEOREM EvaluatorIsGood == Spec => []EvalInv
<1>1. Init => EvalInv
  BY InitGood DEF EvalInv
<1>2. EvalInv /\ [Next]_vars => EvalInv'
  BY EvalStep
<1> QED BY <1>1, <1>2, PTL DEF Spec

-----------------------------------------------------------------------------
(* What is sent and answered *)

\* At most one message is sent for each call,
LEMMA SentForIs ==
  ASSUME Sending, NEW p
  PROVE  SentFor(p) = IF IsSent(p) THEN <<Message(calls[p])>> ELSE <<>>
<1> DEFINE S == {i \in DOMAIN out : out[i].prom = p}
           mine == SetToSeq(S)
<1>1. SentFor(p) = [k \in DOMAIN mine |-> out[mine[k]].call]
  BY DEF SentFor
<1>2. CASE IsSent(p)
  <2>1. PICK i \in S : S = {i}
    BY <1>2 DEF IsSent, Sending
  <2>2. DOMAIN mine = 1 .. 1 /\ mine[1] = i
    BY <2>1, OneInOrder
  <2>3. out[i].call = Message(calls[p])
    BY <2>1 DEF Sending
  <2> HIDE DEF mine, S
  <2>4. [k \in DOMAIN mine |-> out[mine[k]].call] = [k \in 1 .. 1 |-> Message(calls[p])]
    BY <2>2, <2>3
  <2>5. [k \in 1 .. 1 |-> Message(calls[p])] = <<Message(calls[p])>>
    OBVIOUS
  <2> QED BY <1>1, <1>2, <2>4, <2>5
<1>3. CASE ~ IsSent(p)
  <2>1. S = {}
    BY <1>3 DEF IsSent
  <2>2. DOMAIN mine = {}
    BY <2>1, OneInOrder
  <2> HIDE DEF mine, S
  <2>3. [k \in DOMAIN mine |-> out[mine[k]].call] = <<>>
    BY <2>2
  <2> QED BY <1>1, <1>3, <2>3
<1> QED BY <1>2, <1>3

\* and one response to each request;
LEMMA RepliesToIs ==
  ASSUME Answering, NEW q
  PROVE  RepliesTo(q) = IF Answered(q) THEN <<Value(returned[q][1])>> ELSE <<>>
<1> DEFINE S == {i \in DOMAIN replies : replies[i].to = q}
           mine == SetToSeq(S)
<1>1. RepliesTo(q) = [k \in DOMAIN mine |-> replies[mine[k]].value]
  BY DEF RepliesTo
<1>2. CASE Answered(q)
  <2>1. PICK i \in S : S = {i}
    BY <1>2 DEF Answered, Answering
  <2>2. DOMAIN mine = 1 .. 1 /\ mine[1] = i
    BY <2>1, OneInOrder
  <2>3. replies[i].value = Value(returned[q][1])
    BY <2>1 DEF Answering
  <2> HIDE DEF mine, S
  <2>4. [k \in DOMAIN mine |-> replies[mine[k]].value] = [k \in 1 .. 1 |-> Value(returned[q][1])]
    BY <2>2, <2>3
  <2>5. [k \in 1 .. 1 |-> Value(returned[q][1])] = <<Value(returned[q][1])>>
    OBVIOUS
  <2> QED BY <1>1, <1>2, <2>4, <2>5
<1>3. CASE ~ Answered(q)
  <2>1. S = {}
    BY <1>3 DEF Answered
  <2>2. DOMAIN mine = {}
    BY <2>1, OneInOrder
  <2> HIDE DEF mine, S
  <2>3. [k \in DOMAIN mine |-> replies[mine[k]].value] = <<>>
    BY <2>2
  <2> QED BY <1>1, <1>3, <2>3
<1> QED BY <1>2, <1>3

\* Only what is complete is sent, only what is known answered.
LEMMA SentIsComplete ==
  ASSUME Types, Noting, Sending, NEW p \in Ids, IsSent(p)
  PROVE  \A i \in DOMAIN calls[p] : Known(calls[p][i], KnownIds)
<1>1. CASE p \notin DOMAIN depend
  BY <1>1 DEF Sending
<1>2. CASE p \in DOMAIN depend
  <2>1. PICK c, f : c = calls[p] /\ f = depend[p]
    OBVIOUS
  <2>2. Ready(f) /\ Shape(c, f, KnownIds)
    BY <1>2, <2>1 DEF Sending, Noting
  <2>3. c \in Seq(Items(MaxCalls)) /\ c # <<>>
    BY <2>1, IdsAre
  <2>4. \A i \in DOMAIN c : Known(c[i], KnownIds)
    BY <2>2, <2>3, ReadyMessage
  <2> QED BY <2>1, <2>4
<1> QED BY <1>1, <1>2

\* if nothing is being handled and it fell through no hole, every complete call.
LEMMA CompleteIsSent ==
  ASSUME Good, at = "idle", NEW p \in Ids
  PROVE  IsSent(p) <=> Complete(p) /\ p \notin lost.calls
<1>1. Types /\ Noting /\ Waiting /\ Sending
  BY DEF Good
<1>2. PICK c, f : c = calls[p] /\ f = depend[p]
  OBVIOUS
<1>3. c \in Seq(Items(p - 1)) /\ c \in Seq(Items(MaxCalls)) /\ c # <<>> /\ Ids = 1 .. Len(calls) /\ Len(calls) \in 0 .. MaxCalls
  BY <1>1, <1>2, IdsAre
<1>4. ASSUME NEW i \in DOMAIN c, IsProm(c[i]) PROVE c[i].prom \in Ids /\ c[i] = Prom(c[i].prom)
  <2>0. c[i] \in Items(p - 1)
    BY <1>3, InSeq
  <2>1. p - 1 \in 0 .. MaxCalls /\ 1 .. p - 1 \subseteq Ids
    BY <1>3, NoneFacts
  <2> QED BY <1>4, <2>0, <2>1, ItemFacts
<1>5. Complete(p) <=> \A i \in DOMAIN c : Known(c[i], KnownIds)
  BY <1>2, <1>4 DEF Complete, Known, KnownIds
<1>6. IsSent(p) => Complete(p)
  BY <1>1, <1>2, <1>5, SentIsComplete
<1>7. CASE p \notin DOMAIN depend
  BY <1>1, <1>6, <1>7 DEF Sending, Waiting
<1>8. CASE p \in lost.calls
  <2>1. p \in DOMAIN depend /\ Stuck(c, f, Settled) /\ Shape(c, f, KnownIds)
    BY <1>1, <1>2, <1>8 DEF Waiting, Noting
  <2> QED BY <1>1, <1>2, <1>8, <2>1, StuckNotReady DEF Sending
<1>9. CASE p \in DOMAIN depend \ lost.calls
  <2>1. /\ Filled(c, f, Told(p)) /\ Shape(c, f, KnownIds)
        /\ \A r \in Ids : WaitsFor(c, f, r) => \E k \in Nat : NotedAt(r, p) = {k}
    BY <1>1, <1>2, <1>9 DEF Waiting, Noting
  <2>2. ASSUME Complete(p), NEW r \in 1 .. MaxCalls, WaitsFor(c, f, r) PROVE r \in Told(p)
    <3>1. PICK i \in DOMAIN c : c[i] = Prom(r)
      <4>1. DOMAIN c = 1 .. Len(c) /\ Len(c) \in Nat \ {0}
        BY <1>3
      <4>2. CASE f.targetOn = Prom(r)
        <5>1. c[1] = Prom(r)
          BY <2>1, <4>2, NoneFacts DEF Shape
        <5> QED BY <4>1, <5>1
      <4>3. CASE \E j \in 1 .. Len(c) - 1 : c[j + 1] = Prom(r)
        <5>1. PICK j \in 1 .. Len(c) - 1 : c[j + 1] = Prom(r)
          BY <4>3
        <5>2. j + 1 \in DOMAIN c
          BY <4>1
        <5> QED BY <5>1, <5>2
      <4> QED BY <2>2, <4>2, <4>3 DEF WaitsFor
    <3>2. r \in Ids /\ r \in KnownIds
      BY <1>4, <1>5, <2>2, <3>1, PromFacts DEF Known
    <3>3. Resolved(r) /\ ~ Passing(r)
      BY <3>2 DEF KnownIds, Passing
    <3>4. PICK k \in Nat : NotedAt(r, p) = {k}
      BY <2>1, <2>2, <3>2
    <3> QED BY <3>2, <3>3, <3>4 DEF Told, Passed
  <2>3. Complete(p) => Ready(f)
    BY <1>3, <2>1, <2>2, FilledReady
  <2> QED BY <1>1, <1>2, <1>6, <1>9, <2>3 DEF Sending
<1> QED BY <1>1, <1>7, <1>8, <1>9 DEF Waiting

\* The invariant is enough.
LEMMA NothingElse ==
  ASSUME EvalInv
  PROVE  NothingElseIsLost
<1> SUFFICES ASSUME at = "idle"
             PROVE  /\ \A p \in Ids : SentFor(p) # <<>> <=> Complete(p) /\ p \notin lost.calls
                    /\ \A q \in Requests :
                         RepliesTo(q) # <<>> <=>
                           /\ returned[q] # <<>> /\ q \notin lost.requests
                           /\ IsProm(returned[q][1]) => Resolved(returned[q][1].prom)
  BY DEF NothingElseIsLost
<1>1. Good /\ Types /\ Sending /\ Answering
  BY DEF EvalInv, Good
<1>2. \A x : <<x>> # <<>>
  OBVIOUS
<1>3. ASSUME NEW p \in Ids PROVE SentFor(p) # <<>> <=> Complete(p) /\ p \notin lost.calls
  <2>1. SentFor(p) # <<>> <=> IsSent(p)
    BY <1>1, <1>2, SentForIs
  <2> QED BY <1>1, <2>1, CompleteIsSent
<1>4. ASSUME NEW q \in Requests
      PROVE  RepliesTo(q) # <<>> <=>
               /\ returned[q] # <<>> /\ q \notin lost.requests
               /\ IsProm(returned[q][1]) => Resolved(returned[q][1].prom)
  <2>1. RepliesTo(q) # <<>> <=> Answered(q)
    BY <1>1, <1>2, RepliesToIs
  <2>2. Answered(q) <=> returned[q] # <<>> /\ q \notin lost.requests /\ Known(returned[q][1], Settled)
    BY <1>1 DEF Answering
  <2>3. ASSUME returned[q] # <<>>
        PROVE  Known(returned[q][1], Settled) <=> (IsProm(returned[q][1]) => Resolved(returned[q][1].prom))
    <3>1. returned[q][1] \in Items(Len(calls)) /\ Len(calls) \in 0 .. MaxCalls /\ Ids = 1 .. Len(calls)
      BY <1>1, <2>3, ReturnedAre, IdsAre
    <3>2. IsProm(returned[q][1]) => returned[q][1].prom \in Ids
      BY <3>1, ItemFacts
    <3> QED BY <3>2 DEF Known, Settled, KnownIds, Passing
  <2> QED BY <2>1, <2>2, <2>3
<1> QED BY <1>3, <1>4

\* When the vat is at rest, every call whose inputs are all known has been sent
\* and every request whose result is known answered, but for those that fell
\* through the holes (hylic_eval.cpp:109, 219-261, pleroma.cpp:102-127).
THEOREM NothingElseIsLostAlways == Spec => []NothingElseIsLost
<1>1. EvalInv => NothingElseIsLost
  BY NothingElse
<1> QED BY <1>1, EvaluatorIsGood, PTL

-----------------------------------------------------------------------------
(* The evaluator implements Dataflow *)

SentTable == [p \in Ids |-> SentFor(p)]
ReplyTable == [q \in Requests |-> RepliesTo(q)]

\* The state as Dataflow sees it.
Seen ==
  /\ SentTable = [p \in Ids |-> IF IsSent(p) THEN <<Message(calls[p])>> ELSE <<>>]
  /\ ReplyTable = [q \in Requests |-> IF Answered(q) THEN <<Value(returned[q][1])>> ELSE <<>>]
  /\ \A p \in Ids : IsSent(p) => \A i \in DOMAIN calls[p] : Known(calls[p][i], KnownIds)
  /\ \A q \in Requests : Answered(q) => returned[q] # <<>> /\ Known(returned[q][1], KnownIds)
  /\ DOMAIN calls = Ids
SeenInv == EvalInv /\ (at # "dead" => Seen)

\* What the refinement needs of the invariant.
LEMMA GoodIsSeen ==
  ASSUME EvalInv
  PROVE  SeenInv
<1> SUFFICES ASSUME at # "dead" PROVE Seen
  BY DEF SeenInv
<1>1. Good /\ Types /\ Noting /\ Sending /\ Answering
  BY DEF EvalInv, Good
<1>2. SentTable = [p \in Ids |-> IF IsSent(p) THEN <<Message(calls[p])>> ELSE <<>>]
  BY <1>1, SentForIs DEF SentTable
<1>3. ReplyTable = [q \in Requests |-> IF Answered(q) THEN <<Value(returned[q][1])>> ELSE <<>>]
  BY <1>1, RepliesToIs DEF ReplyTable
<1>4. \A p \in Ids : IsSent(p) => \A i \in DOMAIN calls[p] : Known(calls[p][i], KnownIds)
  BY <1>1, SentIsComplete
<1>5. \A q \in Requests : Answered(q) => returned[q] # <<>> /\ Known(returned[q][1], KnownIds)
  BY <1>1 DEF Answered, Answering
<1>6. DOMAIN calls = Ids
  BY <1>1, IdsAre
<1> QED BY <1>2, <1>3, <1>4, <1>5, <1>6 DEF Seen

\* Each initial state, and then each step, is one of Dataflow.
LEMMA DataflowInit ==
  ASSUME Init
  PROVE  Dataflow!Init
<1>1. /\ promises = <<>> /\ replies = <<>> /\ calls = <<>>
      /\ returned = [q \in Requests |-> <<>>] /\ Ids = {}
  BY DEF Init, Ids
<1>2. KnownIds = {}
  BY <1>1 DEF KnownIds
<1>3. [p \in Ids |-> SentFor(p)] = <<>>
  BY <1>1
<1>4. ASSUME NEW q PROVE RepliesTo(q) = <<>>
  <2>1. Answering /\ ~ Answered(q)
    BY <1>1, InitGood DEF Good, Answered
  <2> QED BY <2>1, RepliesToIs
<1>5. [q \in Requests |-> RepliesTo(q)] = [q \in Requests |-> <<>>]
  BY <1>4
<1> QED BY <1>1, <1>2, <1>3, <1>5 DEF Dataflow!Init

\* Calls that waited are sent, and requests answered.
LEMMA IsFire ==
  ASSUME Seen, Seen', UNCHANGED <<calls, returned>>, Ids' = Ids, KnownIds' = KnownIds,
         \A p : IsSent(p) => IsSent(p)', \A q : Answered(q) => Answered(q)'
  PROVE  Dataflow!Fire
<1> DEFINE new == {p \in Ids : IsSent(p)' /\ ~ IsSent(p)}
           told == {q \in Requests : Answered(q)' /\ ~ Answered(q)}
<1>0. /\ SentTable = [p \in Ids |-> SentFor(p)] /\ ReplyTable = [q \in Requests |-> RepliesTo(q)]
      /\ SentTable' = [p \in Ids |-> SentFor(p)]' /\ ReplyTable' = [q \in Requests |-> RepliesTo(q)]'
  BY DEF SentTable, ReplyTable
<1>1. \A p \in Ids : /\ SentTable[p] = IF IsSent(p) THEN <<Message(calls[p])>> ELSE <<>>
                     /\ SentTable'[p] = IF IsSent(p)' THEN <<Message(calls[p])>> ELSE <<>>
  BY DEF Seen
<1>2. \A q \in Requests : /\ ReplyTable[q] = IF Answered(q) THEN <<Value(returned[q][1])>> ELSE <<>>
                          /\ ReplyTable'[q] = IF Answered(q)' THEN <<Value(returned[q][1])>> ELSE <<>>
  BY DEF Seen
<1>3. SentTable' = [p \in Ids |-> IF p \in new THEN <<Message(calls[p])>> ELSE SentTable[p]]
  <2>1. SentTable' = [p \in Ids |-> SentTable'[p]]
    BY DEF SentTable
  <2> QED BY <1>1, <2>1
<1>4. ReplyTable' = [q \in Requests |-> IF q \in told THEN <<Value(returned[q][1])>> ELSE ReplyTable[q]]
  <2>1. ReplyTable' = [q \in Requests |-> ReplyTable'[q]]
    BY DEF ReplyTable
  <2> QED BY <1>2, <2>1
<1>5. \A x : (Dataflow!Known(x) <=> Known(x, KnownIds)) /\ Dataflow!Value(x) = Value(x)
  BY DEF Dataflow!Known, Dataflow!Value, Known, Value, Result
<1>6. \A c : Dataflow!Message(c) = Message(c)
  BY <1>5 DEF Dataflow!Message, Message
<1>7. DOMAIN calls = Ids /\ Dataflow!Promises = Ids
  BY DEF Seen, Dataflow!Promises
<1>8. new \in SUBSET {p \in Ids : SentTable[p] = <<>> /\ Dataflow!Complete(calls[p])}
  BY <1>1, <1>5 DEF Seen, Dataflow!Complete
<1>9. told \in SUBSET {q \in Requests : ReplyTable[q] = <<>> /\ returned[q] # <<>> /\ Dataflow!Known(returned[q][1])}
  BY <1>2, <1>5 DEF Seen
<1> HIDE DEF new, told
<1>10. \E now \in SUBSET {p \in Dataflow!Promises : Dataflow!MaySend(p)} :
         SentTable' = [p \in Dataflow!Promises |->
                         IF p \in now THEN <<Dataflow!Message(calls[p])>> ELSE SentTable[p]]
  <2>1. new \in SUBSET {p \in Dataflow!Promises : Dataflow!MaySend(p)}
    BY <1>0, <1>7, <1>8 DEF Dataflow!MaySend
  <2>2. SentTable' = [p \in Dataflow!Promises |->
                        IF p \in new THEN <<Dataflow!Message(calls[p])>> ELSE SentTable[p]]
    BY <1>3, <1>6, <1>7
  <2> QED BY <2>1, <2>2
<1>11. \E now \in SUBSET {q \in Requests : Dataflow!MayReply(q)} :
         ReplyTable' = [q \in Requests |->
                          IF q \in now THEN <<Dataflow!Value(returned[q][1])>> ELSE ReplyTable[q]]
  BY <1>0, <1>4, <1>5, <1>9 DEF Dataflow!MayReply
<1> QED BY <1>0, <1>10, <1>11 DEF Dataflow!Fire

\* Code can only make calls that Dataflow knows.
LEMMA IsInput ==
  ASSUME Types
  PROVE  /\ \A t \in Holdable, args \in Arguments : CallOf(t, args) \in CallInputs
         /\ \A x \in Holdable : \E c \in CallInputs : c[1] = x
<1> DEFINE proms == {Prom(p) : p \in 1 .. MaxCalls}
<1>1. \A t \in Holdable : t \in proms \cup {Something}
  BY IdsAre DEF Holdable
<1>2. ASSUME NEW args \in Arguments PROVE args \in BoundedSeq(proms, MaxArgs)
  <2>1. PICK m \in 0 .. MaxArgs : args \in [1 .. m -> {Prom(p) : p \in Ids}]
    BY DEF Arguments, BoundedSeq, SeqOf
  <2>2. {Prom(p) : p \in Ids} \subseteq proms
    BY IdsAre
  <2>3. args \in [1 .. m -> proms]
    BY <2>1, <2>2
  <2> QED BY <2>3 DEF BoundedSeq, SeqOf
<1> DEFINE none == [i \in 1 .. 0 |-> Something]
<1>3. none \in BoundedSeq(proms, MaxArgs) /\ none \in Seq(proms)
  <2>1. none \in [1 .. 0 -> proms] /\ 0 \in 0 .. MaxArgs
    BY BoundAssumption
  <2>2. none \in BoundedSeq(proms, MaxArgs)
    BY <2>1 DEF BoundedSeq, SeqOf
  <2>3. none \in Seq(proms)
    BY <2>1
  <2> QED BY <2>2, <2>3
<1>4. CallInputs = {CallOf(t, args) : t \in proms \cup {Something}, args \in BoundedSeq(proms, MaxArgs)}
  BY DEF CallInputs, CallOf
<1> HIDE DEF none, proms
<1>5. \A t \in Holdable, args \in Arguments : CallOf(t, args) \in CallInputs
  BY <1>1, <1>2, <1>4
<1>6. ASSUME NEW x \in Holdable PROVE \E c \in CallInputs : c[1] = x
  <2>1. PICK c : c = CallOf(x, none)
    OBVIOUS
  <2>2. c \in CallInputs
    BY <1>1, <1>3, <1>4, <2>1
  <2>3. none \in Seq(proms \cup {x}) /\ x \in proms \cup {x}
    BY <1>3
  <2>4. (<<x>> \o none)[1] = x
    BY <2>3, InFront
  <2> QED BY <2>1, <2>2, <2>4 DEF CallOf
<1> QED BY <1>5, <1>6

\* A table that gets one more entry.
LEMMA AppendIs ==
  ASSUME NEW m \in Nat, NEW s, s = [i \in 1 .. m |-> s[i]],
         NEW u, u = [i \in 1 .. m + 1 |-> u[i]], \A i \in 1 .. m : u[i] = s[i]
  PROVE  u = Append(s, u[m + 1])
<1> DEFINE S == {u[i] : i \in 1 .. m + 1}
<1>1. s \in [1 .. m -> S] /\ u[m + 1] \in S
  <2>1. \A i \in 1 .. m : i \in 1 .. m + 1
    OBVIOUS
  <2>2. m + 1 \in 1 .. m + 1
    OBVIOUS
  <2>3. \A i \in 1 .. m + 1 : u[i] \in S
    OBVIOUS
  <2> HIDE DEF S
  <2>4. \A i \in 1 .. m : s[i] \in S
    BY <2>1, <2>3
  <2> QED BY <2>2, <2>3, <2>4
<1>2. \A i \in 1 .. m + 1 : i \in 1 .. m \/ i = m + 1
  OBVIOUS
<1> HIDE DEF S
<1>3. s \in Seq(S) /\ Len(s) = m
  BY <1>1
<1>4. PICK v : v = Append(s, u[m + 1])
  OBVIOUS
<1>5. /\ v \in Seq(S) /\ Len(v) = m + 1 /\ v[m + 1] = u[m + 1]
      /\ \A i \in 1 .. m : v[i] = s[i]
  BY <1>1, <1>3, <1>4
<1>6. v = [i \in 1 .. m + 1 |-> v[i]]
  BY <1>5
<1>7. \A i \in 1 .. m + 1 : v[i] = u[i]
  BY <1>2, <1>5
<1>8. v = u
  BY <1>6, <1>7
<1> QED BY <1>4, <1>8

\* A call is a Call: sent at once if complete.
LEMMA IsCall ==
  ASSUME Good, Seen, Seen', NEW t \in Holdable, NEW args \in Arguments, MessageNode(t, args)
  PROVE  \E c \in CallInputs : Dataflow!Call(c)
<1>0. PICK c, n : c = CallOf(t, args) /\ n = Len(calls)
  OBVIOUS
<1>1. /\ KnownIds' = KnownIds /\ calls' = Append(calls, c) /\ Ids' = 1 .. n + 1
      /\ \A r \in Ids : IsSent(r)' <=> IsSent(r)
      /\ replies' = replies /\ returned' = returned /\ c \in CallInputs
  <2>1. c \in CallInputs
    BY <1>0, IsInput DEF Good
  <2>2. replies' = replies /\ returned' = returned
    BY DEF MessageNode
  <2> QED BY <1>0, <2>1, <2>2, MessageNodeKeeps
<1>2. n \in Nat /\ Ids = 1 .. n
  BY <1>0, IdsAre DEF Good
<1>3. calls'[n + 1] = c /\ \A p \in Ids : calls'[p] = calls[p]
  <2>1. calls \in Seq(Seq(Items(MaxCalls))) /\ DOMAIN calls = Ids
    BY IdsAre DEF Good, Types
  <2>2. c \in Seq(Items(MaxCalls))
    BY <1>0, CallFacts DEF Good
  <2> QED BY <1>0, <1>1, <2>1, <2>2, OneMore
<1>4. /\ SentTable = [p \in Ids |-> SentFor(p)]
      /\ SentTable' = [p \in Ids |-> SentFor(p)]'
  BY DEF SentTable
<1>5. /\ SentTable = [p \in 1 .. n |-> SentTable[p]]
      /\ SentTable' = [p \in 1 .. n + 1 |-> SentTable'[p]]
      /\ \A p \in 1 .. n : SentTable'[p] = SentTable[p]
      /\ SentTable'[n + 1] = IF IsSent(n + 1)' THEN <<Message(c)>> ELSE <<>>
  <2>1. SentTable = [p \in Ids |-> IF IsSent(p) THEN <<Message(calls[p])>> ELSE <<>>]
    BY DEF Seen
  <2>2. SentTable' = [p \in Ids' |-> IF IsSent(p)' THEN <<Message(calls'[p])>> ELSE <<>>]
    BY DEF Seen
  <2>3. SentTable = [p \in 1 .. n |-> SentTable[p]] /\ SentTable' = [p \in 1 .. n + 1 |-> SentTable'[p]]
    BY <1>1, <1>2, <2>1, <2>2
  <2>4. ASSUME NEW p \in 1 .. n PROVE SentTable'[p] = SentTable[p]
    <3>1. p \in 1 .. n + 1
      BY <1>2
    <3> QED BY <1>1, <1>2, <1>3, <2>1, <2>2, <3>1
  <2>5. SentTable'[n + 1] = IF IsSent(n + 1)' THEN <<Message(c)>> ELSE <<>>
    <3>1. n + 1 \in 1 .. n + 1
      BY <1>2
    <3> QED BY <1>1, <1>3, <2>2, <3>1
  <2> QED BY <2>3, <2>4, <2>5
<1>6. SentTable' = Append(SentTable, SentTable'[n + 1])
  <2>1. PICK s, u : s = SentTable /\ u = SentTable'
    OBVIOUS
  <2>2. /\ s = [p \in 1 .. n |-> s[p]] /\ u = [p \in 1 .. n + 1 |-> u[p]]
        /\ \A p \in 1 .. n : u[p] = s[p]
    BY <1>5, <2>1
  <2>3. /\ n \in Nat
        /\ s = [i \in 1 .. n |-> s[i]] /\ u = [i \in 1 .. n + 1 |-> u[i]]
        /\ \A i \in 1 .. n : u[i] = s[i]
    BY <1>2, <2>2
  <2>4. u = Append(s, u[n + 1])
    BY <2>3, AppendIs
  <2> QED BY <2>1, <2>4
<1>7. \A x : (Dataflow!Known(x) <=> Known(x, KnownIds)) /\ Dataflow!Value(x) = Value(x)
  BY DEF Dataflow!Known, Dataflow!Value, Known, Value, Result
<1>8. Dataflow!Message(c) = Message(c)
  BY <1>7 DEF Dataflow!Message, Message
<1>9. \/ SentTable' = Append(SentTable, <<>>)
      \/ Dataflow!Complete(c) /\ SentTable' = Append(SentTable, <<Dataflow!Message(c)>>)
  <2>1. CASE ~ IsSent(n + 1)'
    BY <1>5, <1>6, <2>1
  <2>2. CASE IsSent(n + 1)'
    <3>1. n + 1 \in Ids'
      BY <1>1, <1>2
    <3>2. \A i \in DOMAIN calls'[n + 1] : Known(calls'[n + 1][i], KnownIds')
      BY <2>2, <3>1 DEF Seen
    <3>3. Dataflow!Complete(c)
      BY <1>1, <1>3, <1>7, <3>2 DEF Dataflow!Complete
    <3> QED BY <1>5, <1>6, <1>8, <2>2, <3>3
  <2> QED BY <2>1, <2>2
<1>10. [q \in Requests |-> RepliesTo(q)]' = [q \in Requests |-> RepliesTo(q)]
  BY <1>1 DEF RepliesTo
<1>11. Dataflow!Call(c)
  BY <1>1, <1>4, <1>9, <1>10 DEF Dataflow!Call
<1> QED BY <1>1, <1>11

\* A result is a Learn.
LEMMA IsLearn ==
  ASSUME Good, Seen, NEW i \in DOMAIN out, HandleResponse(out[i])
  PROVE  \E p \in Dataflow!Promises : Dataflow!Learn(p)
<1>0. PICK p : p = out[i].prom
  OBVIOUS
<1>1. KnownIds' = KnownIds \cup {p} /\ p \in Ids
  BY <1>0, HandleResponseKeeps
<1>2. ~ Resolved(p) /\ IsSent(p) /\ UNCHANGED <<out, replies, calls, returned>> /\ DOMAIN promises' = DOMAIN promises
  <2>1. ~ Resolved(p) /\ UNCHANGED <<out, replies, calls, returned>>
    BY <1>0 DEF HandleResponse
  <2>2. DOMAIN promises' = DOMAIN promises
    BY DEF HandleResponse
  <2> QED BY <1>0, <2>1, <2>2 DEF IsSent
<1>3. /\ [r \in Ids |-> SentFor(r)]' = [r \in Ids |-> SentFor(r)]
      /\ [q \in Requests |-> RepliesTo(q)]' = [q \in Requests |-> RepliesTo(q)]
  BY <1>2 DEF SentFor, RepliesTo, Ids
<1>4. p \notin KnownIds /\ p \in Dataflow!Promises
  BY <1>1, <1>2 DEF KnownIds, Seen, Dataflow!Promises
<1>5. SentTable[p] # <<>> /\ SentTable = [r \in Ids |-> SentFor(r)]
  <2>1. SentTable[p] = <<Message(calls[p])>>
    BY <1>1, <1>2 DEF Seen
  <2>2. <<Message(calls[p])>> # <<>>
    OBVIOUS
  <2> QED BY <2>1, <2>2 DEF SentTable
<1>6. Dataflow!Learn(p)
  BY <1>1, <1>2, <1>3, <1>4, <1>5 DEF Dataflow!Learn
<1> QED BY <1>4, <1>6

\* The end of a handler is a Return.
LEMMA IsReturn ==
  ASSUME Good, Seen, Seen', NEW x \in Holdable, Return(x)
  PROVE  \E q \in Requests, c \in CallInputs : Dataflow!Return(q, c[1])
<1>0. PICK q : q = current
  OBVIOUS
<1>1. /\ q \in Requests /\ returned[q] = <<>> /\ returned' = [returned EXCEPT ![q] = <<x>>]
      /\ UNCHANGED <<out, calls>> /\ DOMAIN promises' = DOMAIN promises
      /\ IsProm(x) => replies' = replies
  <2>1. at = "request" /\ Place
    BY DEF Good, Return
  <2>2. q \in Requests /\ returned[q] = <<>>
    BY <1>0, <2>1 DEF Place
  <2>3. /\ returned' = [returned EXCEPT ![q] = <<x>>]
        /\ UNCHANGED <<out, calls>> /\ DOMAIN promises' = DOMAIN promises
        /\ IsProm(x) => replies' = replies
    BY <1>0 DEF Return
  <2> QED BY <2>2, <2>3
<1>2. PICK c \in CallInputs : c[1] = x
  BY IsInput DEF Good
<1>3. [r \in Ids |-> SentFor(r)]' = [r \in Ids |-> SentFor(r)]
  BY <1>1 DEF SentFor, Ids
<1>4. KnownIds' = KnownIds
  BY ReturnValueKeeps, ReturnPromiseKeeps
<1>5. CASE IsProm(x)
  <2>1. [r \in Requests |-> RepliesTo(r)]' = [r \in Requests |-> RepliesTo(r)]
    BY <1>1, <1>5 DEF RepliesTo
  <2>2. Dataflow!Return(q, x)
    BY <1>1, <1>3, <1>4, <2>1 DEF Dataflow!Return
  <2> QED BY <1>1, <1>2, <2>2
<1>6. CASE ~ IsProm(x)
  <2>1. \A r : Answered(r)' <=> r = q \/ Answered(r)
    BY <1>0, <1>6, ReturnValueKeeps
  <2>2. returned'[q] = <<x>> /\ \A r \in Requests : r # q => returned'[r] = returned[r]
    BY <1>1, ReturnedTypes DEF Good
  <2>3. /\ ReplyTable = [r \in Requests |-> IF Answered(r) THEN <<Value(returned[r][1])>> ELSE <<>>]
        /\ ReplyTable' = [r \in Requests |-> IF Answered(r)' THEN <<Value(returned'[r][1])>> ELSE <<>>]
    BY DEF Seen
  <2>4. PICK v : v = <<Value(x)>>
    OBVIOUS
  <2>5. ReplyTable' = [ReplyTable EXCEPT ![q] = v]
    <3>1. ReplyTable'[q] = v /\ \A r \in Requests : r # q => ReplyTable'[r] = ReplyTable[r]
      <4>1. returned'[q][1] = x
        BY <2>2
      <4> QED BY <1>1, <2>1, <2>2, <2>3, <2>4, <4>1
    <3>2. ReplyTable = [r \in Requests |-> ReplyTable[r]] /\ ReplyTable' = [r \in Requests |-> ReplyTable'[r]]
      BY DEF ReplyTable
    <3> QED BY <1>1, <3>1, <3>2
  <2>6. Dataflow!Known(x) /\ Dataflow!Value(x) = Value(x)
    BY <1>6 DEF Dataflow!Known, Dataflow!Value, Value
  <2>7. Dataflow!Return(q, x)
    BY <1>1, <1>3, <1>4, <2>4, <2>5, <2>6 DEF Dataflow!Return, ReplyTable
  <2> QED BY <1>1, <1>2, <2>7
<1> QED BY <1>5, <1>6

\* Notify and EndResponse are a Fire, callbacks stutter.
LEMMA DataflowStep ==
  ASSUME SeenInv, SeenInv', [Next]_vars
  PROVE  [Dataflow!Next]_(Dataflow!vars)
<1>1. ASSUME UNCHANGED <<promises, out, replies, calls, returned>>
      PROVE  UNCHANGED Dataflow!vars
  <2>1. Ids' = Ids /\ KnownIds' = KnownIds
    BY <1>1 DEF Ids, KnownIds, Resolved
  <2>2. /\ [p \in Ids |-> SentFor(p)]' = [p \in Ids |-> SentFor(p)]
        /\ [q \in Requests |-> RepliesTo(q)]' = [q \in Requests |-> RepliesTo(q)]
    BY <1>1, <2>1 DEF SentFor, RepliesTo
  <2> QED BY <1>1, <2>1, <2>2 DEF Dataflow!vars
<1>2. CASE UNCHANGED vars
  BY <1>1, <1>2 DEF vars, vatVars
<1>3. CASE Next
  <2>1. at # "dead"
    BY <1>3 DEF Next, Code, MessageNode, OnPromise, Running, Return, ReturnNothing, EndCallback,
      EndCallbacks, Notify, EndResponse, HandleRequest, HandleResponse
  <2>2. Good /\ Seen
    BY <2>1 DEF SeenInv, EvalInv
  <2>3. at' # "dead" => Good' /\ Seen'
    BY DEF SeenInv, EvalInv
  <2>4. ASSUME NEW t \in Holdable, NEW args \in Arguments, MessageNode(t, args) PROVE Dataflow!Next
    <3>1. at' # "dead"
      BY <2>1, <2>4 DEF MessageNode
    <3>2. \E c \in CallInputs : Dataflow!Call(c)
      BY <2>2, <2>3, <2>4, <3>1, IsCall
    <3> QED BY <3>2 DEF Dataflow!Next
  <2>5. ASSUME NEW p \in Ids, OnPromise(p) PROVE UNCHANGED Dataflow!vars
    <3>1. CASE at' = "dead"
      <4>1. UNCHANGED <<promises, out, replies, calls, returned>>
        BY <2>1, <2>5, <3>1 DEF OnPromise
      <4> QED BY <1>1, <4>1
    <3>2. CASE at' # "dead"
      <4>1. UNCHANGED <<out, replies, calls, returned>> /\ DOMAIN promises' = DOMAIN promises
        BY <2>5 DEF OnPromise
      <4>2. KnownIds' = KnownIds /\ Ids' = Ids
        BY <2>2, <2>5, <3>2, <4>1, OnPromiseKeeps DEF Ids
      <4>3. /\ [r \in Ids |-> SentFor(r)]' = [r \in Ids |-> SentFor(r)]
            /\ [q \in Requests |-> RepliesTo(q)]' = [q \in Requests |-> RepliesTo(q)]
        BY <4>1, <4>2 DEF SentFor, RepliesTo
      <4> QED BY <4>1, <4>2, <4>3 DEF Dataflow!vars
    <3> QED BY <3>1, <3>2
  <2>6. ASSUME NEW x \in Holdable, Return(x) PROVE Dataflow!Next
    <3>1. at' # "dead"
      BY <2>6 DEF Return
    <3>2. \E q \in Requests, c \in CallInputs : Dataflow!Return(q, c[1])
      BY <2>2, <2>3, <2>6, <3>1, IsReturn
    <3> QED BY <3>2 DEF Dataflow!Next
  <2>7. ASSUME ReturnNothing \/ EndCallback \/ EndCallbacks \/ \E q \in Requests : HandleRequest(q)
        PROVE  UNCHANGED Dataflow!vars
    <3>1. UNCHANGED <<promises, out, replies, calls, returned>>
      BY <2>7 DEF ReturnNothing, EndCallback, EndCallbacks, HandleRequest, vatVars
    <3> QED BY <1>1, <3>1
  <2>8. ASSUME Notify PROVE Dataflow!Next
    <3>1. /\ at' # "dead" /\ UNCHANGED <<promises, replies, calls, returned>>
      BY <2>1, <2>8 DEF Notify
    <3>2. Ids' = Ids /\ \A q : Answered(q)' <=> Answered(q)
      BY <3>1 DEF Ids, Answered
    <3>3. KnownIds' = KnownIds /\ \A r : IsSent(r) => IsSent(r)'
      BY <2>2, <2>8, NotifyKeeps
    <3>4. Dataflow!Fire
      BY <2>2, <2>3, <3>1, <3>2, <3>3, IsFire
    <3> QED BY <3>4 DEF Dataflow!Next
  <2>9. ASSUME EndResponse PROVE Dataflow!Next
    <3>1. /\ at' # "dead" /\ UNCHANGED <<promises, out, calls, returned>>
      BY <2>9 DEF EndResponse
    <3>2. Ids' = Ids /\ \A r : IsSent(r)' <=> IsSent(r)
      BY <3>1 DEF Ids, IsSent
    <3>3. KnownIds' = KnownIds /\ \A q : Answered(q) => Answered(q)'
      BY <2>2, <2>9, EndResponseKeeps
    <3>4. Dataflow!Fire
      BY <2>2, <2>3, <3>1, <3>2, <3>3, IsFire
    <3> QED BY <3>4 DEF Dataflow!Next
  <2>10. ASSUME NEW i \in DOMAIN out, HandleResponse(out[i]) PROVE Dataflow!Next
    <3>1. \E p \in Dataflow!Promises : Dataflow!Learn(p)
      BY <2>2, <2>10, IsLearn
    <3> QED BY <3>1 DEF Dataflow!Next
  <2> QED BY <1>3, <2>4, <2>5, <2>6, <2>7, <2>8, <2>9, <2>10 DEF Next, Code
<1> QED BY <1>2, <1>3

\* Every behaviour of promises, callbacks and dependents is one of Dataflow: a
\* call is sent at most once, when all it waits for is known and with those
\* values; a request is answered at most once, with the value of what its
\* handler returned (hylic_eval.cpp:95-153, 185-282).
THEOREM EvaluatorImplementsDataflow == Spec => ImplementsDataflow
<1>1. Init => Dataflow!Init
  BY DataflowInit
<1>2. EvalInv => SeenInv
  BY GoodIsSeen
<1>3. SeenInv /\ SeenInv' /\ [Next]_vars => [Dataflow!Next]_(Dataflow!vars)
  BY DataflowStep
<1> QED BY <1>1, <1>2, <1>3, EvaluatorIsGood, PTL DEF Spec, ImplementsDataflow, Dataflow!Spec
=============================================================================
