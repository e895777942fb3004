------------------------------- MODULE Hylic --------------------------------
\* The language of the archive: the type and purity checker (typesolve_sub)
\* against the evaluator (eval, eval_block, eval_func_local).  A behaviour
\* loads one function "f" that the checker accepts, beside functions that are
\* fixed, and then handles requests to one entity.
\*
\* A node of the tree is a record with a field "op"; values are nodes that
\* evaluate to themselves.  The tree is shared and mutable as in the code: a
\* list literal is its own storage, named by "at", and lives in heap.  Fields
\* the code never sets (the ctype of most nodes) are the type "junk", which may
\* match any other.  Strings, entities as targets other than self, and
\* promises as targets or arguments (module PromiseEval) are left out.
EXTENDS Naturals, Sequences, FiniteSets, SequencesExt

CONSTANTS
  Candidates,  \* the functions "f" may be, before the checker sees them
  Fixed,       \* the other functions of the entity, by name
  Keepers,     \* the function "keep", which stores what "f" gives, by the type of f
  Data,        \* the variables of the entity: the type of each name
  Requests,    \* what is asked: records of a name and arguments
  MaxRequests, \* bound: requests in a behaviour
  MaxRounds    \* bound: rounds of a loop; one that goes on is taken to hang

VARIABLES
  f,       \* the function that was loaded
  data,    \* Entity::data: the value of each variable
  heap,    \* what each list holds
  mail,    \* messages and calls that wait, put out so far
  made,    \* entities created so far
  stopped, \* an assertion or an exception brought the node down, or a value was
           \* cast to a type that it has not: nothing is said of what follows
  handled, \* how many requests were
  last     \* the request handled last and its answer, lists written out

entityVars == <<data, heap, mail, made>>
vars == <<f, entityVars, stopped, handled, last>>

Nothing == [other |-> "nothing"]
Names == DOMAIN Fixed \cup {"f", "keep"}
Fun(name) ==
  CASE name = "f" -> f [] name = "keep" -> Keepers[f.type] [] OTHER -> Fixed[name]

\* ------------------------------------------------------------- the checker
Lists == {"list", "empty", "junkList", "index"}

\* exact_match, where a field that was never set may hold whatever fits.
MayMatch(a, b) ==
  \/ a = b \/ "junk" \in {a, b}
  \/ {a, b} \subseteq Lists /\ {a, b} \cap {"junkList", "index"} # {}

Bad == [ok |-> FALSE, type |-> "junk", scopes |-> <<>>]

Knows(scopes, sym) == \E i \in DOMAIN scopes : sym \in DOMAIN scopes[i]
Innermost(scopes, sym) ==
  CHOOSE i \in DOMAIN scopes :
    /\ sym \in DOMAIN scopes[i]
    /\ \A j \in DOMAIN scopes : j > i => sym \notin DOMAIN scopes[j]
TypeOf(scopes, sym) == scopes[Innermost(scopes, sym)][sym]
PutIn(scope, sym, x) == [s \in {sym} \cup DOMAIN scope |-> IF s = sym THEN x ELSE scope[s]]

\* The type of a list literal comes from its first element, if that one
\* carries a type.
LiteralType(items) ==
  IF items = <<>> THEN "empty" ELSE IF "num" \in DOMAIN items[1] THEN "list" ELSE "junkList"

\* Whether a pure function may do it.
SymbolAllowedAlways(sym, pure) == TRUE
SymbolAllowed(sym, pure) == ~(pure /\ sym \in DOMAIN Data)
CallAllowed(fun, mode, pure) == ~(pure /\ (~fun.pure \/ mode = "async"))

\* Broken variant: the loop begins at the second argument.
ComparedFromSecond(n) == {i \in DOMAIN n.args : i % 2 = 0}

\* Only every second argument is compared: the loop steps twice.
Compared(n) == {i \in DOMAIN n.args : i % 2 = 1}

\* What a loop may run over: the checker reads the subtype without a look at
\* the type itself.  What it finds there is junk if the type has none, and
\* brings the checker down if there is no type at all.
Iterable(type) == type # "none"

ValueFitsAny(left, right) == TRUE
ValueFits(left, right) == MayMatch(left, right) \/ (left \in Lists /\ right = "empty")

RECURSIVE Solve(_, _, _)
SolveAll(nodes, scopes, pure) ==
  FoldLeft(LAMBDA r, n : IF r.ok THEN Solve(n, r.scopes, pure) ELSE r,
           [ok |-> TRUE, type |-> "none", scopes |-> scopes], nodes)

Solve(n, scopes, pure) ==
  LET Typed(t) == [ok |-> TRUE, type |-> t, scopes |-> scopes]
      TypeIf(cond, t) == IF cond THEN Typed(t) ELSE Bad
      In(m) == Solve(m, scopes, pure)
  IN CASE "num" \in DOMAIN n -> Typed("u8")
       [] n.op = "sym" ->
            IF SymbolAllowed(n.name, pure) /\ Knows(scopes, n.name)
            THEN Typed(TypeOf(scopes, n.name)) ELSE Bad
       [] n.op = "bool" -> Typed("junk")
       [] n.op = "list" -> Typed(LiteralType(n.items))
       [] n.op = "range" -> Typed("list")
       [] n.op = "new" -> Typed("entity")
       [] n.op \in {"append", "len"} -> Typed("none")
       [] n.op = "plus" ->
            LET l == In(n.term2) r == In(n.term1)
            IN TypeIf(l.ok /\ r.ok /\ MayMatch(l.type, r.type), l.type)
       [] n.op = "index" ->
            LET l == In(n.of) IN TypeIf(l.ok, IF l.type \in Lists THEN "index" ELSE l.type)
       [] n.op = "call" ->
            LET fun == Fun(n.name)
            IN TypeIf(/\ CallAllowed(fun, n.mode, pure)
                      /\ Len(fun.params) = Len(n.args)
                      /\ \A i \in Compared(n) :
                           In(n.args[i]).ok /\ MayMatch(fun.params[i].type, In(n.args[i]).type),
                      IF n.mode = "async" THEN "promise" ELSE fun.type)
       [] n.op = "assign" ->
            LET left == IF Knows(scopes, n.sym) THEN TypeOf(scopes, n.sym) ELSE n.type
                right == In(n.value)
            IN IF SymbolAllowed(n.sym, pure) /\ right.ok /\ ValueFits(left, right.type)
               THEN [Typed(left) EXCEPT !.scopes[Len(scopes)] = PutIn(@, n.sym, left)]
               ELSE Bad
       [] n.op = "return" -> In(n.value)
       [] n.op = "match" -> SolveAll(<<n.on, n.case>> \o n.body, scopes, pure)
       [] n.op = "while" -> SolveAll(<<n.cond>> \o n.body, scopes, pure)
       [] n.op = "for" ->
            LET list == In(n.generator)
                item == IF list.type = "list" THEN "u8" ELSE IF list.type = "empty" THEN "none" ELSE "junk"
                body == SolveAll(n.body, Append(scopes, [s \in {n.sym} |-> item]), pure)
            IN TypeIf(list.ok /\ Iterable(list.type) /\ body.ok, "none")

\* FuncStmt: the variables of the entity, then the parameters, then the body,
\* statement by statement.  What a return at the top of the body gives must
\* match the type of the function.
Position(fun, p) == CHOOSE i \in DOMAIN fun.params : fun.params[i].name = p
Params(fun) == {fun.params[i].name : i \in DOMAIN fun.params}
Solved(fun, n) ==
  SolveAll(SubSeq(fun.body, 1, n),
           <<Data, [p \in Params(fun) |-> fun.params[Position(fun, p)].type]>>, fun.pure)
SolveFunction(fun) ==
  LET returns == {i \in DOMAIN fun.body : fun.body[i].op = "return"}
  IN /\ Solved(fun, Len(fun.body)).ok
     /\ \A i \in returns : MayMatch(Solved(fun, i).type, fun.type)
     /\ returns = {} => fun.type = "void"

\* ----------------------------------------------------------- the evaluator
\* What an evaluation works on: the scopes of the current frame, the state of
\* the vat, whether all went well, and the value (or the values, of a sequence).
Number(v) == "num" \in DOMAIN v
Boolean(v) == "bool" \in DOMAIN v
List(v) == "list" \in DOMAIN v
Nop == [other |-> "nop"]
Numbers2(vals) == Number(vals[1]) /\ Number(vals[2])

Give(st, v) == [st EXCEPT !.val = v]
Abort(st) == [st EXCEPT !.fine = FALSE, !.val = Nothing]
GiveIf(st, cond, v) == IF cond THEN Give(st, v) ELSE Abort(st)
PushScope(st, scope) == [st EXCEPT !.scopes = Append(@, scope)]
PopScope(st) == [st EXCEPT !.scopes = Front(@)]
NewList(st, items) ==
  LET n == CHOOSE i \in 0..Cardinality(DOMAIN st.heap) : <<"new", i>> \notin DOMAIN st.heap
  IN [st EXCEPT !.heap = PutIn(@, <<"new", n>>, items), !.val = [list |-> <<"new", n>>]]

\* Assignment: into the scope, or the entity, that has the name already.
Store(st, sym, v) ==
  IF Knows(st.scopes, sym) THEN [st EXCEPT !.scopes[Innermost(st.scopes, sym)][sym] = v, !.val = v]
  ELSE IF sym \in DOMAIN Data THEN [st EXCEPT !.data[sym] = v, !.val = v]
  ELSE [st EXCEPT !.scopes[Len(st.scopes)] = PutIn(@, sym, v), !.val = v]

\* What a node evaluates before it does anything, from left to right.
Operands(n) ==
  CASE n.op \in {"plus", "bool"} -> <<n.term1, n.term2>>
    [] n.op = "range" -> <<n.from, n.to>>
    [] n.op = "index" -> <<n.of, n.at>>
    [] n.op \in {"call", "append", "len"} -> n.args
    [] n.op \in {"assign", "return"} -> <<n.value>>
    [] n.op = "match" -> <<n.on, n.case>>
    [] n.op = "for" -> <<n.generator>>
    [] OTHER -> <<>>

RECURSIVE Eval(_, _)
\* The values of a sequence of nodes; the value of one.
Also(s, vals) == IF s.fine THEN [s EXCEPT !.val = Append(vals, @)] ELSE s
EvalAll(nodes, st) ==
  FoldLeft(LAMBDA s, n : IF s.fine THEN Also(Eval(n, s), s.val) ELSE s, Give(st, <<>>), nodes)
Only(s) == IF s.fine THEN Give(s, s.val[1]) ELSE s
EvalOne(n, st) == Only(EvalAll(<<n>>, st))

\* eval_block: a scope, the statements.  A return among them ends this block
\* with its value, and leaves the scope behind; any other end gives nothing.
ReturnsOf(block) == {i \in DOMAIN block : block[i].op = "return"}
UntilReturn(block) ==
  IF ReturnsOf(block) = {} THEN block
  ELSE LET i == CHOOSE i \in ReturnsOf(block) : \A j \in ReturnsOf(block) : i <= j
       IN Append(SubSeq(block, 1, i - 1), block[i].value)
EndBlock(block, s) ==
  IF ~s.fine THEN s
  ELSE IF ReturnsOf(block) # {} THEN Give(s, Last(s.val)) ELSE Give(PopScope(s), Nop)
EvalBlock(block, scope, st) == EndBlock(block, EvalAll(UntilReturn(block), PushScope(st, scope)))

\* eval_func_local: the arguments are evaluated once more, the body in a frame
\* of its own.
InFrame(fun, caller, a) ==
  IF ~a.fine \/ Len(a.val) # Len(fun.params) THEN Abort(a)
  ELSE LET scope == [p \in Params(fun) |-> a.val[Position(fun, p)]]
       IN [EvalBlock(fun.body, scope, [a EXCEPT !.scopes = <<<<>>>>]) EXCEPT !.scopes = caller]
EvalFunction(fun, args, st) == InFrame(fun, st.scopes, EvalAll(args, st))

\* A list keeps its elements evaluated: a literal is changed in the tree.
SetList(at, s) == IF s.fine THEN [s EXCEPT !.heap[at] = s.val, !.val = [list |-> at]] ELSE s

\* for: the length of the list is read in every round.
RECURSIVE EvalFor(_, _, _, _), EvalWhile(_, _, _)
ForBody(n, s) == EvalBlock(n.body, [sym \in {n.sym} |-> s.val], s)
EvalFor(n, at, i, st) ==
  IF ~st.fine THEN st
  ELSE IF i \notin DOMAIN st.heap[at] THEN Give(st, Nop)
  ELSE IF i > MaxRounds THEN Abort(st)
  ELSE EvalFor(n, at, i + 1, ForBody(n, EvalOne(st.heap[at][i], st)))

WhileBody(n, i, s) ==
  IF s.fine /\ Boolean(s.val) /\ (s.val.bool => i <= MaxRounds)
  THEN IF s.val.bool THEN EvalWhile(n, i + 1, EvalBlock(n.body, <<>>, s)) ELSE Give(s, Nop)
  ELSE Abort(s)
EvalWhile(n, i, st) == IF st.fine THEN WhileBody(n, i, EvalOne(n.cond, st)) ELSE st

\* match, with one case: the value of its block.
EvalMatch(n, on, case, st) ==
  IF List(on) \/ DOMAIN on # DOMAIN case THEN Abort(st)
  ELSE IF on = case THEN EvalBlock(n.body, <<>>, st) ELSE Give(st, Nop)

\* A new entity of the same kind: its create runs on data of its own.
CreateOf(st) == EvalFunction(Fun("create"), <<>>, [st EXCEPT !.made = @ + 1])
BackFrom(st, s) ==
  IF s.fine THEN [s EXCEPT !.data = st.data, !.val = [other |-> "entity"]] ELSE s

\* What a node does with the values v of its operands.  Of messages, builtins
\* come before the target is looked at; the others go by the mode.
Apply(n, st, v) ==
  CASE n.op = "sym" ->
         IF Knows(st.scopes, n.name) THEN Give(st, TypeOf(st.scopes, n.name))
         ELSE GiveIf(st, n.name \in DOMAIN Data, st.data[n.name])
    [] n.op = "assign" -> Store(st, n.sym, v[1])
    [] n.op = "plus" -> GiveIf(st, Numbers2(v), [num |-> v[1].num + v[2].num])
    [] n.op = "bool" ->
         GiveIf(st, Numbers2(v),
                [bool |-> IF n.rel = "less" THEN v[1].num < v[2].num ELSE v[1].num = v[2].num])
    [] n.op = "index" ->
         GiveIf(st, List(v[1]) /\ Number(v[2]) /\ v[2].num < Len(st.heap[v[1].list]),
                st.heap[v[1].list][v[2].num + 1])
    [] n.op = "range" ->
         IF Numbers2(v)
         THEN NewList(st, [i \in 1..(v[2].num - v[1].num) |-> [num |-> v[1].num + i - 1]])
         ELSE Abort(st)
    [] n.op = "append" ->
         IF List(v[1]) THEN [st EXCEPT !.heap[v[1].list] = Append(@, v[2]), !.val = Nop] ELSE Abort(st)
    [] n.op = "len" -> GiveIf(st, List(v[1]), [num |-> Len(st.heap[v[1].list])])
    [] n.op = "call" ->
         IF n.mode = "async" THEN [st EXCEPT !.mail = @ + 1, !.val = [other |-> "promise"]]
         ELSE EvalFunction(Fun(n.name), v, st)
    [] n.op = "new" -> BackFrom(st, CreateOf(st))
    [] n.op = "match" -> EvalMatch(n, v[1], v[2], st)
    [] n.op = "for" -> IF List(v[1]) THEN EvalFor(n, v[1].list, 1, st) ELSE Abort(st)
    [] n.op = "while" -> EvalWhile(n, 1, st)
ApplyTo(n, s) == IF s.fine THEN Apply(n, s, s.val) ELSE s

Eval(n, st) ==
  IF List(n) THEN SetList(n.list, EvalAll(st.heap[n.list], st))
  ELSE IF "op" \notin DOMAIN n THEN Give(st, n)
  ELSE IF n.op = "list" THEN SetList(n.at, EvalAll(st.heap[n.at], st))
  ELSE ApplyTo(n, EvalAll(Operands(n), st))

\* -------------------------------------------------------------- the entity
\* The nodes right below a node, those below it, and those of them that the
\* checker does not look at.
Kids(n) ==
  CASE "op" \notin DOMAIN n -> <<>>
    [] n.op = "list" -> n.items
    [] n.op = "while" -> <<n.cond>> \o n.body
    [] n.op \in {"for", "match"} -> Operands(n) \o n.body
    [] OTHER -> Operands(n)
RECURSIVE Below(_)
Below(n) == {n} \cup UNION {Below(Kids(n)[i]) : i \in DOMAIN Kids(n)}
Nodes(fun) == UNION {Below(fun.body[i]) : i \in DOMAIN fun.body}
Of(fun, ops) == {n \in Nodes(fun) : "op" \in DOMAIN n /\ n.op \in ops}

RECURSIVE Reach(_, _), Written(_, _)
Reach(v, h) ==
  IF List(v) THEN {v.list} \cup UNION {Reach(h[v.list][i], h) : i \in DOMAIN h[v.list]} ELSE {}
\* A value with its lists written out.
Written(v, h) ==
  IF List(v) THEN [items |-> [i \in DOMAIN h[v.list] |-> Written(h[v.list][i], h)]] ELSE v

Literals == UNION {Of(Fun(name), {"list"}) : name \in Names}
Kept(s) ==
  LET sites == {l.at : l \in Literals}
      roots == {[list |-> a] : a \in sites} \cup {s.data[sym] : sym \in DOMAIN Data}
      kept == UNION {Reach(v, s.heap) : v \in roots}
  IN [a \in kept |-> s.heap[a]]

State(d, h, m, n) ==
  [scopes |-> <<>>, data |-> d, heap |-> h, mail |-> m, made |-> n, fine |-> TRUE, val |-> Nothing]

\* The entity after its creation, from the tree as it was parsed.
Created ==
  LET unset == [sym \in DOMAIN Data |-> Nothing]
      tree == [a \in {l.at : l \in Literals} |-> (CHOOSE l \in Literals : l.at = a).items]
  IN EvalFunction(Fun("create"), <<>>, State(unset, tree, 0, 1))

\* load_file accepts the functions, and the entity is created.
Init ==
  /\ f \in Candidates
  /\ SolveFunction(f) /\ \A name \in Names : SolveFunction(Fun(name))
  /\ \E s \in {Created} : data = s.data /\ heap = s.heap
  /\ mail = 0 /\ made = 1
  /\ stopped = FALSE /\ handled = 0
  /\ last = [request |-> Nothing, answer |-> Nothing]

\* create_response: what may be an answer.
Answerable(v) == Number(v) \/ List(v) \/ v = [other |-> "entity"]

\* A request, from start to answer: nothing else runs in the vat meanwhile.
Handle(r) ==
  /\ ~stopped /\ handled < MaxRequests
  /\ handled' = handled + 1 /\ UNCHANGED f
  /\ \E s \in {EvalFunction(Fun(r.name), r.args, State(data, heap, mail, made))} :
       \/ /\ s.fine /\ Answerable(s.val)
          /\ data' = s.data /\ heap' = Kept(s) /\ mail' = s.mail /\ made' = s.made
          /\ last' = [request |-> r, answer |-> Written(s.val, s.heap)]
          /\ UNCHANGED stopped
       \/ /\ ~(s.fine /\ Answerable(s.val))
          /\ stopped' = TRUE /\ UNCHANGED <<entityVars, last>>

\* Functions that return nothing are called from others, never by a request:
\* that is known to panic (module KernelBoot, PanicsAreKnown).
Next == \E r \in Requests : Fun(r.name).type # "void" /\ Handle(r)
Spec == Init /\ [][Next]_vars

\* -------------------------------------------------------------- properties
\* What the checker passes over: the nodes it does not visit.
Unseen(n) ==
  CASE "op" \notin DOMAIN n -> {}
    [] n.op \in {"bool", "list", "range", "append", "len"} -> ToSet(Kids(n))
    [] n.op = "index" -> {n.at}
    [] n.op = "call" -> {n.args[i] : i \in {j \in DOMAIN n.args : j % 2 = 0}}
    [] OTHER -> {}
UnseenIn(fun) == UNION {UNION {Below(m) : m \in Unseen(n)} : n \in Nodes(fun)}

Impure(n) ==
  /\ "op" \in DOMAIN n
  /\ \/ n.op = "sym" /\ n.name \in DOMAIN Data
     \/ n.op = "call" /\ (n.mode = "async" \/ ~Fun(n.name).pure)

\* The ways a function marked as pure may have effects all the same: in a part
\* the checker does not visit, through a list it shares with others (a literal
\* of the tree, or one that append changes), or by making an entity.
PurityHole(fun) ==
  \/ \E n \in UnseenIn(fun) : Impure(n)
  \/ Of(fun, {"append", "list", "new"}) # {}

\* Calls of a pure function alone: "keep" is one if there is nothing to keep.
OnlyCallsF(r) == r.name = "f" \/ (r.name = "keep" /\ f.type = "void")
AnswerIn(s) == Written(s.val, s.heap)
FirstAnswer(r) == AnswerIn(EvalFunction(Fun(r.name), r.args, Created))

\* A call of a pure function ("Attempted to access to an entity-level variable
\* inside of a pure function", "Network == impure") changes nothing of the
\* entity, sends nothing, and answers what it would answer on a new entity,
\* whatever happened before - but for the ways above.
PureIsPure ==
  [][handled' # handled /\ ~stopped' /\ f.pure /\ ~PurityHole(f) /\ OnlyCallsF(last'.request)
     => /\ UNCHANGED <<data, mail, made>>
        /\ \A sym \in DOMAIN Data : Written(data[sym], heap') = Written(data[sym], heap)
        /\ last'.answer = FirstAnswer(last'.request)]_vars

\* The types.  A node whose type the checker never learns or gets wrong:
Untyped(n) ==
  /\ "op" \in DOMAIN n
  /\ \/ n.op \in {"bool", "index"}
     \/ n.op = "list" /\ \E i \in DOMAIN n.items : ~Number(n.items[i])

Typed(n) ==
  CASE "op" \notin DOMAIN n -> {}
    [] n.op \in {"assign", "return"} -> {n.value}
    [] n.op = "plus" -> {n.term1, n.term2}
    [] n.op = "call" -> {n.args[i] : i \in Compared(n)}
    [] OTHER -> {}

\* The ways a value of another type gets to where a type is declared: such a
\* node where a type is compared, an argument that is not compared, a variable
\* that was not declared, an element appended.
TypeHole(fun) ==
  \/ \E n \in Nodes(fun) : \E m \in Typed(n) : Untyped(m)
  \/ \E n \in Of(fun, {"assign"}) : n.type = "junk" /\ n.sym \notin DOMAIN Data
  \/ Of(fun, {"append"}) # {}
  \/ \E n \in Of(fun, {"call"}) : \E m \in Unseen(n) : "op" \in DOMAIN m /\ m.op = "sym"

Conforms(v, type) ==
  CASE type = "u8" -> Number(v)
    [] type = "list" -> "items" \in DOMAIN v /\ \A i \in DOMAIN v.items : Number(v.items[i])
    [] type = "void" -> v = Nop

\* Entity variables and answers have the types that are declared for them,
\* whatever was asked in whatever order - but for the ways above.
TypesAreRight ==
  ~stopped /\ ~TypeHole(f) =>
    /\ \A sym \in DOMAIN Data : Conforms(Written(data[sym], heap), Data[sym])
    /\ last.request # Nothing => Conforms(last.answer, Fun(last.request.name).type)

Is(n, name) == "op" \in DOMAIN n /\ n.op = "sym" /\ n.name = name

\* The ways a function the checker accepts may bring the node down: a value of
\* the wrong type, an index out of range, operators on values they are not made
\* for, a loop over what is no list, a name whose block has ended, a loop over
\* a list that it lengthens.  (Of the parameters, p is a number, q a list.)
AbortHole(fun) ==
  \/ TypeHole(fun)
  \/ Of(fun, {"index"}) # {}
  \/ \E n \in Of(fun, {"plus"}) : Is(n.term1, "q")
  \/ \E n \in Of(fun, {"match"}) : Is(n.on, "q")
  \/ \E n \in Of(fun, {"for"}) : Is(n.generator, "p")
  \/ \E n \in Of(fun, {"match"}) : \E i \in DOMAIN n.body : n.body[i].op = "assign" /\ n.body[i].sym \notin DOMAIN Data

\* Nothing else in a program that was loaded fails at run time.
AbortsAreKnown == stopped => AbortHole(f)
=============================================================================
