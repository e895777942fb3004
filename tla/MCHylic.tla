------------------------------ MODULE MCHylic ------------------------------
\* Instances of Hylic: an entity with a number x and a list items, and all
\* functions f(p, q) whose body is one or two statements and a return, made of
\* the expressions below.
EXTENDS Hylic

Num(n) == [num |-> n]
Sym(name) == [op |-> "sym", name |-> name]
Plus(a, b) == [op |-> "plus", term1 |-> b, term2 |-> a]
Bool(rel, a, b) == [op |-> "bool", rel |-> rel, term1 |-> a, term2 |-> b]
Literal(at, items) == [op |-> "list", at |-> at, items |-> items]
Range1(to) == [op |-> "range", from |-> Num(0), to |-> to]
Index(of, at) == [op |-> "index", of |-> of, at |-> at]
Call(name, args) == [op |-> "call", mode |-> "sync", name |-> name, args |-> args]
Async(name, args) == [op |-> "call", mode |-> "async", name |-> name, args |-> args]
AppendTo(list, e) == [op |-> "append", args |-> <<list, e>>]
Let(sym, type, e) == [op |-> "assign", sym |-> sym, type |-> type, value |-> e]
Assign(sym, e) == Let(sym, "junk", e)
Return(e) == [op |-> "return", value |-> e]
Match(on, case, body) == [op |-> "match", on |-> on, case |-> case, body |-> body]
For(sym, generator, body) == [op |-> "for", sym |-> sym, generator |-> generator, body |-> body]
While(cond, body) == [op |-> "while", cond |-> cond, body |-> body]
Function(params, type, pure, body) ==
  [params |-> params, type |-> type, pure |-> pure, body |-> body]
Param(name, type) == [name |-> name, type |-> type]

MCData == [sym \in {"x", "items"} |-> IF sym = "x" THEN "u8" ELSE "list"]
None == <<>>
Ours == <<Param("p", "u8"), Param("q", "list")>>

MCFixed ==
  [create |-> Function(None, "void", FALSE,
                       <<Assign("x", Num(1)), Assign("items", Literal(<<"create", 1>>, <<Num(2)>>))>>),
   next |-> Function(None, "u8", FALSE, <<Assign("x", Plus(Sym("x"), Num(1))), Return(Sym("x"))>>),
   id |-> Function(<<Param("n", "u8")>>, "u8", TRUE, <<Return(Sym("n"))>>),
   add |-> Function(<<Param("n", "u8"), Param("m", "u8")>>, "u8", TRUE,
                    <<Return(Plus(Sym("n"), Sym("m")))>>),
   grow |-> Function(None, "u8", FALSE, <<AppendTo(Sym("items"), Num(3)), Return(Num(0))>>)]

CallF == Call("f", <<Num(0), Sym("items")>>)
MCKeepers ==
  [u8 |-> Function(None, "u8", FALSE, <<Assign("x", CallF), Return(Num(0))>>),
   list |-> Function(None, "u8", FALSE, <<Assign("items", CallF), Return(Num(0))>>),
   void |-> Function(None, "u8", FALSE, <<CallF, Return(Num(0))>>)]

\* Expressions; "at" names a list literal.
Numbers == {Num(1), Sym("p"), Sym("x"), Sym("a"), Sym("k"), Call("next", None),
            Call("id", <<Sym("x")>>), Call("add", <<Sym("p"), Call("next", None)>>),
            Plus(Sym("p"), Num(1)), Plus(Sym("x"), Sym("a"))}
Listed(at) == {Sym("q"), Sym("items"), Sym("b"), Literal(at, <<>>), Literal(at, <<Num(1)>>),
               Literal(at, <<Sym("p")>>), Literal(at, <<Sym("q")>>), Range1(Sym("p")), Range1(Sym("x"))}
Odd == {Call("id", <<Sym("q")>>), Call("add", <<Sym("p"), Sym("q")>>), Async("next", None),
        Plus(Sym("q"), Sym("q")), Index(Sym("q"), Sym("p")), Index(Sym("q"), Call("next", None)),
        Bool("less", Sym("p"), Num(1)), [op |-> "new"], [op |-> "len", args |-> <<Sym("q")>>]}
Exprs(at) == Numbers \cup Listed(at) \cup Odd

Simple(at) ==
  {Let("a", "u8", e) : e \in Exprs(at)} \cup {Let("b", "list", e) : e \in Exprs(at)}
    \cup {Assign("x", e) : e \in Exprs(at)} \cup {Assign("items", e) : e \in Listed(at)}
    \cup {Assign("a", Num(1)), AppendTo(Sym("q"), Num(1)), AppendTo(Sym("items"), Sym("p")),
          AppendTo(Sym("b"), Sym("p"))}
    \cup {e \in Odd \cup {Call("next", None)} : TRUE}
Blocks ==
  {Match(e, Num(1), <<t>>) : e \in {Sym("p"), Sym("x"), Sym("q")},
                             t \in {Let("a", "u8", Num(1)), Return(Sym("q")), Assign("x", Sym("p"))}}
    \cup {Match(Bool("less", e, Num(1)), Bool("less", Num(0), Num(1)), <<Call("next", None)>>) : e \in {Sym("p"), Sym("x")}}
    \cup {For("k", e, <<t>>) : e \in {Sym("q"), Sym("b"), Sym("items"), Range1(Sym("p")), Sym("p")},
                               t \in {Let("a", "u8", Sym("k")), Assign("x", Sym("k")), AppendTo(Sym("q"), Sym("k"))}}
    \cup {While(Bool("less", Sym("a"), Num(2)), <<Let("a", "u8", Plus(Sym("a"), Num(1)))>>),
          While(Bool("less", Sym("x"), Num(2)), <<Call("next", None)>>)}
Returns(at) ==
  {Return(e) : e \in {Sym("p"), Sym("x"), Sym("a"), Sym("k"), Sym("q"), Sym("items"), Sym("b"),
                      Plus(Sym("p"), Num(1)), Plus(Sym("q"), Sym("q")), Call("next", None),
                      Literal(at, <<Num(1)>>), Literal(at, <<Sym("p")>>), Range1(Sym("p")),
                      Bool("less", Sym("p"), Num(1)), Index(Sym("q"), Sym("p"))}}

Bodies ==
  {<<s, r>> : s \in Simple(<<"f", 1>>) \cup Blocks, r \in Returns(<<"f", 3>>)}
    \cup {<<s, b, r>> : s \in {Let("a", "u8", Num(0)), Let("b", "list", Literal(<<"f", 1>>, <<Num(1)>>)),
                               Let("b", "list", Range1(Sym("x")))},
                        b \in Blocks \cup {AppendTo(Sym("b"), Sym("p"))}, r \in Returns(<<"f", 3>>)}
    \cup {<<s>> : s \in Simple(<<"f", 1>>) \cup Blocks}
MCCandidates ==
  {Function(Ours, type, pure, body) : type \in {"u8", "list", "void"}, pure \in BOOLEAN, body \in Bodies}

FromSender == [op |-> "range", from |-> Num(1), to |-> Num(2)]
MCRequests ==
  {[name |-> "f", args |-> <<Num(n), FromSender>>] : n \in {0, 1}}
    \cup {[name |-> name, args |-> <<>>] : name \in {"next", "keep", "grow"}}
=============================================================================
