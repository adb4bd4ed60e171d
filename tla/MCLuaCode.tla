----------------------------- MODULE MCLuaCode -----------------------------
(* Programs for LuaMeaning: the trees are built with short names.          *)
EXTENDS LuaMeaning

\* The parameters Parser and Evaluator: they are constants so that TLC, which
\* walks a definition once for each of its uses, does not walk these two.
LuaParser(fs, stat) == LET stats == <<stat>> IN chunk(fs, stats)
LuaMeaning(chunk0)  == LET c == chunk0 IN Meaning(c)

n(v)          == [k |-> "num", v |-> v]
s(c)          == [k |-> "str", s |-> <<c>>]
x(name)       == [k |-> "name", n |-> name]
nil           == [k |-> "nil"]
true          == [k |-> "true"]
false         == [k |-> "false"]
dots          == [k |-> "vararg"]
Par(e)        == [k |-> "paren", e |-> e]
At_(e, i)     == [k |-> "index", e |-> e, i |-> i]
Call(f, args) == [k |-> "call", f |-> f, args |-> args]
Method(e, name, args) == [k |-> "method", e |-> e, n |-> <<name>>, args |-> args]
Un(op, e)     == [k |-> "un", op |-> op, e |-> e]
Op(l, op, r)  == [k |-> "bin", op |-> op, l |-> l, r |-> r]
Table(items)  == [k |-> "table", items |-> items]
Item(e)       == [k |-> "item", e |-> e]
Field(i, e)   == [k |-> "field", i |-> i, e |-> e]
Fn(params, b) == [k |-> "function", params |-> params, vararg |-> FALSE, body |-> b]
VarFn(params, b) == [k |-> "function", params |-> params, vararg |-> TRUE, body |-> b]

Local(names, es)  == [k |-> "local", names |-> names, es |-> es]
Assign(vs, es)    == [k |-> "assign", vars |-> vs, es |-> es]
Do(f, args)       == [k |-> "call", e |-> Call(f, args)]
Block(b)          == [k |-> "do", body |-> b]
While(c, b)       == [k |-> "while", c |-> c, body |-> b]
Repeat(b, c)      == [k |-> "repeat", body |-> b, c |-> c]
If(c, b)          == [k |-> "if", clauses |-> <<[c |-> c, body |-> b]>>, else |-> <<>>]
IfElse(c, b, e)   == [k |-> "if", clauses |-> <<[c |-> c, body |-> b]>>, else |-> <<e>>]
ForNum(v, es, b)  == [k |-> "fornum", n |-> v, es |-> es, body |-> b]
ForIn_(vs, es, b) == [k |-> "forlist", names |-> vs, es |-> es, body |-> b]
LocalFn(name, f)  == [k |-> "localfunction", n |-> name, f |-> f]
Function(v, f)    == [k |-> "function", var |-> v, f |-> f]
Return(es)        == [k |-> "return", es |-> es]
Break             == [k |-> "break"]
Show(es)          == Do(x("f"), es)
v3                == <<x("a"), x("b"), x("c")>>

-----------------------------------------------------------------------------
(* Conditions: a tree of two operators, with its operands and negations,   *)
(* as a value, an argument, a result, and a condition of each kind.        *)

Atom(c) ==
  CASE c = "a" -> x("a") [] c = "b" -> x("b") [] c = "true" -> true [] c = "false" -> false
    [] c = "nil" -> nil [] c = "1" -> n(1) [] c = "not a" -> Un("not", x("a"))
    [] c = "a==b" -> Op(x("a"), "==", x("b")) [] c = "a~=1" -> Op(x("a"), "~=", n(1))
    [] c = "f(b)" -> Call(x("f"), <<x("b")>>)
Neg(neg, e) == IF neg THEN Un("not", Par(e)) ELSE Par(e)
Tree(t) ==
  LET l == IF t.left THEN Neg(t.neg, Op(Atom(t.x), t.op1, Atom(t.y))) ELSE Atom(t.x)
      r == IF t.left THEN Atom(t.z) ELSE Neg(t.neg, Op(Atom(t.y), t.op1, Atom(t.z)))
  IN  Op(l, t.op2, r)

InAllContexts(e, va, vb) ==
  << Local(<<"a", "b">>, <<va, vb>>),
     Local(<<"r">>, <<e>>),
     Show(<<x("r"), e>>),
     IfElse(e, <<Show(<<n(1)>>)>>, <<Show(<<n(2)>>)>>),
     Repeat(<<>>, Op(e, "or", true)),
     While(Un("not", Par(e)), <<Show(<<x("r")>>), Break>>),
     Assign(<<x("a")>>, <<e>>),
     Return(<<x("a"), e>>) >>

Trees(atoms, ops) ==
  [left : BOOLEAN, neg : BOOLEAN, op1 : ops, op2 : {"and", "or"}, x : atoms, y : atoms, z : atoms]

CONSTANTS Atoms, Ops
Conditions ==
  {InAllContexts(Tree(t), va, vb) : t \in Trees(Atoms, Ops), va \in {nil, n(1)}, vb \in {nil, n(1)}}

\* A tree of two operators as the left operand of a third one.
DecidedConditions ==
  {<<Local(<<"a", "b">>, <<n(1)>>), Return(<<Op(Tree(t), op, Atom(c))>>)>> :
     t \in Trees(Atoms, Ops), op \in Ops, c \in Atoms}

-----------------------------------------------------------------------------
(* Statements, by what they are about.                                     *)

\* Closures of a variable declared in a loop, and of one declared before it: each
\* turn has its own.
Captured  == Assign(<<At_(x("t"), x("i"))>>, <<Fn(<<>>, <<Assign(<<x("u"), x("v")>>,
               <<x("v"), Op(x("v"), "+", n(1))>>), Return(<<x("u"), x("v")>>)>>)>>)
Turn      == <<Local(<<"v">>, <<x("i")>>), Captured>>
Counted   == Assign(<<x("i")>>, <<Op(x("i"), "+", n(1))>>)
Leave     == If(Op(x("i"), "==", n(2)), <<Break>>)
InLoop(loop) ==
  << Local(<<"t", "u">>, <<Table(<<>>), n(0)>>), Local(<<"i">>, <<n(0)>>) >> \o loop \o
  << Local(<<"w">>, <<n(7)>>),
     Do(At_(x("t"), n(1)), <<>>), Show(<<Call(At_(x("t"), n(1)), <<>>), x("w")>>),
     Return(<<Call(At_(x("t"), n(2)), <<>>)>>) >>

Loops ==
  { \* while
    InLoop(<<While(Op(x("i"), "<", n(2)), <<Counted>> \o Turn)>>),
   \* while break
    InLoop(<<While(true, <<Counted>> \o Turn \o <<Leave>>)>>),
   \* repeat
    InLoop(<<Repeat(<<Counted>> \o Turn, Op(x("v"), "==", n(2)))>>),
   \* repeat until
    InLoop(<<Repeat(<<Counted, Block(Turn)>>, Op(x("i"), ">=", n(2)))>>),
   \* repeat break
    InLoop(<<Repeat(<<Counted>> \o Turn \o <<Leave>>, false)>>),
   \* repeat inner
    InLoop(<<Repeat(<<Counted>> \o Turn \o <<Repeat(<<Break>>, true)>>, Op(x("v"), ">", n(1)))>>),
   \* fornum
    InLoop(<<ForNum("i", <<n(1), n(3)>>, Turn)>>),
   \* fornum break
    InLoop(<<ForNum("i", <<n(1), n(9)>>, Turn \o <<Leave>>)>>),
   \* fornum down
    InLoop(<<ForNum("i", <<n(3), n(1), n(-1)>>, Turn)>>),
   \* fornum none
    <<ForNum("i", <<n(1), n(0)>>, <<Show(<<x("i")>>)>>), ForNum("i", <<n(1), nil>>, <<>>)>>,
   \* forlist
    InLoop(<<ForIn_(<<"i">>, <<x("upto"), n(2), n(0)>>, Turn)>>),
   \* forlist break
    InLoop(<<ForIn_(<<"i", "j">>, <<x("upto"), n(9), n(0)>>, Turn \o <<Leave>>)>>),
   \* forlist call
    InLoop(<<ForIn_(<<"i">>, <<Call(x("f"), <<x("upto"), n(2), n(0)>>)>>, Turn)>>),
   \* forlist closure
    << Local(<<"k">>, <<n(0)>>),
        ForIn_(<<"i">>, <<Fn(<<"s", "c">>,
          <<Assign(<<x("k")>>, <<Op(x("k"), "+", n(1))>>),
            If(Op(x("k"), "<", n(3)), <<Return(<<x("k"), x("c")>>)>>)>>)>>, <<Show(<<x("i")>>)>>),
        Return(<<x("k")>>) >>}

\* Which values an assignment uses, and in which order it stores them.
Pairs == {<<"a", "b">>, <<"b", "a">>, <<"a", "a.b">>, <<"a.b", "a">>, <<"a.a", "b">>,
             <<"b", "a.b">>, <<"a.b", "b">>, <<"g", "a.g">>, <<"a.1", "a">>, <<"a", "a">>}
Target(c) ==
  CASE c \in {"a", "b", "g"} -> x(c)
    [] c = "a.a" -> At_(x("a"), x("a")) [] c = "a.b" -> At_(x("a"), x("b"))
    [] c = "a.1" -> At_(x("a"), n(1))   [] c = "a.g" -> At_(x("a"), x("g"))
f123    == Call(x("f"), <<n(1), n(2), n(3)>>)
Sources == {<<n(1)>>, <<n(1), n(2)>>, <<n(1), n(2), f123>>, <<f123>>, <<x("b"), x("a")>>,
            <<nil, Op(n(1), "==", x("b"))>>, <<f123, x("b")>>}
Assignments ==
  {<< Local(<<"a", "b">>, <<Table(<<>>), n(5)>>), Local(<<"o">>, <<x("a")>>),
        Assign(<<x("g")>>, <<n(6)>>),
        Assign(<<Target(t[1]), Target(t[2])>>, es),
        Return(<<Op(x("a"), "==", x("o")), x("b"), x("g"), At_(x("o"), n(1)), At_(x("o"), n(5)),
                 At_(x("o"), n(6)), At_(x("o"), x("o"))>>) >> :
    t \in Pairs, es \in Sources}

\* Calls, and what they return.
Fib == LocalFn("r", Fn(<<"i", "k">>,
  << If(Op(x("i"), "==", n(0)), <<Return(<<x("k"), x("i")>>)>>),
     Return(<<Call(x("r"), <<Op(x("i"), "-", n(1)), Op(x("k"), "*", n(2))>>)>>) >>))
f12 == Call(x("f"), <<n(1), n(2)>>)
f23 == Call(x("f"), <<n(2), n(3)>>)
Calls ==
  { \* varargs
    << LocalFn("v", VarFn(<<"a">>,
         << Local(<<"b", "c", "d">>, <<dots>>), Return(<<x("c"), dots>>) >>)),
       Show(<<Call(x("v"), <<n(1), n(2), n(3)>>)>>), Return(<<Call(x("v"), <<n(1), n(2)>>), dots>>) >>,
   \* varargs adjusted
    << LocalFn("v", VarFn(<<"a", "b">>, <<Return(<<Par(dots), x("b"), dots>>)>>)),
       Show(<<Call(x("v"), <<n(1)>>)>>), Return(<<Call(x("v"), <<n(1), n(2), n(3), n(4)>>)>>) >>,
   \* varargs collected
    << LocalFn("v", VarFn(<<"a">>, <<Return(<<Un("#", Table(<<Item(x("a")), Item(dots)>>))>>)>>)),
       Show(<<Call(x("v"), <<n(1)>>)>>), Return(<<Call(x("v"), <<n(1), n(2), n(3), n(4)>>)>>) >>,
   \* results
    << Show(<<f12>>), Show(<<n(1), f23>>), Show(<<f12, n(3)>>), Show(<<Par(f12)>>),
       Show(<<Call(x("f"), <<Call(x("f"), <<>>), Call(x("f"), <<x("f")>>)>>)>>),
       Return(<<n(1), f23>>) >>,
   \* tail calls
    << Fib, Show(<<Call(x("r"), <<n(2), n(3)>>)>>), Return(<<Call(x("r"), <<n(3), n(1)>>)>>) >>,
   \* tail call upvalues
    << Local(<<"g">>, <<>>),
       LocalFn("t", Fn(<<"a">>,
         << Local(<<"b">>, <<x("a")>>),
            Assign(<<x("g")>>, <<Fn(<<>>, <<Return(<<x("a"), x("b")>>)>>)>>),
            Return(<<Call(x("f"), <<n(8), n(9)>>)>>) >>)),
       Show(<<Call(x("t"), <<n(4)>>)>>), Return(<<Call(x("g"), <<>>)>>) >>,
   \* tail call varargs
    << LocalFn("v", VarFn(<<"a">>,
         <<If(x("a"), <<Return(<<Call(x("v"), <<dots>>)>>)>>), Return(<<n(0), dots>>)>>)),
       Return(<<Call(x("v"), <<n(1), n(2), nil, n(4)>>)>>) >>,
   \* method
    << Local(<<"o">>, <<Table(<<
         Field(s("p"), Fn(<<"self", "a">>, <<Return(<<At_(x("self"), s("q")), x("a")>>)>>)),
         Field(s("q"), n(4))>>)>>),
       Show(<<Method(x("o"), "p", <<n(5)>>)>>), Assign(<<At_(x("o"), s("o"))>>, <<x("o")>>),
       Return(<<Method(At_(x("o"), s("o")), "p", <<f23>>)>>) >>}

\* Closures that share variables, outlive them, and reach over functions between.
Count == Function(x("c"), Fn(<<"a">>, <<Return(
  << Fn(<<>>, <<Assign(<<x("a")>>, <<Op(x("a"), "+", n(1))>>), Return(<<x("a")>>)>>),
     Fn(<<"b">>, <<Assign(<<x("a")>>, <<x("b")>>)>>) >>)>>))
Closures ==
  { \* counters
    << Count, Local(<<"i", "s">>, <<Call(x("c"), <<n(1)>>)>>),
       Local(<<"j">>, <<Call(x("c"), <<n(5)>>)>>), Do(x("i"), <<>>),
       Show(<<Call(x("i"), <<>>), Call(x("j"), <<>>)>>), Do(x("s"), <<n(9)>>),
       Return(<<Call(x("i"), <<>>)>>) >>,
   \* blocks
    << Local(<<"g", "h">>, <<>>),
       Block(<< Local(<<"a", "b">>, <<n(1), n(2)>>),
                Assign(<<x("g")>>, <<Fn(<<>>, <<Return(<<x("b")>>)>>)>>),
                Block(<< Local(<<"c">>, <<x("b")>>),
                         Assign(<<x("h"), x("b")>>,
                                <<Fn(<<>>, <<Return(<<x("c"), x("a")>>)>>), n(6)>>) >>) >>),
       Local(<<"d", "e", "k">>, <<n(7), n(8)>>),
       Show(<<Call(x("g"), <<>>)>>), Return(<<Call(x("h"), <<>>), x("k")>>) >>,
   \* levels
    << Local(<<"a">>, <<n(1)>>),
       LocalFn("t", Fn(<<"b">>, <<Return(<<Fn(<<"c">>,
         << Assign(<<x("a"), x("b")>>, <<x("b"), x("c")>>),
            Return(<<Fn(<<>>, <<Return(<<x("a"), x("b"), x("c")>>)>>)>>) >>)>>)>>)),
       Local(<<"u">>, <<Call(x("t"), <<n(2)>>)>>), Local(<<"v">>, <<Call(x("u"), <<n(3)>>)>>),
       Assign(<<x("a")>>, <<n(9)>>), Show(<<Call(x("v"), <<>>)>>), Do(x("u"), <<n(4)>>),
       Return(<<Call(x("v"), <<>>)>>) >>,
   \* shadows
    << Local(<<"a">>, <<n(1)>>), Local(<<"g">>, <<Fn(<<>>, <<Return(<<x("a")>>)>>)>>),
       Local(<<"a">>, <<Op(x("a"), "+", n(1))>>),
       Local(<<"h">>, <<Fn(<<>>, <<Return(<<x("a")>>)>>)>>), Assign(<<x("a")>>, <<n(5)>>),
       LocalFn("a", Fn(<<"a", "a">>, <<Return(<<x("a")>>)>>)),
       Show(<<Call(x("g"), <<>>), Call(x("h"), <<>>)>>), Return(<<Call(x("a"), <<n(6), n(7)>>)>>) >>}

\* Operators, constants, constructors and nil.
Items8(i) == Item(n(i * i))
Operands ==
  { \* arithmetic
    << Local(<<"a", "b">>, <<n(2), n(3)>>),
       Show(<<Op(Op(x("a"), "*", x("b")), "-", Op(n(2), "*", n(5)))>>),
       Show(<<Un("-", Par(Op(x("b"), "-", n(9)))), Un("-", n(4))>>),
       Show(<<Op(Par(Op(n(1), "+", n(2))), "*", n(3)), Op(Un("-", x("a")), "-", x("a"))>>),
       Show(<<Op(x("a"), "*", Par(Op(x("a"), "+", Op(x("b"), "*", x("b")))))>>),
       Show(<<Op(x("a"), "<", x("b")), Op(x("a"), ">", x("b")), Op(x("a"), ">=", n(2))>>),
       Return(<<Op(n(1), "~=", x("a")), Un("not", Par(Op(x("a"), "<=", n(1))))>>) >>,
   \* concatenation
    << Local(<<"a", "b">>, <<s("p"), n(3)>>),
       Show(<<Op(x("a"), "..", Op(x("b"), "..", s("q")))>>),
       Local(<<"c">>, <<Op(Op(x("b"), "+", n(1)), "..", Op(x("b"), "..", x("b")))>>),
       Local(<<"d">>, <<Op(Par(Op(x("a"), "..", x("b"))), "..", x("a"))>>),
       Show(<<x("c"), x("d")>>), Show(<<Un("#", Par(Op(x("a"), "..", s("q"))))>>),
       Return(<<Op(x("a"), "..", nil)>>) >>,
   \* constants
    << Local(<<"a">>, <<Table(<<>>)>>),
       Assign(<<At_(x("a"), n(1)), At_(x("a"), n(2))>>, <<n(3), n(4)>>),
       Assign(<<At_(x("a"), n(5))>>, <<n(6)>>), Assign(<<At_(x("a"), n(7))>>, <<nil>>),
       Assign(<<At_(x("a"), true)>>, <<false>>),
       Assign(<<At_(x("a"), n(1))>>, <<Op(n(8), "==", x("a"))>>),
       Return(<<Op(At_(x("a"), n(5)), "+", n(9)), Op(n(10), "-", At_(x("a"), n(2))),
                Op(n(11), "<", At_(x("a"), n(2))), At_(x("a"), true)>>) >>,
   \* constructors
    << Show(<<Un("#", Table([i \in 1..3 |-> Item(n(i))])),
              Un("#", Table(<<Item(n(1)), Item(f23)>>)), Un("#", Table(<<Item(f23), Item(n(1))>>))>>),
       Local(<<"t">>, <<Table([i \in 1..8 |-> Items8(i)])>>),
       Local(<<"u">>, <<Table(<<Field(s("a"), n(1)), Item(s("b")), Field(n(2), n(7)), Item(x("t")),
                                Field(x("t"), Table(<<>>)), Item(Call(x("f"), <<>>))>>)>>),
       Return(<<At_(x("t"), n(7)), At_(x("t"), n(8)), At_(x("u"), n(1)),
                At_(At_(x("u"), n(2)), n(2)), At_(x("u"), s("a"))>>) >>,
   \* nil locals
    << Local(<<"i">>, <<n(0)>>), Local(<<"a">>, <<>>), Local(<<"b", "c">>, <<>>),
       Show(<<x("a"), x("b"), x("c")>>),
       While(Op(x("i"), "<", n(2)),
             << Local(<<"v">>, <<>>), Show(<<x("v")>>),
                Assign(<<x("v"), x("i")>>, <<n(3), Op(x("i"), "+", n(1))>>) >>),
       If(x("a"), <<Local(<<"d">>, <<>>), Show(<<x("d")>>)>>), Local(<<"e">>, <<>>),
       Local(<<"k">>, <<>>), Return(<<x("e"), x("k")>>) >>,
   \* nil operands
    << Block(<<Local(<<"o">>, <<n(5)>>), Show(<<f123, f123, f123>>)>>),
       Local(<<"a", "b">>, <<n(1)>>), Local(<<"c">>, <<Op(x("a"), "or", nil)>>),
       Local(<<"d">>, <<nil>>), Local(<<"e">>, <<Op(x("b"), "and", nil)>>), Local(<<"g">>, <<>>),
       Return(<<x("c"), x("d"), x("e"), x("g")>>) >>} \cup
  \* elseif
  {<< Local(<<"i">>, <<n(j)>>),
      [k |-> "if",
       clauses |-> << [c |-> Op(x("i"), "==", n(1)), body |-> <<Show(<<n(1)>>)>>],
                      [c |-> Op(Op(x("i"), "==", n(2)), "or", Op(x("i"), ">", n(3))),
                       body |-> <<Show(<<x("i")>>)>>] >>,
       else |-> <<<<Show(<<n(4)>>)>>>>],
      IfElse(nil, <<Show(<<n(1)>>)>>, <<Show(<<n(2)>>)>>) >> : j \in 1..4}

\* Errors, and what was done before them.
t0 == Local(<<"t">>, <<Table(<<>>)>>)
Errors ==
  {<<LocalFn("t", Fn(<<"a">>, <<Do(x("a"), <<>>)>>)), Do(x("t"), <<n(1)>>)>>,
   <<Assign(<<x("g"), At_(x("h"), n(1))>>, <<n(2), n(3)>>)>>,
   <<t0, Assign(<<x("g"), At_(x("t"), nil)>>, <<n(2), n(3)>>)>>,
   <<Show(<<n(1)>>), Return(<<Op(n(1), "<", nil)>>)>>,
   <<Do(x("f"), <<Method(Par(n(1)), "p", <<>>)>>)>>,
   <<Return(<<Un("#", n(1))>>)>>,
   <<Return(<<Un("-", Par(Call(x("f"), <<>>)))>>)>>,
   <<t0, ForIn_(<<"i">>, <<x("t")>>, <<>>)>>}

AllPrograms ==
  Conditions \cup Loops \cup Assignments \cup Calls \cup Closures \cup Operands \cup Errors
=============================================================================
