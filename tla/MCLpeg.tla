------------------------------- MODULE MCLpeg -------------------------------
(* Cases for Peg: the trees are built with short names.                    *)
EXTENDS Peg, LpegInv

\* The parameters Compiler and Evaluator: they are constants so that TLC, which
\* walks a definition once for each of its uses, does not walk these two.
LpegCompiler(t) == LET tree == t IN Pattern(tree)
PegMeaning(c)   == LET cc == c IN Meaning(cc)

LpegCaptures(sub, env, caps, end) == getcaptures(sub, env, caps, end)

a == 1
b == 2
c == 3
P(cs)      == [k |-> "lit", cs |-> cs]
N(n)       == [k |-> "any", n |-> n]
S(cs)      == [k |-> "set", set |-> cs]
V(v)       == [k |-> "var", v |-> v]
Bool(v)   == [k |-> "bool", b |-> v]
Fun(f)     == [k |-> "fun", f |-> f]
Span(cs)   == [k |-> "span", set |-> cs]
Bin(op, l, r) == [k |-> op, l |-> l, r |-> r]
Seq_(l, r) == Bin("seq", l, r)
Or(l, r)   == Bin("or", l, r)
And(t)     == [k |-> "and", p |-> t]
Not(t)     == [k |-> "not", p |-> t]
Rep(t, n)  == [k |-> "rep", p |-> t, n |-> n]
Cap(kind, label, t) == [k |-> "cap", kind |-> kind, label |-> label, p |-> t]
C(t)       == Cap("Csimple", NoLabel, t)
Ct(t)      == Cap("Ctable", NoLabel, t)
Cs(t)      == Cap("Csubst", NoLabel, t)
Ca(t)      == Cap("Caccum", NoLabel, t)
Cf(t, f)   == Cap("Cfunction", <<"fun", f>>, t)
Cq(t, h)   == Cap("Cquery", <<"table", h>>, t)
Cstr(t, f) == Cap("Cstring", <<"format", f>>, t)
Cp         == [k |-> "pos"]
Cc(vs)     == [k |-> "const", vs |-> vs]
G(rules)   == [k |-> "grammar", start |-> rules[1].key, rules |-> rules]
R(key, t)  == [key |-> key, p |-> t]

A == P(<<a>>)
B == P(<<b>>)
One == <<"str", <<c>>>>
Lookup == [v \in {<<"str", <<a>>>>} |-> One]

-----------------------------------------------------------------------------
(* Two operators on patterns that are each optimised in a way of its own.  *)

Ops    == {"seq", "or", "sub"}
Tiny   == {A, N(1), S({NUL, b}), C(P(<<a, b>>)), P(<<>>), Rep(P(<<a, b>>), -1)}
Small  == Tiny \cup {P(<<a, b>>), C(A), Rep(A, 0), Cp, N(-1)}
Wide   == Small \cup {N(2), N(5), N(-4), Bool(FALSE), S({a, b}), Span({a}), Fun("here"), Fun("skip"),
             Fun("back"), Fun("nil"),
             Rep(C(A), -2), Not(A), And(A), Cc(<<Nil, One>>), C(P(<<>>)), Rep(P(<<a, b>>), 1)}
Binaries(left, right) == {Bin(op, l, r) : op \in Ops, l \in left, r \in right}
Unaries(parts)  ==
  UNION {{And(t), Not(t), Rep(t, 0), Rep(t, 1), Rep(t, -1), Rep(t, -2), C(t), Cs(t),
          Cf(t, "one"), Cq(t, Lookup)} : t \in parts}
Twice(parts) == Binaries(Binaries(parts, parts), parts) \cup Binaries(parts, Binaries(parts, parts))

\* Alternatives that fail after they have begun.
Branches == {Seq_(A, B), Seq_(S({NUL, a}), B), Seq_(N(2), A), Seq_(C(A), A), Seq_(Cp, P(<<b, a>>))}
Alternatives == {Or(Or(x, y), z) : x \in Branches, y \in Branches, z \in Branches \cup Small}

-----------------------------------------------------------------------------
Grammars ==
  { G(<<R("S", Or(Seq_(A, V("S")), B))>>),
    G(<<R("S", Or(Seq_(Seq_(A, V("S")), B), P(<<>>)))>>),
    G(<<R("S", Seq_(C(Rep(Or(A, Seq_(B, V("S"))), 0)), Cp))>>),
    G(<<R("S", Or(Seq_(V("T"), V("S")), P(<<>>))), R("T", Or(A, C(B)))>>),
    G(<<R("S", Seq_(V("T"), A)), R("T", Rep(V("U"), 0)), R("U", Seq_(B, Rep(C(A), -1)))>>),
    G(<<R("S", Seq_(V("T"), V("T"))), R("T", Rep(Or(A, B), -1))>>),
    G(<<R("S", Seq_(Not(V("T")), N(1))), R("T", P(<<b, a>>))>>),
    G(<<R("S", Or(Seq_(And(V("T")), Seq_(N(1), V("S"))), Cp)), R("T", C(A))>>),
    G(<<R("S", Ct(Rep(Seq_(V("T"), Rep(V("T"), -1)), 0))), R("T", C(Or(P(<<a, b>>), A)))>>),
    Seq_(G(<<R("S", Or(Seq_(A, V("S")), P(<<>>)))>>), G(<<R("S", Or(Seq_(B, V("S")), Cp))>>)),
    G(<<R("S", Seq_(A, G(<<R("S", Or(Seq_(B, V("S")), A))>>)))>>),
    \* refused
    G(<<R("S", Or(Seq_(V("S"), A), B))>>),
    G(<<R("S", Seq_(V("T"), A)), R("T", Or(B, Seq_(Rep(A, 0), V("S"))))>>),
    G(<<R("S", Rep(V("T"), 0)), R("T", Rep(A, 0))>>),
    G(<<R("S", Rep(Seq_(V("T"), Not(A)), 0)), R("T", Rep(A, -1))>>),
    G(<<R("S", Seq_(A, V("T")))>>),
    G(<<R("S", Seq_(Not(A), V("S")))>>),
    Rep(Or(Rep(P(<<a, b>>), -1), A), 0),
    V("S") }

\* Captures in captures.
Inner == {A, Seq_(C(A), C(Rep(B, 0))), Cp, Cf(C(A), "none"), Cf(Seq_(C(A), Cp), "two"),
          Cq(C(N(1)), Lookup), Cstr(Seq_(C(A), N(1)), <<<<"cap", 1>>, <<"cap", 0>>, <<"chr", c>>>>),
          Cs(Seq_(B, Rep(Cstr(A, <<<<"chr", c>>>>), 0))), Cc(<<Nil>>), Cc(<<One, One>>), Ct(Seq_(Cp, C(N(1)))),
          Rep(Cf(N(1), "one"), 1)}
Outer(t) == {C(t), Ct(t), Cs(t), Ca(t), Cf(t, "two"), Cq(t, Lookup), Cstr(t, <<<<"chr", c>>, <<"cap", 1>>>>)}
Nested   == UNION {Outer(Seq_(i, j)) \cup Outer(Or(Seq_(i, B), j)) : i \in Inner, j \in Inner}

\* No set is empty: see the run bug_lpeg.
NoEmptySet(t) == LET code == LpegCompiler(t).code
                 IN  \A i \in DOMAIN code : code[i].op = "IData" => code[i].set # {}

Subjects3 == {<<>>, <<a>>, <<b>>, <<a, b>>, <<b, a>>, <<NUL, b>>, <<a, b, a>>, <<a, a, b>>}
Long == {<<a, b, a, b, a>>, <<a, a, a, a, b>>, <<b, b, a, a, c>>}
With(trees, subjects, inits) == [tree : {t \in trees : NoEmptySet(t)}, subj : subjects, init : inits]
AllCases ==
  With(Twice(Tiny), {<<>>, <<a, b>>, <<a, b, a>>, <<b, NUL, a>>}, {1}) \cup
  With(Binaries(Wide, Small) \cup Binaries(Small, Wide), {<<a, b, a>>, <<a, a, b>>, <<NUL, b>>}, {1}) \cup
  With(Unaries(Binaries(Tiny, Tiny)), {<<a, b>>, <<a, a, b>>}, {1}) \cup
  With(Alternatives, {<<a, b>>, <<NUL, b>>, <<c, b, a>>}, {1}) \cup
  With(Grammars, Subjects3 \cup Long, {1}) \cup
  With(Nested, {<<a, b, a>>}, {1}) \cup
  With({Cp, Seq_(C(Rep(N(1), 0)), Cp), Rep(N(5), -1)}, Subjects3 \cup Long, -4..5)

\* A choice after which nothing is left to try.
EmptySets == [tree : {Or(Or(x, S({})), z) : x \in Branches, z \in Branches \cup Small},
              subj : {<<a, b>>, <<c, b, c>>, <<NUL, b>>}, init : {1}]
=============================================================================
