--------------------------------- MODULE Peg ---------------------------------
(***************************************************************************)
(* What a pattern means: parsing expression grammars, and the values of    *)
(* captures, as a recursion on trees, after doc.html.                      *)
(*                                                                         *)
(* Trees, by k: lit (cs), any (n), bool (b), set and span (set), fun (f), *)
(* var (v), seq, or and sub (l, r), and (p), not (p), rep (p, n), cap      *)
(* (kind, label, p), pos, const (vs), grammar (rules, start).              *)
(***************************************************************************)
EXTENDS Lpeg

CONSTANT Evaluator(_)  \* what a case is to return: Meaning, below

Rules(t) == [v \in {t.rules[i].key : i \in DOMAIN t.rules} |->
              t.rules[CHOOSE i \in DOMAIN t.rules : t.rules[i].key = v].p]

Node(kind, from, to, label, kids) ==
  [kind |-> kind, from |-> from, to |-> to, label |-> label, kids |-> kids]
Fails        == [ok |-> FALSE, i |-> 0, caps |-> <<>>]
At(i, caps)  == [ok |-> TRUE, i |-> i, caps |-> caps]

RECURSIVE M(_, _, _, _), Repeated(_, _, _, _, _)

\* As often as it matches, and at most left times if left is not negative.
Repeated(t, g, sub, r, left) ==
  LET next == M(t.p, g, sub, r.i)
  IN  IF left = 0 \/ ~next.ok THEN r
      ELSE Repeated(t, g, sub, At(next.i, r.caps \o next.caps), left - 1)

Times(t, g, sub, i) ==
  LET once[n \in 0..t.n] ==
        IF n = 0 THEN At(i, <<>>)
        ELSE LET before == once[n - 1]
                 next   == M(t.p, g, sub, before.i)
             IN  IF before.ok /\ next.ok THEN At(next.i, before.caps \o next.caps) ELSE Fails
  IN  once[t.n]

\* The tree t, in the grammar g, at the position i of the subject sub.
M(t, g, sub, i) ==
  LET end == Len(sub) + 1
      Is(cs) == i < end /\ sub[i] \in cs
      First  == M(t.l, g, sub, i)
      Second == M(t.r, g, sub, First.i)
      Other  == M(t.r, g, sub, i)
      Of     == M(t.p, g, sub, i)
      Spanned == Min({j \in i..end : j = end \/ sub[j] \notin t.set \ {NUL}})
  IN  CASE t.k = "lit"  -> IF i + Len(t.cs) <= end /\ SubSeq(sub, i, i + Len(t.cs) - 1) = t.cs THEN At(i + Len(t.cs), <<>>) ELSE Fails
        [] t.k = "any"  -> IF t.n >= 0 THEN (IF i + t.n <= end THEN At(i + t.n, <<>>) ELSE Fails)
                           ELSE (IF i - t.n <= end THEN Fails ELSE At(i, <<>>))
        [] t.k = "bool" -> IF t.b THEN At(i, <<>>) ELSE Fails
        [] t.k = "set"  -> IF Is(t.set) THEN At(i + 1, <<>>) ELSE Fails
        [] t.k = "span" -> At(Spanned, <<>>)
        [] t.k = "fun"  -> IF Called(t.f, i) \in i..end THEN At(Called(t.f, i), <<>>) ELSE Fails
        [] t.k = "var"  -> M(g[t.v], g, sub, i)
        [] t.k = "seq"  -> IF First.ok /\ Second.ok THEN At(Second.i, First.caps \o Second.caps) ELSE Fails
        [] t.k = "or"   -> IF First.ok THEN First ELSE Other
        [] t.k = "sub"  -> IF Other.ok THEN Fails ELSE First
        [] t.k = "and"  -> IF Of.ok THEN At(i, <<>>) ELSE Fails
        [] t.k = "not"  -> IF Of.ok THEN Fails ELSE At(i, <<>>)
        [] t.k = "rep"  ->
             IF t.n < 0 THEN Repeated(t, g, sub, At(i, <<>>), -t.n)
             ELSE LET r == Times(t, g, sub, i)
                  IN  IF r.ok THEN Repeated(t, g, sub, r, -1) ELSE Fails
        [] t.k = "cap"  -> IF Of.ok THEN At(Of.i, <<Node(t.kind, i, Of.i, t.label, Of.caps)>>) ELSE Fails
        [] t.k = "pos"  -> At(i, <<Node("Cposition", i, i, <<>>, <<>>)>>)
        [] t.k = "const" -> At(i, [j \in DOMAIN t.vs |-> Node("Cconst", i, i, t.vs[j], <<>>)])
        [] t.k = "grammar" -> M(Rules(t)[t.start], Rules(t), sub, i)

-----------------------------------------------------------------------------
(* Patterns that are refused: a loop whose body may be empty and a rule    *)
(* that comes to itself before anything was consumed, predicates being     *)
(* taken to hold.                                                          *)

Leaves   == {"lit", "any", "bool", "set", "span", "fun", "var", "pos", "const", "grammar"}
Parts(t) == IF t.k \in Leaves THEN {} ELSE IF t.k \in {"seq", "or", "sub"} THEN {t.l, t.r} ELSE {t.p}

RECURSIVE Nullable(_, _), LeftCalls(_, _), Trees(_), Vars(_)
Nullable(t, rules) ==
  CASE t.k = "lit"  -> t.cs = <<>>
    [] t.k = "any"  -> t.n <= 0
    [] t.k = "bool" -> t.b
    [] t.k \in {"set", "fun"} -> FALSE
    [] t.k \in {"span", "and", "not", "pos", "const"} -> TRUE
    [] t.k = "var"  -> t.v \in rules
    [] t.k = "seq"  -> Nullable(t.l, rules) /\ Nullable(t.r, rules)
    [] t.k = "or"   -> Nullable(t.l, rules) \/ Nullable(t.r, rules)
    [] t.k = "sub"  -> Nullable(t.l, rules)
    [] t.k = "rep"  -> t.n <= 0 \/ Nullable(t.p, rules)
    [] t.k = "cap"  -> Nullable(t.p, rules)
    [] t.k = "grammar" ->
         LET g == Rules(t)
             n[i \in 0..Cardinality(DOMAIN g)] ==
               IF i = 0 THEN {} ELSE {v \in DOMAIN g : Nullable(g[v], n[i - 1])}
         IN  t.start \in n[Cardinality(DOMAIN g)]
NullableRules(g) ==
  LET n[i \in 0..Cardinality(DOMAIN g)] ==
        IF i = 0 THEN {} ELSE {v \in DOMAIN g : Nullable(g[v], n[i - 1])}
  IN  n[Cardinality(DOMAIN g)]

LeftCalls(t, rules) ==
  CASE t.k = "var" -> {t.v}
    [] t.k = "seq" -> LeftCalls(t.l, rules) \cup (IF Nullable(t.l, rules) THEN LeftCalls(t.r, rules) ELSE {})
    [] OTHER -> UNION {LeftCalls(u, rules) : u \in Parts(t)}
LeftRecursive(g) ==
  LET rules == NullableRules(g)
      reach[i \in 0..Cardinality(DOMAIN g)] ==
        [v \in DOMAIN g |-> IF i = 0 THEN LeftCalls(g[v], rules)
                            ELSE reach[i - 1][v] \cup UNION {reach[i - 1][w] : w \in reach[i - 1][v]}]
  IN  \E v \in DOMAIN g : v \in reach[Cardinality(DOMAIN g)][v]

\* The trees of a pattern that are not in a grammar in it, and what they name.
Trees(t) == {t} \cup UNION {Trees(u) : u \in Parts(t)}
Vars(t)  == {u.v : u \in {w \in Trees(t) : w.k = "var"}}
LoopsIn(t, rules) == \E u \in Trees(t) : u.k = "rep" /\ u.n >= 0 /\ Nullable(u.p, rules)

IllFormed(g) ==
  \/ \E v \in DOMAIN g : ~(Vars(g[v]) \subseteq DOMAIN g)
  \/ LeftRecursive(g)
  \/ \E v \in DOMAIN g : LoopsIn(g[v], NullableRules(g))

RECURSIVE IsRefused(_)
IsRefused(t) ==
  \/ LoopsIn(t, {})
  \/ \E u \in Trees(t) : u.k = "grammar" /\
       (u.start \notin DOMAIN Rules(u) \/ IllFormed(Rules(u)) \/ \E v \in DOMAIN Rules(u) : IsRefused(Rules(u)[v]))

-----------------------------------------------------------------------------
(* The values of captures, with Err where there is an error.               *)

Err == <<"error">>
RECURSIVE ValuesOf(_, _), Texts(_, _)
Flat(seqs) == LET all == FlattenSeq(seqs) IN IF Err \in ToSet(all) THEN <<Err>> ELSE all
Whole(sub, n) == TextOf(sub, n.from, n.to)

\* The captures of a string capture: simple ones, the outer before the inner.
Texts(sub, n) == <<Whole(sub, n)>> \o FlattenSeq([i \in DOMAIN n.kids |->
                   IF n.kids[i].kind = "Csimple" THEN Texts(sub, n.kids[i]) ELSE <<Err>>])
Formatted(sub, n) ==
  LET texts == Texts(sub, n)
      f     == n.label[2]
      Piece(q) == IF q[1] = "chr" THEN <<q[2]>> ELSE texts[q[2] + 1][2]
  IN  IF Err \in ToSet(texts) \/ \E i \in DOMAIN f : f[i][1] = "cap" /\ f[i][2] >= Len(texts)
      THEN <<Err>>
      ELSE <<<<"str", FlattenSeq([i \in DOMAIN f |-> Piece(f[i])])>>>>

\* The text of the capture with the captures in it replaced by their first values.
Replaced(sub, n) ==
  LET one == [i \in DOMAIN n.kids |-> ValuesOf(sub, n.kids[i])]
      bad == \E i \in DOMAIN one : one[i] # <<>> /\ ~isstring(one[i][1])
      upto[i \in 0..Len(n.kids)] ==
        IF i = 0 THEN [text |-> <<>>, at |-> n.from]
        ELSE LET b == upto[i - 1]
             IN  IF one[i] = <<>> THEN b
                 ELSE [text |-> b.text \o TextOf(sub, b.at, n.kids[i].from)[2] \o ToText(one[i][1]),
                       at   |-> n.kids[i].to]
      all == upto[Len(n.kids)]
  IN  IF bad THEN <<Err>> ELSE <<<<"str", all.text \o TextOf(sub, all.at, n.to)[2]>>>>

Folded(sub, n) ==
  LET first == ValuesOf(sub, n.kids[1])
      Args(kid) == LET vs == Flat([i \in DOMAIN kid.kids |-> ValuesOf(sub, kid.kids[i])])
                   IN  IF vs = <<>> THEN <<Whole(sub, kid)>> ELSE vs
      acc[i \in 1..Len(n.kids)] ==
        IF i = 1 THEN first[1]
        ELSE LET args == <<acc[i - 1]>> \o Args(n.kids[i])
                 res  == Results(n.kids[i].label[2], args)
             IN  IF Err \in ToSet(args) \/ n.kids[i].kind # "Cfunction" THEN Err
                 ELSE IF res = <<>> THEN Nil ELSE res[1]
  IN  IF n.kids = <<>> \/ Len(first) # 1 THEN <<Err>> ELSE <<acc[Len(n.kids)]>>

ValuesOf(sub, n) ==
  LET in   == Flat([i \in DOMAIN n.kids |-> ValuesOf(sub, n.kids[i])])
      args == IF in = <<>> THEN <<Whole(sub, n)>> ELSE in
      h    == n.label[2]
      Unless(vs) == IF in = <<Err>> THEN <<Err>> ELSE vs
  IN  CASE n.kind = "Cposition" -> <<<<"num", n.from>>>>
        [] n.kind = "Cconst"    -> <<n.label>>
        [] n.kind = "Csimple"   -> Unless(<<Whole(sub, n)>> \o in)
        [] n.kind = "Ctable"    -> Unless(<<<<"tab", in>>>>)
        [] n.kind = "Cfunction" -> Unless(Results(h, args))
        [] n.kind = "Cquery"    -> Unless(IF args[1] \in DOMAIN h THEN <<h[args[1]]>> ELSE <<>>)
        [] n.kind = "Cstring"   -> Formatted(sub, n)
        [] n.kind = "Csubst"    -> Replaced(sub, n)
        [] n.kind = "Caccum"    -> Folded(sub, n)

Start(l, i) == IF i > 0 THEN Min({i, l + 1}) ELSE IF -i <= l THEN l + i + 1 ELSE 1
Meaning(c) ==
  LET r   == M(c.tree, <<>>, c.subj, Start(Len(c.subj), c.init))
      all == Flat([i \in DOMAIN r.caps |-> ValuesOf(c.subj, r.caps[i])])
  IN  IF IsRefused(c.tree) \/ Vars(c.tree) # {} THEN <<Err>>
      ELSE IF ~r.ok THEN <<Nil>>
      ELSE IF all = <<>> THEN <<<<"num", r.i>>>> ELSE all

-----------------------------------------------------------------------------
(* Properties.                                                             *)

Exhausted == Refused("too many pending calls/choices")

\* A match returns what the pattern means, and a pattern is refused when it has an
\* empty loop or a left recursion: whatever the optimiser did with choices, jumps
\* and captures, however the alternatives were joined, whatever was captured and
\* then given up.
AsGrammarSays ==
  status = "done" /\ result # Exhausted =>
    (IF result.k = "error" THEN <<Err>> ELSE result.vs) = Evaluator(case)

\* A pattern that was accepted is matched in the end: what the verifier lets pass
\* does not loop.
Terminates == status = "match" ~> status # "match"
=============================================================================
