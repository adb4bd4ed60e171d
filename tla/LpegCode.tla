------------------------------ MODULE LpegCode ------------------------------
(***************************************************************************)
(* The patterns of LPeg: how lpeg.c builds, optimises and verifies their   *)
(* code.                                                                   *)
(*                                                                         *)
(* A pattern is a record: ok (FALSE when it was refused, with why), code   *)
(* (ending with IEnd) and env (the values its instructions name by index:  *)
(* labels of captures, functions, nonterminals).  An environment that is   *)
(* shared is one that is equal: none changes.                              *)
(*                                                                         *)
(* An instruction is a slot of the code, with its offset off, its aux, the *)
(* distance n a capture has been moved and the characters set that it      *)
(* tests.  A charset lies in a slot of its own after its instruction.      *)
(*                                                                         *)
(* Characters are numbers and NUL is the one at the end of a string.  The  *)
(* limit of a pattern's size is left out.                                  *)
(*                                                                         *)
(* A definition marked "fault" is what a slip in the code would make of    *)
(* the definition below it.                                                *)
(***************************************************************************)
EXTENDS LpegInst

RECURSIVE From(_, _)
\* The places of instructions from i on, in order.
From(code, i) == IF i > Len(code) THEN <<>> ELSE <<i>> \o From(code, i + sizei(code[i]))
Insts(code)   == From(code, 1)

size(p)  == Len(p.code) - 1

-----------------------------------------------------------------------------
(* New patterns: their code and environment so far.                        *)

newpatt    == [code |-> <<>>, env |-> <<>>]
Put(b, insts) == [b EXCEPT !.code = @ \o insts]
Done(b)    == [ok |-> TRUE, why |-> "", code |-> Append(b.code, Inst("IEnd", 0, 0)), env |-> b.env]
value2fenv(b, value) == [b EXCEPT !.env = <<value>>]

\* The environment b takes with p, and how far p's indices move in it.
JoinedEnv(b, p) ==
  IF p.env = <<>> \/ p.env = b.env THEN b.env ELSE b.env \o p.env
jointable(b, p) == IF p.env = <<>> \/ p.env = b.env THEN 0 ELSE Len(b.env)
addpatt(b, p) ==
  LET corr == jointable(b, p)
  IN  [code |-> b.code \o [i \in 1..size(p) |->
                  IF p.code[i].op \in EnvOff /\ p.code[i].off # 0
                  THEN [p.code[i] EXCEPT !.off = @ + corr] ELSE p.code[i]],
       env  |-> JoinedEnv(b, p)]
AddTimes(b, p, n) == FoldLeft(LAMBDA acc, i : addpatt(acc, p), b, [i \in 1..n |-> i])

check2test(code, i, n) == [code EXCEPT ![i].op = Tested[@], ![i].off = n]

\* The slots from..to with the first n of them last.
rotate(code, from, to, n) ==
  SubSeq(code, 1, from - 1) \o SubSeq(code, from + n, to) \o
  SubSeq(code, from, from + n - 1) \o SubSeq(code, to + 1, Len(code))

-----------------------------------------------------------------------------
(* Optimisations.                                                          *)

RECURSIVE skipchecks(_, _, _, _)
\* The slots of the checks from i on that captures already moved up can be moved
\* across, and their characters n.
skipchecks(code, i, up, n) ==
  IF ~ischeck(code[i]) \/ n + op_step(code[i]) > MAXOFF - up THEN [to |-> i - 1, n |-> n]
  ELSE skipchecks(code, i + sizei(code[i]), up, n + op_step(code[i]))

ismovablecap(i) == i.op \in MovableCaptures /\ i.n < MAXOFF

\* The first of the captures that end at i and are no jump target.
FirstInGroup(code, i, limit) ==
  Min({j \in limit..i : \A k \in j..i : ismovablecap(code[k])})

\* Captures are moved after the checks that follow them, unless a jump goes there.
RECURSIVE optimizecaptures(_, _, _)
optimizecaptures(code, i, limit) ==
  LET next  == i + sizei(code[i])
      start == FirstInGroup(code, i, limit)
      skip  == skipchecks(code, i + 1, Max({code[j].n : j \in start..i}), 0)
      moved == [j \in DOMAIN code |->
                  IF j \in start..i THEN [code[j] EXCEPT !.n = (@ + skip.n) % (MAXOFF + 1)] ELSE code[j]]
  IN  IF code[i].op = "IEnd" THEN code
      ELSE IF code[i].op \in Jumps
      THEN optimizecaptures(code, next, Max({limit, dest(code, i) + 1}))
      ELSE IF i >= limit /\ ismovablecap(code[i]) /\ ischeck(code[i + 1]) /\ skip.n > 0
      THEN optimizecaptures(rotate(moved, start, skip.to, i - start + 1), skip.to + 1, limit)
      ELSE optimizecaptures(code, next, limit)

RECURSIVE target(_, _)
target(code, i) == IF code[i].op = "IJmp" THEN target(code, dest(code, i)) ELSE i

optimizejumps(code) ==
  FoldLeft(LAMBDA c, i : IF c[i].op \in Jumps
                         THEN [c EXCEPT ![i].off = target(c, dest(c, i)) - i] ELSE c,
           code, Insts(code))

\* A choice before a check becomes a test that comes before the choice.
NotGivenBack(i) == 0  \* fault
GivenBack(i)    == op_step(i)
optimizechoice(code, i) ==
  LET lc == sizei(code[i + 1])
      r  == rotate(code, i, i + lc, 1)
  IN  IF ~ischeck(code[i + 1]) THEN code
      ELSE [check2test(r, i, code[i].off)
              EXCEPT ![i + lc].aux = GivenBack(r[i]), ![i + lc].off = @ - lc]

\* It can only fail in its first instruction, a check.
isheadfail(p) ==
  /\ ischeck(p.code[1])
  /\ \A i \in {j \in ToSet(Insts(p.code)) : j > 1 /\ p.code[j].op # "IEnd"} : p.code[i].op \in NoFail

\* What characters a pattern can start with.
tocharset(p) ==
  LET first == p.code[1]
      rest  == p.code[1 + sizei(first)]
  IN  IF ~ischeck(first) THEN [tag |-> "NOINFO", cs |-> {}]
      ELSE [tag |-> IF rest.op = "IEnd" /\ op_step(first) = 1 THEN "ISCHARSET" ELSE "VALIDSTARTS",
            cs  |-> IF first.op = "IAny" THEN Chars ELSE SetOf(p.code, 1)]
exclusive(st1, st2) ==
  st1.tag # "NOINFO" /\ st2.tag # "NOINFO" /\ st1.cs \cap st2.cs = {}

-----------------------------------------------------------------------------
(* The verifier: whether code can go from p to e without consuming.        *)

\* The last choice that is pending, under any calls.
ChoicesOf(back) == {i \in DOMAIN back : back[i].s = "choice"}

RECURSIVE verify(_, _, _, _, _)
\* "empty" if it can, "fails" if not, or the error; position is that of each rule, with
\* no domain while the grammar is not fixed.
verify(g, position, p, e, back) ==
  LET i == g.code[p]
      Go(q)      == verify(g, position, q, e, back)
      Back(q)    == verify(g, position, q, e, Front(back))
      Push(s, at, q) == IF Len(back) >= MAXBACK THEN "too many pending calls/choices"
                        ELSE verify(g, position, q, e, Append(back, [s |-> s, p |-> at]))
      at == Max(ChoicesOf(back))
      Fail == IF ChoicesOf(back) = {} THEN "fails"
              ELSE verify(g, position, back[at].p, e, SubSeq(back, 1, at - 1))
      rule == g.env[i.off]
  IN  CASE p = e -> IF back = <<>> THEN "empty" ELSE "assertion"
        [] p # e /\ i.op = "IRet"    -> Back(Last(back).p)
        [] p # e /\ i.op = "IChoice" -> Push("choice", dest(g.code, p), p + 1)
        [] p # e /\ i.op = "ICall"   -> Push("call", p + 1, dest(g.code, p))
        [] p # e /\ i.op = "IOpenCall" ->
             IF position = <<>> THEN Fail
             ELSE IF [s |-> "call", p |-> p + 1] \in ToSet(back) THEN "left recursive"
             ELSE IF rule \notin DOMAIN position THEN "not defined"
             ELSE Push("call", p + 1, position[rule])
        [] p # e /\ i.op \in {"IBackCommit", "ICommit"} ->
             IF back = <<>> \/ i.off <= 0 THEN "assertion" ELSE Back(dest(g.code, p))
        [] p # e /\ i.op = "IPartialCommit" ->
             IF i.off > 0 THEN Go(dest(g.code, p))
             ELSE IF position = <<>> \/ back = <<>> THEN "assertion" ELSE Back(p + 1)
        [] p # e /\ i.op \in Tests \cup {"IJmp"} -> Go(dest(g.code, p))
        [] p # e /\ i.op = "IFail" /\ i.aux = 1 -> Go(p + 1)
        [] p # e /\ i.op \in {"ISpan", "ISpanZ", "IFunc"} \cup Captures -> Go(p + sizei(i))
        [] p # e /\ (i.op \in Checks \cup {"IFailTwice", "ILFunc"} \/ (i.op = "IFail" /\ i.aux = 0)) -> Fail

\* The errors of the rule at from..to - 1.  A loop is checked again when it calls rules.
checkrule(g, position, from, to) ==
  LET at     == SelectSeq(Insts(g.code), LAMBDA i : i \in from..to - 1)
      loops  == {i \in ToSet(at) : g.code[i].op = "IPartialCommit" /\ g.code[i].off < 0}
      open   == {i \in loops : \E j \in ToSet(at) :
                   j \in dest(g.code, i)..i /\ g.code[j].op = "IOpenCall"}
      Body(i) == verify(g, position, dest(g.code, i), i, <<>>)
      Whole  == verify(g, position, from, to - 1, <<>>)
  IN  {Body(i) : i \in open} \cup ({Whole} \ {"empty"})
\* A rule may match the empty string, a loop's body may not.
RuleError(errors) ==
  IF errors \subseteq {"fails"} THEN "" ELSE CHOOSE e \in errors : e # "fails"

-----------------------------------------------------------------------------
(* The constructors of patterns.                                           *)

RECURSIVE AnyCode(_)
AnyCode(n) == IF n > UCHAR_MAX THEN <<Inst("IAny", 0, UCHAR_MAX)>> \o AnyCode(n - UCHAR_MAX)
              ELSE <<Inst("IAny", 0, n)>>
any(n) == Done(Put(newpatt, AnyCode(n)))

Literal(cs) == Done(Put(newpatt, [i \in DOMAIN cs |-> Char(cs[i])]))
Number(n) ==
  LET more == AnyCode(-n - UCHAR_MAX)
      end  == 2 + Len(more)
  IN  CASE n = 0 -> Literal(<<>>)
        [] n > 0 -> any(n)
        [] n < 0 /\ -n <= UCHAR_MAX ->
             Done(Put(newpatt, <<Inst("ITestAny", 2, -n), Inst("IFail", 0, 0)>>))
        [] -n > UCHAR_MAX ->
             Done(Put(newpatt, <<Inst("ITestAny", end + 1, UCHAR_MAX), Inst("IChoice", end, UCHAR_MAX)>>
                               \o more \o <<Inst("IFailTwice", 0, 0)>>))
Boolean(v)  == IF v THEN Literal(<<>>) ELSE Done(Put(newpatt, <<Inst("IFail", 0, 0)>>))
set_l(set)  == IF Cardinality(set) = 1 THEN Literal(SetToSeq(set))
               ELSE Done(Put(newpatt, Charset("ISet", "IZSet", set)))
span_l(set) == Done(Put(newpatt, <<[Inst("IFunc", 1, 0) EXCEPT !.set = set]>>))
nter_l(key) == Done(Put(value2fenv(newpatt, key), <<Inst("IOpenCall", 1, 0)>>))
Function(f) == Done(Put(value2fenv(newpatt, f), <<Inst("ILFunc", 1, 0)>>))

isany(p) == p.code[1].op = "IAny" /\ size(p) = 1
Optimized(b) == [b EXCEPT !.code = Front(optimizecaptures(Append(@, Inst("IEnd", 0, 0)), 1, 1))]
concat_l(p1, p2) ==
  IF isany(p1) /\ isany(p2) THEN any(p1.code[1].aux + p2.code[1].aux)
  ELSE Done(Optimized(addpatt(addpatt(newpatt, p1), p2)))

diff_l(p1, p2) ==
  LET st1 == tocharset(p1)
      st2 == tocharset(p2)
      b2  == addpatt(newpatt, p2)
      ch  == addpatt(Put(newpatt, <<Inst("IChoice", size(p2) + 2, 0)>>), p2)
      choice == addpatt(Put(ch, <<Inst("IFailTwice", 0, 0)>>), p1)
  IN  CASE st1.tag = "ISCHARSET" /\ st2.tag = "ISCHARSET" ->
             Done(Put(newpatt, Charset("ISet", "IZSet", st1.cs \ st2.cs)))
        [] {st1.tag, st2.tag} # {"ISCHARSET"} /\ isheadfail(p2) ->
             Done(addpatt(Put([b2 EXCEPT !.code = check2test(@, 1, size(p2) + 1)],
                              <<Inst("IFail", 0, 0)>>), p1))
        [] OTHER -> Done([choice EXCEPT !.code = optimizechoice(@, 1)])

pattand_l(p) ==
  Done(Put(addpatt(Put(newpatt, <<Inst("IChoice", size(p) + 2, 0)>>), p),
           <<Inst("IBackCommit", 2, 0), Inst("IFail", 0, 1)>>))

\* The end of the first alternative of the l slots of p1, 0 if it has one only.
firstpart(code, l) ==
  LET e == code[1].off
  IN  IF \/ code[1].op \in Tests /\ code[e].op \in {"IJmp", "ICommit"} /\ e + code[e].off = l + 1
         \/ code[1].op = "IChoice" /\ code[e].op = "ICommit" /\ e + code[e].off = l + 1
      THEN e ELSE 0

\* Whether p1 may have consumed what p2 starts with when it fails.
interfere(code, st2) ==
  /\ \E i \in ToSet(Insts(code)) : code[i].op \notin NoFail
  /\ \/ st2.tag = "NOINFO"
     \/ code[1].op \in {"ITestAny", "ITestZSet"}
     \/ st2.cs \cap SetOf(code, 1) # {}

basicUnion(p1, p2) ==
  LET st1 == tocharset(p1)
      st2 == tocharset(p2)
      b   == addpatt(newpatt, p1)
      ch  == addpatt(Put(newpatt, <<Inst("IChoice", size(p1) + 2, 0)>>), p1)
      choice == addpatt(Put(ch, <<Inst("ICommit", size(p2) + 1, 0)>>), p2)
  IN  CASE st1.tag = "ISCHARSET" /\ st2.tag = "ISCHARSET" ->
             Put([b EXCEPT !.code = <<>>], Charset("ISet", "IZSet", st1.cs \cup st2.cs))
        [] {st1.tag, st2.tag} # {"ISCHARSET"} /\ (exclusive(st1, st2) \/ isheadfail(p1)) ->
             addpatt(Put([b EXCEPT !.code = check2test(@, 1, size(p1) + 1)],
                         <<Inst("IJmp", size(p2) + 1, 0)>>), p2)
        [] OTHER -> [choice EXCEPT !.code = optimizechoice(@, 1)]

RECURSIVE separateparts(_, _)
\* The alternatives of p1 before p2, each but the last as it is unless it interferes.
separateparts(p1, p2) ==
  LET l    == size(p1)
      sp   == firstpart(p1.code, l)
      rest == separateparts([p1 EXCEPT !.code = SubSeq(@, sp + 1, l + 1)], p2)
      part == SubSeq(p1.code, 1, sp)
      test == sizei(part[1])
      over == Len(rest.code) + 1
      undone == <<[part[1] EXCEPT !.off = @ + 1]>> \o SubSeq(part, 2, test) \o
                <<Inst("IChoice", sp - test + 1, 1)>> \o SubSeq(part, test + 1, sp - 1) \o
                <<Inst("ICommit", over, 0)>>
  IN  IF sp = 0 THEN basicUnion(p1, p2)
      ELSE IF part[sp].op = "ICommit" \/ ~interfere(part, tocharset(p2))
      THEN [rest EXCEPT !.code = [part EXCEPT ![sp].off = over] \o @]
      ELSE [rest EXCEPT !.code = undone \o @]

union_l(p1, p2) ==
  CASE p1.code[1].op = "IFail" -> p2
    [] p1.code[1].op # "IFail" /\ p2.code[1].op = "IFail" -> p1
    [] OTHER -> Done(separateparts(p1, p2))

-----------------------------------------------------------------------------
(* Repetition.                                                             *)

repeatcharset(p1, n) ==
  Done(Put(AddTimes(newpatt, p1, n), Charset("ISpan", "ISpanZ", tocharset(p1).cs)))
repeatheadfail(p1, n) ==
  LET b == AddTimes(newpatt, p1, n + 1)
  IN  Put([b EXCEPT !.code = check2test(@, n * size(p1) + 1, size(p1) + 1)],
          <<Inst("IJmp", -size(p1), 0)>>)
repeats(p1, n) ==
  LET b == Put(AddTimes(newpatt, p1, n), <<Inst("IChoice", size(p1) + 2, 0)>>)
  IN  Put(addpatt(b, p1), <<Inst("IPartialCommit", -size(p1), 0)>>)
optionalheadfail(p1, n) ==
  LET b == AddTimes(newpatt, p1, n)
  IN  [b EXCEPT !.code = FoldLeft(LAMBDA c, i : check2test(c, (i - 1) * size(p1) + 1, (n - i + 1) * size(p1)),
                                  @, [i \in 1..n |-> i])]
optionals(p1, n) ==
  LET start == Put(newpatt, <<Inst("IChoice", 1 + n * (size(p1) + 1), 0)>>)
      b == FoldLeft(LAMBDA acc, i : Put(addpatt(acc, p1),
                      <<Inst(IF i = n THEN "ICommit" ELSE "IPartialCommit", 1, 0)>>),
                    start, [i \in 1..n |-> i])
  IN  [b EXCEPT !.code = optimizechoice(@, 1)]

Unverified(p1) == "fails"  \* fault
BodyVerified(p1) == verify(p1, <<>>, 1, size(p1) + 1, <<>>)
star_l(p1, n) ==
  LET Loop(b) == [b EXCEPT !.code = Front(optimizejumps(optimizecaptures(Append(@, Inst("IEnd", 0, 0)), 1, 1)))]
  IN  CASE n >= 0 /\ tocharset(p1).tag = "ISCHARSET" -> repeatcharset(p1, n)
        [] n >= 0 /\ tocharset(p1).tag # "ISCHARSET" /\ isheadfail(p1) -> Done(Loop(repeatheadfail(p1, n)))
        [] n >= 0 /\ ~isheadfail(p1) ->
             IF BodyVerified(p1) = "fails" THEN Done(Loop(repeats(p1, n)))
             ELSE Bad(IF BodyVerified(p1) = "empty" THEN "loop body may accept empty string"
                      ELSE BodyVerified(p1))
        [] n < 0 -> Done(IF isheadfail(p1) THEN optionalheadfail(p1, -n) ELSE optionals(p1, -n))

-----------------------------------------------------------------------------
(* Captures.                                                               *)

NoLabel == <<>>
capture_aux(p1, kind, label) ==
  LET skip == skipchecks(p1.code, 1, 0, 0)
      b    == IF label = NoLabel THEN newpatt ELSE value2fenv(newpatt, label)
      idx  == Len(b.env)
      full == addpatt(b, p1)
      pair == Put(addpatt(Put(b, <<Capture("IOpenCapture", idx, kind, 0)>>), p1),
                  <<Capture("ICloseCapture", 0, "Cclose", 0)>>)
  IN  IF skip.to = size(p1) THEN Done(Put(full, <<Capture("IFullCapture", idx, kind, skip.n)>>))
      ELSE Done(Optimized(pair))

position_l == Done(Put(newpatt, <<Capture("IEmptyCapture", 0, "Cposition", 0)>>))
capconst_l(values) ==
  LET kept  == SelectSeq(values, LAMBDA v : v # Nil)
      Idx(i) == IF values[i] = Nil THEN 0 ELSE Cardinality({j \in 1..i : values[j] # Nil})
  IN  Done([code |-> [i \in DOMAIN values |-> Capture("IEmptyCapture", Idx(i), "Cconst", 0)], env |-> kept])

-----------------------------------------------------------------------------
(* Grammars: rules is a sequence of keys with their patterns.              *)

fix_l(rules, start) ==
  LET n        == Len(rules)
      At(i)    == 3 + FoldLeft(LAMBDA sum, j : sum + size(rules[j].p) + 1, 0, [j \in 1..i - 1 |-> j])
      position == [key \in {rules[i].key : i \in 1..n} |-> At(CHOOSE i \in 1..n : rules[i].key = key)]
      total    == At(n + 1) - 1
      first    == Put(newpatt, <<Inst("ICall", 0, 0), Inst("IJmp", total - 1, 0)>>)
      g        == FoldLeft(LAMBDA b, i : Put(addpatt(b, rules[i].p), <<Inst("IRet", 0, 0)>>),
                           first, [i \in 1..n |-> i])
      errors   == UNION {checkrule(g, position, At(i), At(i + 1)) : i \in 1..n}
      keys     == {g.env[g.code[i].off] : i \in {j \in ToSet(Insts(g.code)) : g.code[j].op = "IOpenCall"}}
      Called(code, i) ==
        IF code[i].op # "IOpenCall" THEN code
        ELSE [code EXCEPT ![i].op  = IF code[target(code, i + 1)].op = "IRet" THEN "IJmp" ELSE "ICall",
                          ![i].off = position[g.env[@]] - i]
      called   == FoldLeft(Called, [g.code EXCEPT ![1].off = position[start] - 1], Insts(g.code))
  IN  IF RuleError(errors) # "" THEN Bad(RuleError(errors))
      ELSE IF start \notin DOMAIN position THEN Bad("initial rule not defined")
      ELSE IF ~(keys \subseteq DOMAIN position) THEN Bad("not defined")
      ELSE Done([g EXCEPT !.code = Front(optimizejumps(Append(called, Inst("IEnd", 0, 0))))])

-----------------------------------------------------------------------------
(* The pattern of a tree: lpeg.P and the operators, in the order in which  *)
(* the program makes them.                                                 *)

RECURSIVE Pattern(_)
Binary(t) ==
  LET p1 == Pattern(t.l)
      p2 == Pattern(t.r)
  IN  CASE ~p1.ok -> p1
        [] p1.ok /\ ~p2.ok -> p2
        [] p1.ok /\ p2.ok ->
             CASE t.k = "seq" -> concat_l(p1, p2)
               [] t.k = "or"  -> union_l(p1, p2)
               [] t.k = "sub" -> diff_l(p1, p2)
Unary(t) ==
  LET p1 == Pattern(t.p)
  IN  CASE ~p1.ok -> p1
        [] p1.ok /\ t.k = "and" -> pattand_l(p1)
        [] p1.ok /\ t.k = "not" -> diff_l(Literal(<<>>), p1)
        [] p1.ok /\ t.k = "rep" -> star_l(p1, t.n)
        [] p1.ok /\ t.k = "cap" -> capture_aux(p1, t.kind, t.label)
Grammar(t) ==
  LET rules == [i \in DOMAIN t.rules |-> [key |-> <<"rule", t.rules[i].key>>, p |-> Pattern(t.rules[i].p)]]
      bad   == {i \in DOMAIN rules : ~rules[i].p.ok}
  IN  IF bad # {} THEN rules[Min(bad)].p ELSE fix_l(rules, <<"rule", t.start>>)
Pattern(t) ==
  CASE t.k = "lit"   -> Literal(t.cs)
    [] t.k = "any"   -> Number(t.n)
    [] t.k = "bool"  -> Boolean(t.b)
    [] t.k = "set"   -> set_l(t.set)
    [] t.k = "span"  -> span_l(t.set)
    [] t.k = "fun"   -> Function(<<"match", t.f>>)
    [] t.k = "var"   -> nter_l(<<"rule", t.v>>)
    [] t.k = "pos"   -> position_l
    [] t.k = "const" -> capconst_l(t.vs)
    [] t.k \in {"seq", "or", "sub"} -> Binary(t)
    [] t.k \in {"and", "not", "rep", "cap"} -> Unary(t)
    [] t.k = "grammar" -> Grammar(t)
=============================================================================
