------------------------------- MODULE LpegInv -------------------------------
(***************************************************************************)
(* What the machine of lpeg.c relies on.  It tests nothing but what it     *)
(* reads from the subject: that a commit finds its choice, a return its    *)
(* call, a close its open capture, and that a capture or a choice goes     *)
(* back over characters that were consumed, is left to the code.  A typing *)
(* says of each address that is reached what is then on the stack and in   *)
(* the captures; code that has one is what the machine may run.            *)
(***************************************************************************)
EXTENDS LpegMatch

\* At an address: whether the code runs outside of any rule, where the choices go
\* on that are pending since it, or the last call, began, how many captures were
\* opened and not closed since, and how many characters were consumed, at least,
\* since the last capture.
Where(main, pend, open, since) == [main |-> main, pend |-> pend, open |-> open, since |-> since]

IsWhere(x) == x \in [main : BOOLEAN, pend : Seq(Nat), open : Nat, since : Nat]

\* Where x is after the last choice was taken from its stack.
Popped(x) == [x EXCEPT !.pend = IF @ = <<>> THEN @ ELSE Front(@)]

\* The captures that the last choice found open.
OpenBefore(at, x) == IF x.pend = <<>> THEN 0 ELSE at[Last(x.pend)].open

\* The addresses an instruction leads to, apart from failures.
Flow(code, at, i) ==
  LET x  == at[i]
      op == code[i].op
      Then(j, y) == [to |-> j, at |-> y]
      Jump == i + code[i].off
      n    == IF op \in {"IAny", "ITestAny"} THEN code[i].aux ELSE 1
      Consumed  == Then(i + sizei(code[i]), [x EXCEPT !.since = @ + n])
      Opened(d) == [x EXCEPT !.open = @ + d, !.since = code[i].n]
  IN  CASE op \in Checks -> {Consumed}
        [] op \in Tests  -> {Consumed, Then(Jump, x)}
        [] op \in {"ISpan", "ISpanZ", "IFunc", "ILFunc"} -> {Then(i + sizei(code[i]), x)}
        [] op \in {"IJmp", "IPartialCommit"} -> {Then(Jump, x)}
        [] op = "IChoice" -> {Then(i + 1, [x EXCEPT !.pend = Append(@, Jump)]),
                              Then(Jump, [x EXCEPT !.since = @ - code[i].aux])}
        [] op = "ICall"   -> {Then(Jump, Where(FALSE, <<>>, 0, x.since)),
                              Then(i + 1, [x EXCEPT !.since = 0])}
        [] op = "ICommit" -> {Then(Jump, Popped(x))}
        [] op = "IBackCommit"   -> {Then(Jump, [Popped(x) EXCEPT !.open = OpenBefore(at, x), !.since = 0])}
        [] op = "IOpenCapture"  -> {Then(i + 1, Opened(1))}
        [] op = "ICloseCapture" -> {Then(i + 1, Opened(-1))}
        [] op = "IEmptyCapture" -> {Then(i + 1, Opened(0))}
        [] op = "IFullCapture"  -> {Then(i + 1, [x EXCEPT !.since = 0])}
        [] OTHER -> {}

\* What an instruction finds in its fields.
FieldsOK(inst) ==
  /\ inst.off \in Int /\ inst.n \in Nat
  /\ inst.op \in {"IAny", "ITestAny", "IChoice"} => inst.aux \in Nat
  /\ inst.op \in Captures => inst.aux \in STRING /\ (inst.aux = "Cclose" <=> inst.op = "ICloseCapture")

\* What an instruction needs where it is.
Needs(code, at, i) ==
  LET x  == at[i]
      op == code[i].op
      q  == Last(x.pend)
  IN  /\ op = "IEnd" => x.main /\ x.pend = <<0>>
      /\ op = "IRet" => ~x.main /\ x.pend = <<>> /\ x.open = 0
      /\ op = "IChoice" => code[i].aux <= x.since
      /\ op \in {"ICommit", "IBackCommit", "IPartialCommit", "IFailTwice"} =>
           x.pend # <<>> /\ (x.main => Len(x.pend) >= 2)
      /\ op = "IPartialCommit" => at[q].open = x.open /\ at[q].since <= x.since
      /\ op \in Captures => code[i].n <= x.since
      /\ op = "ICloseCapture" => OpenBefore(at, x) < x.open
      /\ op \in {"ISet", "ITestSet", "ISpan"} => NUL \notin code[i + 1].set

\* A pending choice goes on where it was made, with no more captures open.
Within(at, x) ==
  /\ x.main => x.pend # <<>>
  /\ x.pend # <<>> =>
       LET q == Last(x.pend)
       IN  /\ q \in DOMAIN at
           /\ at[q].main = x.main /\ at[q].pend = Front(x.pend) /\ at[q].open <= x.open

Agrees(x, y) == x.main = y.main /\ x.pend = y.pend /\ x.open = y.open /\ x.since <= y.since

Typed(code, at) ==
  /\ DOMAIN at \subseteq 0..Len(code) /\ \A i \in DOMAIN at : IsWhere(at[i])
  /\ {0, 1} \subseteq DOMAIN at
  /\ at[0] = Where(TRUE, <<>>, 0, 0) /\ at[1] = Where(TRUE, <<0>>, 0, 0)
  /\ \A i \in DOMAIN at \ {0} :
       /\ FieldsOK(code[i]) /\ Needs(code, at, i) /\ Within(at, at[i])
       /\ \A f \in Flow(code, at, i) : f.to \in DOMAIN at \ {0} /\ Agrees(at[f.to], f.at)

-----------------------------------------------------------------------------
(* The typing of a code, by going through it until nothing changes: a      *)
(* round for each rule and two more are enough for the code of Pattern.    *)

Merge(at, f) ==
  IF f.to \in DOMAIN at THEN [at EXCEPT ![f.to].since = Min({@, f.at.since})]
  ELSE [i \in DOMAIN at \cup {f.to} |-> IF i = f.to THEN f.at ELSE at[i]]
Visit(code, at, i) == IF i \in DOMAIN at THEN FoldSet(LAMBDA f, sofar : Merge(sofar, f), at, Flow(code, at, i)) ELSE at

Typing(code) ==
  LET Start  == [i \in {0, 1} |-> Where(TRUE, IF i = 0 THEN <<>> ELSE <<0>>, 0, 0)]
      Through(at) == FoldLeft(LAMBDA sofar, i : Visit(code, sofar, i), at, [i \in 1..Len(code) |-> i])
      calls  == Cardinality({i \in DOMAIN code : code[i].op = "ICall"})
      after[n \in 0..calls + 2] == IF n = 0 THEN Start ELSE Through(after[n - 1])
  IN  after[calls + 2]

\* The patterns that are matched: whatever the optimiser made of their code, it has
\* a typing.
ASSUME CodeAssumption ==
  /\ \A c \in Cases : c.subj \in Seq(Chars) /\ c.init \in Int
  /\ \A tree \in {c.tree : c \in Cases} :
       LET made == Compiler(tree) IN made.ok => Typed(made.code, Typing(made.code))

-----------------------------------------------------------------------------
(* The stack and the captures under a typing.  The state of the machine is *)
(* taken as one more choice on top of the stack, which a failure would     *)
(* come back to.                                                           *)

Levels == Append(stack, [s |-> s, p |-> p, caplevel |-> Len(capture)])

\* How many captures are open after the first k.
Opens(caps)   == {i \in DOMAIN caps : caps[i].siz = 0}
Closes(caps)  == {i \in DOMAIN caps : isclosecap(caps[i])}
Open(caps, k) == Cardinality(Opens(caps) \cap 1..k) - Cardinality(Closes(caps) \cap 1..k)

CapturesOK(caps) ==
  /\ caps \in Seq([s : Nat \ {0}, idx : Int, kind : STRING, siz : Nat])
  /\ \A i \in DOMAIN caps : i > 1 => caps[i - 1].s <= caps[i].s
  /\ \A i \in DOMAIN caps : Open(caps, i) >= 0

\* The level i lies on a choice that goes on at Last(pend), or on the call that
\* began the rule, or on nothing.
Linked(at, w, i) ==
  LET x == at[w[i].p]
  IN  /\ x.pend = <<>> => IF x.main THEN i = 1 ELSE i > 1 /\ w[i - 1].s = NULL
      /\ x.pend # <<>> => i > 1 /\ w[i - 1].s # NULL /\ w[i - 1].p = Last(x.pend)

\* The captures that a choice keeps lie before the characters that it may give back.
Keeps(at, end, w, caps, i) ==
  LET x == at[w[i].p]
  IN  /\ w[i].s \in x.since + 1..end
      /\ w[i].caplevel \in 0..Len(caps)
      /\ \A k \in 1..w[i].caplevel :
           caps[k].s <= w[i].s - x.since /\ closeaddr(caps[k]) <= w[i].s - x.since

\* base[i] captures are open in the rules below the one that the level i is in.
Based(at, w, base, i) ==
  base[i] = IF i = 1 THEN 0
            ELSE IF w[i - 1].s = NULL THEN base[i - 1] + at[w[i - 1].p].open ELSE base[i - 1]

\* No level closes captures of a choice below it.
Above(at, w, base, i, j) ==
  w[i].s # NULL =>
    /\ base[i] + at[w[i].p].open <= base[j] + OpenBefore(at, at[w[j].p])
    /\ w[j].s # NULL => w[i].caplevel <= w[j].caplevel

LevelOK(at, end, w, caps, base, i) ==
  /\ w[i].p \in DOMAIN at /\ w[i].s \in Nat /\ base[i] \in Nat
  /\ i = 1 => w[i].s # NULL
  /\ Linked(at, w, i) /\ Based(at, w, base, i)
  /\ w[i].s = NULL => at[w[i].p].since = 0
  /\ w[i].s # NULL => Keeps(at, end, w, caps, i) /\ Open(caps, w[i].caplevel) = base[i] + at[w[i].p].open
  /\ \A k \in 1..i - 1 : Above(at, w, base, k, i)

Fits(at, end, w, caps, base, n) == \A i \in 1..n : LevelOK(at, end, w, caps, base, i)
=============================================================================
