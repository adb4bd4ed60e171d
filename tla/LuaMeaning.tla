----------------------------- MODULE LuaMeaning -----------------------------
(***************************************************************************)
(* What a program means: an evaluator of the syntax trees of LuaParser     *)
(* that knows nothing of registers, jumps or upvalues.  A variable in      *)
(* scope is a cell of its own; env maps the names in scope to cells, va is *)
(* the extra arguments of the function, and a state st is                  *)
(* [cells, tabs, clos, globals, log, stop], stop being "error" after an    *)
(* error and "" before.  Evaluating gives values vs and the next state;    *)
(* after an error nothing more happens.                                    *)
(*                                                                         *)
(* The order of evaluation the manual leaves open is left to right.        *)
(***************************************************************************)
EXTENDS LuaVM

CONSTANT Evaluator(_)  \* what a chunk is to show and to leave: Meaning, below

V(vs, st)  == [vs |-> vs, st |-> st]
Stop(st)   == V(<<>>, [st EXCEPT !.stop = "error", !.log = Append(@, <<"error">>)])
First(vs)  == IF vs = <<>> THEN Nil ELSE vs[1]
IsTab(v)   == v[1] = "tab"

\* The names are bound to new cells with the values, or nil.
Bind(env, names, vs, st) ==
  LET n == Len(st.cells)
  IN  [env |-> [x \in DOMAIN env \cup ToSet(names) |->
                  IF x \in ToSet(names)
                  THEN n + (CHOOSE i \in DOMAIN names :
                              names[i] = x /\ \A j \in DOMAIN names : names[j] = x => j <= i)
                  ELSE env[x]],
       st  |-> [st EXCEPT !.cells = @ \o [i \in DOMAIN names |->
                                            IF i <= Len(vs) THEN vs[i] ELSE Nil]]]

Plain(op, a, b, st) ==
  CASE op \in DOMAIN ArithOps ->
         IF IsNum(a) /\ IsNum(b) THEN V(<<Num(Arith(ArithOps[op], a[2], b[2]))>>, st) ELSE Stop(st)
    [] op = ".." -> IF a[1] \in {"num", "str"} /\ b[1] \in {"num", "str"}
                    THEN V(<<Str(Chars(a) \o Chars(b))>>, st) ELSE Stop(st)
    [] op = "==" -> V(<<Bool(a = b)>>, st)
    [] op = "~=" -> V(<<Bool(a # b)>>, st)
    [] op \in {"<", "<=", ">", ">="} ->
         IF IsNum(a) /\ IsNum(b)
         THEN V(<<Bool(CASE op = "<" -> a[2] < b[2] [] op = "<=" -> a[2] <= b[2]
                         [] op = ">" -> a[2] > b[2] [] op = ">=" -> a[2] >= b[2])>>, st)
         ELSE Stop(st)

Unary(op, a, st) ==
  CASE op = "not" -> V(<<Bool(l_isfalse(a))>>, st)
    [] op = "-"   -> IF IsNum(a) THEN V(<<Num(-a[2])>>, st) ELSE Stop(st)
    [] op = "#"   -> IF IsTab(a) THEN V(<<Num(Border(st.tabs[a[2]]))>>, st)
                     ELSE IF a[1] = "str" THEN V(<<Num(Len(a[2]))>>, st) ELSE Stop(st)

RECURSIVE Ev(_, _, _, _), Evs(_, _, _, _), Apply(_, _, _), Fill(_, _, _, _, _, _),
          Ex(_, _, _, _), Loop(_, _, _, _), For(_, _, _, _, _, _, _), ForIn(_, _, _, _, _, _),
          Targets(_, _, _, _)

\* One value.
Ev1(e, env, va, st) == LET r == Ev(e, env, va, st) IN V(<<First(r.vs)>>, r.st)

Ev(e, env, va, st) ==
  IF st.stop # "" THEN V(<<>>, st) ELSE
  CASE e.k = "nil"   -> V(<<Nil>>, st)
    [] e.k = "true"  -> V(<<Bool(TRUE)>>, st)
    [] e.k = "false" -> V(<<Bool(FALSE)>>, st)
    [] e.k = "num"   -> V(<<Num(e.v)>>, st)
    [] e.k = "str"   -> V(<<Str(e.s)>>, st)
    [] e.k = "vararg" -> V(va, st)
    [] e.k = "name"  -> V(<<IF e.n \in DOMAIN env THEN st.cells[env[e.n]]
                            ELSE Get(st.globals, Str(<<e.n>>))>>, st)
    [] e.k = "paren" -> Ev1(e.e, env, va, st)
    [] e.k = "index" ->
         LET t == Ev1(e.e, env, va, st)
             i == Ev1(e.i, env, va, t.st)
         IN  IF i.st.stop # "" THEN i
             ELSE IF IsTab(t.vs[1]) THEN V(<<Get(i.st.tabs[t.vs[1][2]], i.vs[1])>>, i.st)
             ELSE Stop(i.st)
    [] e.k = "call" ->
         LET f == Ev1(e.f, env, va, st)
             a == Evs(e.args, env, va, f.st)
         IN  Apply(f.vs[1], a.vs, a.st)
    [] e.k = "method" ->
         LET o == Ev1(e.e, env, va, st)
             m == Get(o.st.tabs[o.vs[1][2]], Str(e.n))
             a == Evs(e.args, env, va, o.st)
         IN  IF o.st.stop # "" THEN o
             ELSE IF IsTab(o.vs[1]) THEN Apply(m, o.vs \o a.vs, a.st) ELSE Stop(o.st)
    [] e.k = "un" ->
         LET a == Ev1(e.e, env, va, st)
         IN  IF a.st.stop # "" THEN a ELSE Unary(e.op, a.vs[1], a.st)
    [] e.k = "bin" /\ e.op \in {"and", "or"} ->
         LET a == Ev1(e.l, env, va, st)
         IN  IF a.st.stop # "" \/ l_isfalse(a.vs[1]) = (e.op = "and") THEN a
             ELSE Ev1(e.r, env, va, a.st)
    [] e.k = "bin" /\ e.op \notin {"and", "or"} ->
         LET a == Ev1(e.l, env, va, st)
             b == Ev1(e.r, env, va, a.st)
         IN  IF b.st.stop # "" THEN b ELSE Plain(e.op, a.vs[1], b.vs[1], b.st)
    [] e.k = "table" ->
         LET t == Len(st.tabs) + 1
             f == Fill(t, e.items, 1, env, va, [st EXCEPT !.tabs = Append(@, Empty)])
         IN  V(<<Tab(t)>>, f)
    [] e.k = "function" ->
         V(<<Fun(Len(st.clos) + 1)>>,
           [st EXCEPT !.clos = Append(@, [f |-> e, env |-> env])])

\* A list of expressions: all the values of the last one.
Evs(es, env, va, st) ==
  IF es = <<>> THEN V(<<>>, st)
  ELSE IF Len(es) = 1 THEN Ev(es[1], env, va, st)
  ELSE LET a == Ev1(es[1], env, va, st)
           b == Evs(Tail(es), env, va, a.st)
       IN  V(a.vs \o b.vs, b.st)

\* The items of a constructor; n is the next position.
Fill(t, items, n, env, va, st) ==
  IF items = <<>> \/ st.stop # "" THEN st
  ELSE LET i == Head(items)
           k == Ev1(i.i, env, va, st)
           v == Ev1(i.e, env, va, k.st)
           l == Evs(<<i.e>>, env, va, st)
           vs == IF Len(items) = 1 THEN l.vs ELSE <<First(l.vs)>>
           put[j \in 0..Len(vs)] == IF j = 0 THEN l.st.tabs[t]
                                    ELSE Put(put[j - 1], Num(n + j - 1), vs[j])
       IN  IF i.k = "field"
           THEN IF v.st.stop # "" \/ k.vs[1] = Nil THEN Stop(v.st).st
                ELSE Fill(t, Tail(items), n, env, va, [v.st EXCEPT !.tabs[t] = Put(@, k.vs[1], v.vs[1])])
           ELSE IF l.st.stop # "" THEN l.st
           ELSE Fill(t, Tail(items), n + 1, env, va, [l.st EXCEPT !.tabs[t] = put[Len(vs)]])

Apply(f, args, st) ==
  IF st.stop # "" THEN V(<<>>, st)
  ELSE IF f[1] = "host"
  THEN V(HostResults(f[2], args), IF f[2] = "f" THEN [st EXCEPT !.log = Append(@, args)] ELSE st)
  ELSE IF f[1] # "fun" THEN Stop(st)
  ELSE LET c == st.clos[f[2]]
           n == Len(c.f.params)
           b == Bind(c.env, c.f.params, args, st)
           r == Ex(c.f.body, b.env, IF c.f.vararg THEN SubSeq(args, n + 1, Len(args)) ELSE <<>>, b.st)
       IN  V(r.vs, r.st)

-----------------------------------------------------------------------------
(* Statements end with how: "next", "break" or "return" with values vs.    *)

Done(st) == [how |-> "next", vs |-> <<>>, st |-> st]

\* The table and key expressions of the variables, left to right.
Targets(xs, env, va, st) ==
  IF xs = <<>> THEN V(<<>>, st)
  ELSE LET x == Head(xs)
           t == Ev1(x.e, env, va, st)
           i == Ev1(x.i, env, va, t.st)
           s == IF x.k = "index" THEN i.st ELSE st
           w == IF x.k = "index" THEN <<t.vs[1], i.vs[1]>> ELSE <<x.n>>
           r == Targets(Tail(xs), env, va, s)
       IN  V(<<w>> \o r.vs, r.st)

Set(x, w, v, env, st) ==
  IF st.stop # "" THEN st
  ELSE IF x.k = "name"
  THEN IF x.n \in DOMAIN env THEN [st EXCEPT !.cells[env[x.n]] = v]
       ELSE [st EXCEPT !.globals = Put(@, Str(<<x.n>>), v)]
  ELSE IF IsTab(w[1]) /\ w[2] # Nil THEN [st EXCEPT !.tabs[w[1][2]] = Put(@, w[2], v)]
  ELSE Stop(st).st

\* The assignments are made from the last variable to the first.
Assigned(s, env, va, st) ==
  LET w == Targets(s.vars, env, va, st)
      r == Evs(s.es, env, va, w.st)
      n == Len(s.vars)
      made[i \in 0..n] ==
        IF i = 0 THEN r.st
        ELSE LET j == n + 1 - i
             IN  Set(s.vars[j], w.vs[j], IF j <= Len(r.vs) THEN r.vs[j] ELSE Nil, env, made[i - 1])
  IN  made[n]

\* Which clause of an if applies: its number, or 0.
RECURSIVE Chosen(_, _, _, _, _)
Chosen(cs, i, env, va, st) ==
  IF i > Len(cs) THEN [i |-> 0, st |-> st]
  ELSE LET c == Ev1(cs[i].c, env, va, st)
       IN  IF c.st.stop # "" \/ ~l_isfalse(c.vs[1]) THEN [i |-> i, st |-> c.st]
           ELSE Chosen(cs, i + 1, env, va, c.st)

\* A loop: its body, or for a repeat its body with the condition in scope.
Loop(s, env, va, st) ==
  LET c == Ev1(s.c, env, va, st)
      b == Ex(IF s.k = "repeat" THEN Append(s.body, [k |-> "until", c |-> s.c]) ELSE s.body,
              env, va, IF s.k = "repeat" THEN st ELSE c.st)
  IN  CASE st.stop # "" -> Done(st)
        [] st.stop = "" /\ s.k = "while" /\ (c.st.stop # "" \/ l_isfalse(c.vs[1])) -> Done(c.st)
        [] OTHER -> IF b.how = "next" THEN Loop(s, env, va, b.st)
                    ELSE IF b.how = "break" THEN Done(b.st) ELSE b

For(s, i, limit, step, env, va, st) ==
  LET b == Bind(env, <<s.n>>, <<Num(i)>>, st)
      r == Ex(s.body, b.env, va, b.st)
  IN  IF st.stop # "" \/ (IF 0 < step THEN i > limit ELSE i < limit) THEN Done(st)
      ELSE IF r.how = "next" THEN For(s, i + step, limit, step, env, va, r.st)
      ELSE IF r.how = "break" THEN Done(r.st) ELSE r

ForIn(s, c, w, env, va, st) ==
  LET a == Apply(w[1], <<w[2], c>>, st)
      b == Bind(env, s.names, a.vs, a.st)
      r == Ex(s.body, b.env, va, b.st)
  IN  IF a.st.stop # "" \/ First(a.vs) = Nil THEN Done(a.st)
      ELSE IF r.how = "next" THEN ForIn(s, First(a.vs), w, env, va, r.st)
      ELSE IF r.how = "break" THEN Done(r.st) ELSE r

Ex(stats, env, va, st) ==
  IF stats = <<>> \/ st.stop # "" THEN Done(st) ELSE
  LET s == Head(stats)
      Then(r) == IF r.how = "next" THEN Ex(Tail(stats), env, va, r.st) ELSE r
  IN CASE s.k = "local" ->
            LET r == Evs(s.es, env, va, st)
                b == Bind(env, s.names, r.vs, r.st)
            IN  IF r.st.stop # "" THEN Done(r.st) ELSE Ex(Tail(stats), b.env, va, b.st)
       [] s.k = "localfunction" ->
            LET b == Bind(env, <<s.n>>, <<>>, st)
                f == Ev(s.f, b.env, va, b.st)
            IN  Ex(Tail(stats), b.env, va, [f.st EXCEPT !.cells[b.env[s.n]] = f.vs[1]])
       [] s.k = "function" ->
            Then(Done(Assigned([vars |-> <<s.var>>, es |-> <<s.f>>], env, va, st)))
       [] s.k = "assign" -> Then(Done(Assigned(s, env, va, st)))
       [] s.k = "call"   -> Then(Done(Ev(s.e, env, va, st).st))
       [] s.k = "do"     -> Then(Ex(s.body, env, va, st))
       [] s.k \in {"while", "repeat"} -> Then(Loop(s, env, va, st))
       [] s.k = "until"  ->
            LET c == Ev1(s.c, env, va, st)
            IN  IF c.st.stop # "" \/ l_isfalse(c.vs[1]) THEN Done(c.st)
                ELSE [how |-> "break", vs |-> <<>>, st |-> c.st]
       [] s.k = "if" ->
            LET c == Chosen(s.clauses, 1, env, va, st)
            IN  Then(IF c.st.stop # "" THEN Done(c.st)
                     ELSE IF c.i # 0 THEN Ex(s.clauses[c.i].body, env, va, c.st)
                     ELSE IF s.else # <<>> THEN Ex(s.else[1], env, va, c.st) ELSE Done(c.st))
       [] s.k = "fornum" ->
            LET r == Evs([i \in DOMAIN s.es |-> [k |-> "paren", e |-> s.es[i]]], env, va, st)
                step == IF Len(s.es) = 3 THEN r.vs[3] ELSE Num(1)
            IN  Then(IF r.st.stop # "" THEN Done(r.st)
                     ELSE IF ~(IsNum(r.vs[1]) /\ IsNum(r.vs[2]) /\ IsNum(step))
                     THEN Done(Stop(r.st).st)
                     ELSE For(s, r.vs[1][2], r.vs[2][2], step[2], env, va, r.st))
       [] s.k = "forlist" ->
            LET r == Evs(s.es, env, va, st)
                w == [i \in 1..3 |-> IF i <= Len(r.vs) THEN r.vs[i] ELSE Nil]
            IN  Then(IF r.st.stop # "" THEN Done(r.st) ELSE ForIn(s, w[3], w, env, va, r.st))
       [] s.k = "return" ->
            LET r == Evs(s.es, env, va, st)
            IN  IF r.st.stop # "" THEN Done(r.st) ELSE [how |-> "return", vs |-> r.vs, st |-> r.st]
       [] s.k = "break" -> [how |-> "break", vs |-> <<>>, st |-> st]

\* What running the chunk shows, and what it leaves.
Meaning(chunk0) ==
  LET st == [cells |-> <<>>, tabs |-> <<>>, clos |-> <<[f |-> <<>>, env |-> <<>>]>>,
             globals |-> InitGlobals, log |-> <<>>, stop |-> ""]
      r  == Ex(chunk0, [x \in {} |-> 0], <<>>, st)
  IN  [log |-> IF r.st.stop = "" THEN Append(r.st.log, r.vs) ELSE r.st.log,
       tabs |-> r.st.tabs, globals |-> r.st.globals]

-----------------------------------------------------------------------------
(* Properties.                                                             *)

\* A function and the functions in it.
RECURSIVE Within(_)
Within(p) == {p} \cup UNION {Within(q) : q \in ToSet(p.p)}

\* The code generator meets none of its own assertions and what it generates
\* passes the checker of bytecode, so that the interpreter never reads a register
\* outside the frame, a constant that is not there or a count as an instruction
\* (lparser.c:374 asserts it of each function).
CodeChecked ==
  status = "run" /\ log = <<>> => \A p \in Within(main) : p.ok /\ luaG_checkcode(p)

\* Between two instructions L->top is the limit of the frame, but where an open
\* list of values waits for the next instruction, which takes it (lvm.c:399-401).
TopAtLimit ==
  status = "run" =>
    /\ F.base <= top /\ top <= StackSize
    /\ top = F.top \/ luaG_checkopenop(I)

\* Open upvalues are variables of functions that are active, one for each
\* variable: an upvalue left open in a frame that has gone would share the
\* variables of the next one.
OpenUpvaluesLive ==
  \A u \in DOMAIN upvals : upvals[u].open =>
    /\ \E i \in DOMAIN ci : upvals[u].level \in ci[i].base..ci[i].top - 1
    /\ OpenAt(M, upvals[u].level) = {u}

\* The program shows what it means, and leaves the tables and the globals it
\* means to: whatever the code generator did with registers, jumps, constants
\* and upvalues, and whatever the interpreter keeps of a call, nothing else.
AsMeant ==
  status \in {"done", "error"} => [log |-> log, tabs |-> tabs, globals |-> globals] = Evaluator(prog)
=============================================================================
