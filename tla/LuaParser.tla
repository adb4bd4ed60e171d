------------------------------ MODULE LuaParser ------------------------------
(***************************************************************************)
(* What lparser.c generates for a chunk: the grammar rules as operators on *)
(* syntax trees, each the translation of the function of the same name.    *)
(* The tokens themselves are left out: a rule is given the tree of what it *)
(* reads.                                                                  *)
(*                                                                         *)
(* Expressions, by k: nil, true, false, num (v), str (s), vararg, name (n),*)
(* paren (e), index (e, i), call (f, args), method (e, n, args), un (op,   *)
(* e), bin (op, l, r), table (items), function (params, vararg, body).  A  *)
(* table item is an item (e) or a field (i, e).                            *)
(* Statements: local (names, es), assign (vars, es), call (e), do (body),  *)
(* while (c, body), repeat (body, c), if (clauses of c and body, else a    *)
(* sequence of at most one body), fornum (n, es, body), forlist (names,    *)
(* es, body), localfunction (n, f), function (var, f), return (es), break. *)
(***************************************************************************)
EXTENDS LuaCode

\* Around the main function there is none.
NoFunction == <<>>

\* A function being compiled inside prev.
open_func(prev, params, vararg) ==
  [code |-> <<>>, k |-> <<>>, jpc |-> NO_JUMP, lasttarget |-> -1, freereg |-> 0,
   actvar |-> <<>>, bl |-> <<>>, maxstack |-> 2, ups |-> <<>>, p |-> <<>>,
   params |-> params, vararg |-> vararg, prev |-> prev, ok |-> TRUE]

adjustlocalvars(fs, names) == [fs EXCEPT !.actvar = @ \o names]
removevars(fs, tolevel)    == [fs EXCEPT !.actvar = SubSeq(@, 1, tolevel)]

-----------------------------------------------------------------------------
(* Variables.                                                              *)

\* The register of the innermost local variable n.
Locals(fs, n)    == {i \in DOMAIN fs.actvar : fs.actvar[i] = n}
searchvar(fs, n) == (CHOOSE i \in Locals(fs, n) : \A j \in Locals(fs, n) : j <= i) - 1

\* The innermost block that declares the register level has an upvalue.
markupval(fs, level) ==
  LET around == {i \in DOMAIN fs.bl : fs.bl[i].nactvar <= level}
      inner  == CHOOSE i \in around : \A j \in around : j <= i
  IN  IF around = {} THEN fs ELSE [fs EXCEPT !.bl[inner].upval = TRUE]

\* The upvalue is at index i of the result.
indexupvalue(fs, kind, info) ==
  LET u    == [k |-> kind, info |-> info]
      same == {i \in DOMAIN fs.ups : fs.ups[i] = u}
  IN  IF same # {} THEN [fs |-> fs, i |-> (CHOOSE i \in same : TRUE) - 1]
      ELSE [fs |-> [fs EXCEPT !.ups = Append(@, u)], i |-> Len(fs.ups)]

RECURSIVE singlevaraux(_, _, _)
singlevaraux(fs, n, base) ==
  IF DOMAIN fs = {} THEN [fs |-> fs, e |-> init_exp("VGLOBAL", NO_REG)]
  ELSE IF Locals(fs, n) # {}
  THEN LET v == searchvar(fs, n)
       IN  [fs |-> IF base THEN fs ELSE markupval(fs, v), e |-> init_exp("VLOCAL", v)]
  ELSE LET up == singlevaraux(fs.prev, n, FALSE)
           f  == [fs EXCEPT !.prev = up.fs]
           u  == indexupvalue(f, up.e.k, up.e.info)
       IN  IF up.e.k = "VGLOBAL" THEN [fs |-> f, e |-> up.e]
           ELSE [fs |-> u.fs, e |-> init_exp("VUPVAL", u.i)]

singlevar(fs, n) ==
  LET v == singlevaraux(fs, n, TRUE)
      k == addk(v.fs, Str(<<n>>))
  IN  IF v.e.k = "VGLOBAL" THEN [fs |-> k.fs, e |-> [v.e EXCEPT !.info = k.i]] ELSE v

codestring(fs, s) == LET k == addk(fs, Str(s)) IN [fs |-> k.fs, e |-> init_exp("VK", k.i)]

adjust_assign(x, nvars, nexps) ==
  LET extra == nvars - nexps
      more  == IF extra + 1 < 0 THEN 0 ELSE extra + 1
      open  == luaK_setreturns(x, more).fs
      last  == IF x.e.k = "VVOID" THEN x.fs ELSE luaK_exp2nextreg(x).fs
  IN  CASE hasmultret(x.e) -> IF more > 1 THEN luaK_reserveregs(open, more - 1) ELSE open
        [] ~hasmultret(x.e) /\ extra > 0 ->
             luaK_nil(luaK_reserveregs(last, extra), last.freereg, extra)
        [] OTHER -> last

-----------------------------------------------------------------------------
(* Blocks.                                                                 *)

enterblock(fs, isbreakable) ==
  lua_assert([fs EXCEPT !.bl = Append(@, [breaklist |-> NO_JUMP, isbreakable |-> isbreakable,
                                      nactvar |-> nactvar(fs), upval |-> FALSE])],
         fs.freereg = nactvar(fs))

leaveblock(fs) ==
  LET bl == Last(fs.bl)
      f  == removevars([fs EXCEPT !.bl = Front(@)], bl.nactvar)
      c  == IF bl.upval THEN Emit(f, "CLOSE", bl.nactvar, 0, 0) ELSE f
      ok == lua_assert(c, ~bl.isbreakable \/ ~bl.upval)
  IN  luaK_patchtohere([ok EXCEPT !.freereg = bl.nactvar], bl.breaklist)

\* The blocks left by a break, and whether one of them has upvalues to close.
LeftBy(fs) ==
  LET loops == {i \in DOMAIN fs.bl : fs.bl[i].isbreakable}
      loop  == CHOOSE i \in loops : \A j \in loops : j <= i
  IN  loop
ToClose(fs) == \E i \in LeftBy(fs) + 1..Len(fs.bl) : fs.bl[i].upval

breakstat(fs) ==
  LET loop == LeftBy(fs)
      c    == IF ToClose(fs) THEN Emit(fs, "CLOSE", fs.bl[loop].nactvar, 0, 0) ELSE fs
      j    == luaK_jump(c)
      r    == Concat(j.fs, j.fs.bl[loop].breaklist, j.l)
  IN  [r.fs EXCEPT !.bl[loop].breaklist = r.l]

-----------------------------------------------------------------------------
(* The assignments to indexed variables that come before in lhs use a copy *)
(* of a local variable that the same statement assigns.                    *)

check_conflict(fs, lhs, v) ==
  LET Uses(l) == l.k = "VINDEXED" /\ v.info \in {l.info, l.aux}
      Safe(l) == IF l.k # "VINDEXED" THEN l
                 ELSE [l EXCEPT !.info = IF @ = v.info THEN fs.freereg ELSE @,
                                !.aux  = IF @ = v.info THEN fs.freereg ELSE @]
  IN  IF \E i \in DOMAIN lhs : Uses(lhs[i])
      THEN [fs |-> luaK_reserveregs(Emit(fs, "MOVE", fs.freereg, v.info, 0), 1),
            lhs |-> [i \in DOMAIN lhs |-> Safe(lhs[i])]]
      ELSE [fs |-> fs, lhs |-> lhs]

\* The variables are assigned from the last to the first, each from the register
\* below.
RECURSIVE StoreFrom(_, _, _)
StoreFrom(fs, lhs, i) ==
  IF i = 0 \/ ~fs.ok THEN fs
  ELSE StoreFrom(luaK_storevar(fs, lhs[i], init_exp("VNONRELOC", fs.freereg - 1)), lhs, i - 1)

\* The code of a function: its last instruction returns.
close_func(fs) ==
  LET f == luaK_ret(removevars(fs, 0), 0, 0)
  IN  [code |-> f.code, k |-> f.k, p |-> f.p, params |-> f.params, vararg |-> f.vararg,
       nups |-> Len(f.ups), maxstack |-> f.maxstack, ok |-> f.ok /\ f.bl = <<>>]

\* The instructions after OP_CLOSURE say where its upvalues are.
RECURSIVE Captures(_, _)
Captures(fs, ups) ==
  IF ups = <<>> THEN fs
  ELSE Captures(Emit(fs, IF Head(ups).k = "VLOCAL" THEN "MOVE" ELSE "GETUPVAL",
                     0, Head(ups).info, 0), Tail(ups))
pushclosure(fs, func) ==
  LET c == Relocable([fs EXCEPT !.p = Append(@, close_func(func))],
                     init_exp("VRELOCABLE", 0), "CLOSURE", Len(fs.p), 0)
  IN  [c EXCEPT !.fs = Captures(@, func.ups)]

-----------------------------------------------------------------------------
(* Table constructors: cc has the pending item v, the counts na and        *)
(* tostore, and the register t of the table.                               *)

closelistfield(cc) ==
  LET n == luaK_exp2nextreg([fs |-> cc.fs, e |-> cc.v])
  IN  IF cc.v.k = "VVOID" THEN cc
      ELSE IF cc.tostore = LFIELDS_PER_FLUSH
      THEN [cc EXCEPT !.fs = luaK_setlist(n.fs, cc.t, cc.na, cc.tostore),
                      !.v.k = "VVOID", !.tostore = 0]
      ELSE [cc EXCEPT !.fs = n.fs, !.v.k = "VVOID"]

lastlistfield(cc) ==
  LET x == [fs |-> cc.fs, e |-> cc.v]
      f == IF cc.v.k # "VVOID" THEN luaK_exp2nextreg(x).fs ELSE cc.fs
  IN  CASE cc.tostore = 0 -> cc.fs
        [] cc.tostore # 0 /\ hasmultret(cc.v) ->
             luaK_setlist(luaK_setmultret(x).fs, cc.t, cc.na, LUA_MULTRET)
        [] cc.tostore # 0 /\ ~hasmultret(cc.v) -> luaK_setlist(f, cc.t, cc.na, cc.tostore)

-----------------------------------------------------------------------------
(* The grammar.  An assertion that fails ends the work on a chunk.         *)

Failed(fs) == [fs |-> [fs EXCEPT !.ok = FALSE], e |-> init_exp("VVOID", 0)]

RECURSIVE expr(_, _), explist1(_, _), constructor(_, _), Items(_, _), chunk(_, _)

body(fs, f) ==
  LET new == adjustlocalvars(open_func(fs, Len(f.params), f.vararg), f.params)
      in  == chunk(luaK_reserveregs(new, Len(f.params)), f.body)
  IN  IF fs.ok /\ in.ok THEN pushclosure(in.prev, in) ELSE Failed(fs)

\* The arguments close the call at the register after the last one.
funcargs(x, args) ==
  LET base   == x.e.info
      a      == explist1(x.fs, args)
      m      == luaK_setmultret(a)
      closed == IF args = <<>> THEN x.fs ELSE luaK_exp2nextreg(a).fs
      open   == args # <<>> /\ hasmultret(a.e)
      f      == IF open THEN m.fs ELSE closed
      n      == IF open THEN LUA_MULTRET ELSE f.freereg - (base + 1)
      c      == Emit(lua_assert(f, x.e.k = "VNONRELOC"), "CALL", base, n + 1, 2)
  IN  [fs |-> [c EXCEPT !.freereg = base + 1], e |-> init_exp("VCALL", Pc(c) - 1)]

primaryexp(fs, e) ==
  CASE e.k = "name"  -> singlevar(fs, e.n)
    [] e.k = "paren" -> luaK_dischargevars(expr(fs, e.e))
    [] e.k = "index" ->
         LET t == luaK_exp2anyreg(expr(fs, e.e))
             i == luaK_exp2val(expr(t.fs, e.i))
         IN  luaK_indexed([fs |-> i.fs, e |-> t.e], i.e)
    [] e.k = "call"  -> funcargs(luaK_exp2nextreg(expr(fs, e.f)), e.args)
    [] e.k = "method" ->
         LET o == expr(fs, e.e)
             n == codestring(o.fs, e.n)
         IN  funcargs(luaK_self([fs |-> n.fs, e |-> o.e], n.e), e.args)

simpleexp(fs, e) ==
  CASE e.k = "num"    -> [fs |-> fs, e |-> [init_exp("VKNUM", 0) EXCEPT !.nval = e.v]]
    [] e.k = "str"    -> codestring(fs, e.s)
    [] e.k = "nil"    -> [fs |-> fs, e |-> init_exp("VNIL", 0)]
    [] e.k = "true"   -> [fs |-> fs, e |-> init_exp("VTRUE", 0)]
    [] e.k = "false"  -> [fs |-> fs, e |-> init_exp("VFALSE", 0)]
    [] e.k = "vararg" -> LET f == Emit(fs, "VARARG", 0, 1, 0)
                         IN  [fs |-> f, e |-> init_exp("VVARARG", Pc(f) - 1)]
    [] e.k = "table"    -> constructor(fs, e.items)
    [] e.k = "function" -> body(fs, e)
    [] OTHER -> primaryexp(fs, e)

\* subexpr: the second operand is generated between luaK_infix and luaK_posfix.
expr(fs, e) ==
  LET u == expr(fs, e.e)
      l == luaK_infix(e.op, expr(fs, e.l))
      r == expr(l.fs, e.r)
  IN  CASE ~fs.ok -> Failed(fs)
        [] fs.ok /\ e.k = "un"  -> IF u.fs.ok THEN luaK_prefix(e.op, u) ELSE u
        [] fs.ok /\ e.k = "bin" -> IF r.fs.ok THEN luaK_posfix(e.op, l.e, r) ELSE r
        [] OTHER -> simpleexp(fs, e)

explist1(fs, es) ==
  IF Len(es) = 1 THEN expr(fs, es[1])
  ELSE expr(luaK_exp2nextreg(explist1(fs, Front(es))).fs, Last(es))

recfield(cc, i) ==
  LET k == luaK_exp2RK(luaK_exp2val(expr(cc.fs, i.i)))
      v == luaK_exp2RK(expr(k.fs, i.e))
      s == Emit(v.fs, "SETTABLE", cc.t, k.r, v.r)
  IN  [cc EXCEPT !.fs = [s EXCEPT !.freereg = cc.fs.freereg]]

listfield(cc, i) ==
  LET x == expr(cc.fs, i.e)
  IN  [cc EXCEPT !.fs = x.fs, !.v = x.e, !.na = @ + 1, !.tostore = @ + 1]

Items(cc, items) ==
  IF items = <<>> \/ ~cc.fs.ok THEN cc
  ELSE LET c == closelistfield(cc)
           i == Head(items)
       IN  Items(IF i.k = "field" THEN recfield(c, i) ELSE listfield(c, i), Tail(items))

\* The table is fixed in a register before its items.
constructor(fs, items) ==
  LET n  == Emit(fs, "NEWTABLE", 0, 0, 0)
      t  == luaK_exp2nextreg([fs |-> n, e |-> init_exp("VRELOCABLE", Pc(n) - 1)])
      cc == Items([fs |-> t.fs, v |-> init_exp("VVOID", 0), t |-> t.e.info,
                   na |-> 0, tostore |-> 0], items)
  IN  [fs |-> lastlistfield(cc), e |-> t.e]

-----------------------------------------------------------------------------
(* Statements.                                                             *)

\* The jumps out of a condition that is false.
cond(fs, c) ==
  LET v == expr(fs, c)
      t == luaK_goiftrue([v EXCEPT !.e.k = IF @ = "VNIL" THEN "VFALSE" ELSE @])
  IN  [fs |-> t.fs, l |-> t.e.f]

block(fs, stats) == leaveblock(chunk(enterblock(fs, FALSE), stats))

Variables(fs, vars) ==
  LET Read(s, var) ==
        LET x == primaryexp(s.fs, var)
            c == IF x.e.k = "VLOCAL" THEN check_conflict(x.fs, s.lhs, x.e)
                 ELSE [fs |-> x.fs, lhs |-> s.lhs]
        IN  [fs |-> c.fs, lhs |-> Append(c.lhs, x.e)]
      all[n \in 0..Len(vars)] ==
        IF n = 0 THEN [fs |-> fs, lhs |-> <<>>] ELSE Read(all[n - 1], vars[n])
  IN  all[Len(vars)]

assignment(fs0, s) ==
  LET v     == Variables(fs0, s.vars)
      nvars == Len(s.vars)
      nexps == Len(s.es)
      x     == explist1(v.fs, s.es)
      one   == luaK_setoneret(x)
      adj   == adjust_assign(x, nvars, nexps)
  IN  IF ~x.fs.ok THEN x.fs
      ELSE IF nexps = nvars
      THEN StoreFrom(luaK_storevar(one.fs, v.lhs[nvars], one.e), v.lhs, nvars - 1)
      ELSE StoreFrom(IF nexps > nvars THEN [adj EXCEPT !.freereg = @ - (nexps - nvars)] ELSE adj,
                     v.lhs, nvars)

localstat(fs, s) ==
  LET x == IF s.es = <<>> THEN [fs |-> fs, e |-> init_exp("VVOID", 0)] ELSE explist1(fs, s.es)
  IN  adjustlocalvars(adjust_assign(x, Len(s.names), Len(s.es)), s.names)

localfunc(fs, s) ==
  LET reg == fs.freereg
      b   == body(adjustlocalvars(luaK_reserveregs(fs, 1), <<s.n>>), s.f)
  IN  luaK_storevar(b.fs, init_exp("VLOCAL", reg), b.e)

funcstat(fs, s) ==
  LET v == primaryexp(fs, s.var)
      b == body(v.fs, s.f)
  IN  luaK_storevar(b.fs, v.e, b.e)

callstat(fs, s) ==
  LET x == primaryexp(fs, s.e) IN [x.fs EXCEPT !.code[x.e.info + 1].c = 1]

whilestat(fs, s) ==
  LET init == Pc(fs)
      c    == cond(luaK_getlabel(fs), s.c)
      j    == luaK_jump(block(enterblock(c.fs, TRUE), s.body))
  IN  luaK_patchtohere(leaveblock(luaK_patchlist(j.fs, j.l, init)), c.l)

\* The condition is in the scope of the body: with upvalues in it the scope ends
\* on both ways out.
HasUpval(bl)   == bl.upval
repeatstat(fs, s) ==
  LET init == Pc(fs)
      c    == cond(chunk(enterblock(enterblock(luaK_getlabel(fs), TRUE), FALSE), s.body), s.c)
      j    == luaK_jump(leaveblock(luaK_patchtohere(breakstat(c.fs), c.l)))
      loop == IF HasUpval(Last(c.fs.bl)) THEN luaK_patchlist(j.fs, j.l, init)
              ELSE luaK_patchlist(leaveblock(c.fs), c.l, init)
  IN  leaveblock(loop)

\* isnum: the loop instruction jumps itself, else a jump follows it.
forbody(fs, base, names, isnum, stats) ==
  LET f    == adjustlocalvars(fs, <<"(for)", "(for)", "(for)">>)
      prep == IF isnum THEN LET p == Emit(f, "FORPREP", base, NO_JUMP, 0)
                            IN  [fs |-> p, l |-> Pc(p) - 1]
              ELSE luaK_jump(f)
      in   == luaK_reserveregs(adjustlocalvars(enterblock(prep.fs, FALSE), names), Len(names))
      out  == luaK_patchtohere(leaveblock(block(in, stats)), prep.l)
      loop == IF isnum THEN Emit(out, "FORLOOP", base, NO_JUMP, 0)
              ELSE Emit(out, "TFORLOOP", base, 0, Len(names))
      back == IF isnum THEN [fs |-> loop, l |-> Pc(loop) - 1] ELSE luaK_jump(loop)
  IN  luaK_patchlist(back.fs, back.l, prep.l + 1)

fornum(fs, s) ==
  LET e1 == luaK_exp2nextreg(expr(fs, s.es[1])).fs
      e2 == luaK_exp2nextreg(expr(e1, s.es[2])).fs
      k  == addk(e2, Num(1))
      e3 == IF Len(s.es) = 3 THEN luaK_exp2nextreg(expr(e2, s.es[3])).fs
            ELSE luaK_reserveregs(Emit(k.fs, "LOADK", e2.freereg, k.i, 0), 1)
  IN  forbody(e3, fs.freereg, <<s.n>>, TRUE, s.body)

forlist(fs, s) ==
  LET x == explist1(fs, s.es)
      a == luaK_checkstack(adjust_assign(x, 3, Len(s.es)), 3)
  IN  forbody(a, fs.freereg, s.names, FALSE, s.body)

forstat(fs, s) ==
  LET f == enterblock(fs, TRUE)
  IN  leaveblock(IF s.k = "fornum" THEN fornum(f, s) ELSE forlist(f, s))

\* From clause i on: each then part jumps to the end, and a condition that is
\* false to what follows it.
RECURSIVE ifstat(_, _, _, _)
ifstat(fs, s, i, escapelist) ==
  LET c    == cond(fs, s.clauses[i].c)
      f    == block(c.fs, s.clauses[i].body)
      j    == luaK_jump(f)
      e    == Concat(j.fs, escapelist, j.l)
      next == luaK_patchtohere(e.fs, c.l)
      last == Concat(f, escapelist, c.l)
  IN  CASE ~fs.ok -> fs
        [] fs.ok /\ i < Len(s.clauses) -> ifstat(next, s, i + 1, e.l)
        [] fs.ok /\ i = Len(s.clauses) /\ s.else # <<>> ->
             luaK_patchtohere(block(next, s.else[1]), e.l)
        [] OTHER -> luaK_patchtohere(last.fs, last.l)

\* A function call that is all that is returned is a tail call.
Tailcall(pc, fs) == lua_assert([fs EXCEPT !.code[pc + 1].op = "TAILCALL"],
                           At(fs, pc).a = nactvar(fs))
retstat(fs, s) ==
  LET x     == explist1(fs, s.es)
      m     == luaK_setmultret(x).fs
      any   == luaK_exp2anyreg(x)
      next  == luaK_exp2nextreg(x).fs
      nret  == Len(s.es)
      first == nactvar(fs)
  IN  CASE nret = 0 -> luaK_ret(fs, 0, 0)
        [] nret > 0 /\ hasmultret(x.e) ->
             luaK_ret(IF x.e.k = "VCALL" /\ nret = 1 THEN Tailcall(x.e.info, m) ELSE m,
                      first, LUA_MULTRET)
        [] nret = 1 /\ ~hasmultret(x.e) -> luaK_ret(any.fs, any.e.info, 1)
        [] nret > 1 /\ ~hasmultret(x.e) ->
             luaK_ret(lua_assert(next, nret = next.freereg - first), first, nret)

statement(fs, s) ==
  CASE s.k = "if"     -> ifstat(fs, s, 1, NO_JUMP)
    [] s.k = "while"  -> whilestat(fs, s)
    [] s.k = "do"     -> block(fs, s.body)
    [] s.k \in {"fornum", "forlist"} -> forstat(fs, s)
    [] s.k = "repeat" -> repeatstat(fs, s)
    [] s.k = "function"      -> funcstat(fs, s)
    [] s.k = "localfunction" -> localfunc(fs, s)
    [] s.k = "local"  -> localstat(fs, s)
    [] s.k = "return" -> retstat(fs, s)
    [] s.k = "break"  -> breakstat(fs)
    [] s.k = "call"   -> callstat(fs, s)
    [] s.k = "assign" -> assignment(fs, s)

chunk(fs, stats) ==
  IF stats = <<>> \/ ~fs.ok THEN fs
  ELSE LET f == statement(fs, Head(stats))
       IN  chunk([lua_assert(f, f.maxstack >= f.freereg /\ f.freereg >= nactvar(f))
                    EXCEPT !.freereg = nactvar(f)], Tail(stats))
=============================================================================
