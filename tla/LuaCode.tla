------------------------------- MODULE LuaCode -------------------------------
(***************************************************************************)
(* The code generator: lcode.c.                                            *)
(*                                                                         *)
(* A FuncState fs is a record: code (instructions, at pc + 1), k (the      *)
(* constants), jpc, lasttarget, freereg, actvar (the names of the active   *)
(* local variables, in register order), bl (the open blocks, innermost     *)
(* last), maxstack, ups, p, params, vararg, prev (the FuncState around it) *)
(* and ok, which no step of the code reads: the lua_asserts met so far     *)
(* have all held.  An expression is generated in a pair [fs, e] with its   *)
(* expdesc e; the functions of lcode.c take one to the next.               *)
(*                                                                         *)
(* Jumps to the same unknown target form a list threaded through their own *)
(* offsets; e.t and e.f are the lists of jumps that leave e when it is     *)
(* true and when it is false.                                              *)
(*                                                                         *)
(* A definition marked "fault" is what a slip in the code would make of    *)
(* the definition below it.                                                *)
(***************************************************************************)
EXTENDS Integers, Sequences, FiniteSets, SequencesExt

CONSTANTS
  MAXINDEXRK,        \* the last constant an RK operand can name
  LFIELDS_PER_FLUSH, \* table items stored by one OP_SETLIST
  MAXARG_C           \* the last batch OP_SETLIST can name in its C argument

ASSUME CodeAssumption ==
  MAXINDEXRK \in 0..255 /\ LFIELDS_PER_FLUSH \in Nat \ {0} /\ MAXARG_C \in Nat

NO_JUMP     == -1
NO_REG      == 255
LUA_MULTRET == -1

Instr(op, a, b, c) == [op |-> op, a |-> a, b |-> b, c |-> c]

\* testTMode, with the numbers of these opcodes.
OpNumber == [o \in {"EQ", "LT", "LE", "TEST", "TESTSET", "TFORLOOP"} |->
  CASE o = "EQ" -> 23 [] o = "LT" -> 24 [] o = "LE" -> 25
    [] o = "TEST" -> 26 [] o = "TESTSET" -> 27 [] o = "TFORLOOP" -> 33]
TestOps  == DOMAIN OpNumber

\* An integer below 2^14 stored as an instruction: its low six bits are where the
\* opcode is.
RawInstr(n) ==
  IF \E o \in TestOps : OpNumber[o] = n % 64
  THEN Instr(CHOOSE o \in TestOps : OpNumber[o] = n % 64, n \div 64, 0, 0)
  ELSE Instr("RAW", n \div 64, n % 64, 0)
RawValue(i) == 64 * i.a + (IF i.op = "RAW" THEN i.b ELSE OpNumber[i.op])

RKASK(i)  == 256 + i
ISK(r)    == r >= 256
INDEXK(r) == r - 256

init_exp(k, info) == [k |-> k, info |-> info, aux |-> 0, nval |-> 0,
                      t |-> NO_JUMP, f |-> NO_JUMP]
hasjumps(e)   == e.t # e.f
isnumeral(e)  == e.k = "VKNUM" /\ e.t = NO_JUMP /\ e.f = NO_JUMP
hasmultret(e) == e.k \in {"VCALL", "VVARARG"}

Pc(fs)         == Len(fs.code)
At(fs, pc)     == fs.code[pc + 1]
nactvar(fs)    == Len(fs.actvar)
lua_assert(fs, b)  == [fs EXCEPT !.ok = @ /\ b]

-----------------------------------------------------------------------------
(* Jump lists.                                                             *)

getjump(fs, pc) ==
  IF At(fs, pc).b = NO_JUMP THEN NO_JUMP ELSE pc + 1 + At(fs, pc).b

RECURSIVE Nodes(_, _)
Nodes(fs, list) ==
  IF list = NO_JUMP THEN <<>> ELSE <<list>> \o Nodes(fs, getjump(fs, list))

getjumpcontrol(fs, pc) ==
  IF pc >= 1 /\ At(fs, pc - 1).op \in TestOps THEN pc - 1 ELSE pc

\* Whether list has a jump that does not produce a value.
need_value(fs, list) ==
  \E n \in ToSet(Nodes(fs, list)) : At(fs, getjumpcontrol(fs, n)).op # "TESTSET"

fixjump(fs, pc, dest) == [fs EXCEPT !.code[pc + 1].b = dest - (pc + 1)]

\* A TESTSET of a list gets its register, or becomes a TEST when the value is
\* not needed or is there already.
patchtestreg(i, reg) ==
  IF reg # NO_REG /\ reg # i.b THEN [i EXCEPT !.a = reg]
  ELSE Instr("TEST", i.b, 0, i.c)

\* Every jump that produces a value goes to vtarget, the others to dtarget.
patchlistaux(fs, list, vtarget, reg, dtarget) ==
  LET nodes   == ToSet(Nodes(fs, list))
      Valued(n) == At(fs, getjumpcontrol(fs, n)).op = "TESTSET"
      Patched(pc) ==
        LET i == At(fs, pc)
        IN  IF pc \in nodes
            THEN [i EXCEPT !.b = (IF Valued(pc) THEN vtarget ELSE dtarget) - (pc + 1)]
            ELSE IF pc + 1 \in nodes /\ i.op = "TESTSET" THEN patchtestreg(i, reg)
            ELSE i
  IN  [fs EXCEPT !.code = [p \in DOMAIN @ |-> Patched(p - 1)]]

removevalues(fs, list) ==
  LET nodes == ToSet(Nodes(fs, list))
  IN  [fs EXCEPT !.code = [p \in DOMAIN @ |->
         IF p \in nodes /\ @[p].op = "TESTSET" THEN patchtestreg(@[p], NO_REG) ELSE @[p]]]

\* luaK_concat(&l1, l2): l2 is put at the end of the list l1.
Concat(fs, l1, l2) ==
  IF l2 = NO_JUMP THEN [fs |-> fs, l |-> l1]
  ELSE IF l1 = NO_JUMP THEN [fs |-> fs, l |-> l2]
  ELSE LET nodes == Nodes(fs, l1)
       IN  [fs |-> fixjump(fs, nodes[Len(nodes)], l2), l |-> l1]

luaK_getlabel(fs) == [fs EXCEPT !.lasttarget = Pc(fs)]

luaK_patchtohere(fs, list) ==
  LET r == Concat(luaK_getlabel(fs), fs.jpc, list)
  IN  [r.fs EXCEPT !.jpc = r.l]

luaK_patchlist(fs, list, target) ==
  IF target = Pc(fs) THEN luaK_patchtohere(fs, list)
  ELSE patchlistaux(lua_assert(fs, target < Pc(fs)), list, target, NO_REG, target)

dischargejpc(fs) ==
  [patchlistaux(fs, fs.jpc, Pc(fs), NO_REG, Pc(fs)) EXCEPT !.jpc = NO_JUMP]

luaK_code(fs, i) == [dischargejpc(fs) EXCEPT !.code = Append(@, i)]
Emit(fs, op, a, b, c) == luaK_code(fs, Instr(op, a, b, c))

\* The list of jumps to here moves on with the new jump, which is at fs.j.
luaK_jump(fs) ==
  LET j == Emit([fs EXCEPT !.jpc = NO_JUMP], "JMP", 0, NO_JUMP, 0)
      r == Concat(j, Pc(j) - 1, fs.jpc)
  IN  [fs |-> r.fs, l |-> r.l]

condjump(fs, op, a, b, c) == luaK_jump(Emit(fs, op, a, b, c))

-----------------------------------------------------------------------------
(* Registers and constants.                                                *)

\* luaK_nil: n registers from the register from are set to nil, by the LOADNIL
\* before when no jump can come between the two.
AnywhereNil(fs) == TRUE  \* fault
SameBlock(fs)   == Pc(fs) > fs.lasttarget

luaK_nil(fs, from, n) ==
  LET pc    == Pc(fs)
      prev  == At(fs, pc - 1)
      clean == SameBlock(fs) /\ pc = 0 /\ from >= nactvar(fs)
      joins == /\ SameBlock(fs) /\ pc # 0
               /\ prev.op = "LOADNIL" /\ prev.a <= from /\ from <= prev.b + 1
  IN  CASE clean -> fs
        [] ~clean /\ joins ->
             IF from + n - 1 > prev.b THEN [fs EXCEPT !.code[pc].b = from + n - 1] ELSE fs
        [] OTHER -> Emit(fs, "LOADNIL", from, from + n - 1, 0)

OneShort(fs, n) ==  \* fault
  [fs EXCEPT !.maxstack = IF fs.freereg + n - 1 > @ THEN fs.freereg + n - 1 ELSE @]
luaK_checkstack(fs, n) ==
  [fs EXCEPT !.maxstack = IF fs.freereg + n > @ THEN fs.freereg + n ELSE @]
luaK_reserveregs(fs, n) == [luaK_checkstack(fs, n) EXCEPT !.freereg = @ + n]

freereg(fs, reg) ==
  IF ~ISK(reg) /\ reg >= nactvar(fs)
  THEN lua_assert([fs EXCEPT !.freereg = @ - 1], reg = fs.freereg - 1)
  ELSE fs
freeexp(fs, e) == IF e.k = "VNONRELOC" THEN freereg(fs, e.info) ELSE fs

\* The constant v is at index i of the result.
addk(fs, v) ==
  LET same == {j \in DOMAIN fs.k : fs.k[j] = v}
  IN  IF same # {} THEN [fs |-> fs, i |-> (CHOOSE j \in same : TRUE) - 1]
      ELSE [fs |-> [fs EXCEPT !.k = Append(@, v)], i |-> Len(fs.k)]

Nil     == <<"nil">>
Bool(b) == <<"bool", b>>
Num(n)  == <<"num", n>>
Str(s)  == <<"str", s>>

-----------------------------------------------------------------------------
(* Expressions.                                                            *)

\* The expression is the value of a new instruction, in a register to be chosen.
Relocable(fs, e, op, b, c) ==
  LET f == Emit(fs, op, 0, b, c)
  IN  [fs |-> f, e |-> [e EXCEPT !.k = "VRELOCABLE", !.info = Pc(f) - 1]]

luaK_setreturns(x, nresults) ==
  LET pc == x.e.info + 1
  IN  CASE x.e.k = "VCALL"   -> [x EXCEPT !.fs.code[pc].c = nresults + 1]
        [] x.e.k = "VVARARG" ->
             [x EXCEPT !.fs = luaK_reserveregs(
                [x.fs EXCEPT !.code[pc].b = nresults + 1, !.code[pc].a = x.fs.freereg], 1)]
        [] OTHER -> x
luaK_setmultret(x) == luaK_setreturns(x, LUA_MULTRET)

luaK_setoneret(x) ==
  CASE x.e.k = "VCALL"   -> [x EXCEPT !.e.k = "VNONRELOC", !.e.info = At(x.fs, @).a]
    [] x.e.k = "VVARARG" -> [x EXCEPT !.fs.code[x.e.info + 1].b = 2, !.e.k = "VRELOCABLE"]
    [] OTHER -> x

luaK_dischargevars(x) ==
  LET e == x.e
  IN  CASE e.k = "VLOCAL"   -> [x EXCEPT !.e.k = "VNONRELOC"]
        [] e.k = "VUPVAL"   -> Relocable(x.fs, e, "GETUPVAL", e.info, 0)
        [] e.k = "VGLOBAL"  -> Relocable(x.fs, e, "GETGLOBAL", e.info, 0)
        [] e.k = "VINDEXED" ->
             Relocable(freereg(freereg(x.fs, e.aux), e.info), e, "GETTABLE", e.info, e.aux)
        [] OTHER -> luaK_setoneret(x)

discharge2reg(y, reg) ==
  LET x  == luaK_dischargevars(y)
      e  == x.e
      fs == x.fs
      nk == addk(fs, Num(e.nval))
      Into(f) == [fs |-> f, e |-> [e EXCEPT !.k = "VNONRELOC", !.info = reg]]
  IN  CASE e.k = "VNIL"   -> Into(luaK_nil(fs, reg, 1))
        [] e.k = "VFALSE" -> Into(Emit(fs, "LOADBOOL", reg, 0, 0))
        [] e.k = "VTRUE"  -> Into(Emit(fs, "LOADBOOL", reg, 1, 0))
        [] e.k = "VK"     -> Into(Emit(fs, "LOADK", reg, e.info, 0))
        [] e.k = "VKNUM"  -> Into(Emit(nk.fs, "LOADK", reg, nk.i, 0))
        [] e.k = "VRELOCABLE" -> Into([fs EXCEPT !.code[e.info + 1].a = reg])
        [] e.k = "VNONRELOC"  ->
             Into(IF reg # e.info THEN Emit(fs, "MOVE", reg, e.info, 0) ELSE fs)
        [] OTHER -> x

discharge2anyreg(x) ==
  IF x.e.k = "VNONRELOC" THEN x
  ELSE discharge2reg([x EXCEPT !.fs = luaK_reserveregs(@, 1)], x.fs.freereg)

\* The last jump of a comparison joins the list of the jumps taken when true.
JoinedTrue(x) ==
  IF x.e.k = "VJMP"
  THEN LET r == Concat(x.fs, x.e.t, x.e.info) IN [fs |-> r.fs, e |-> [x.e EXCEPT !.t = r.l]]
  ELSE x

\* Jumps that carry no value end at one of two LOADBOOLs, the others after them.
WithLoads(x, reg) ==
  LET j   == IF x.e.k = "VJMP" THEN [fs |-> x.fs, l |-> NO_JUMP] ELSE luaK_jump(x.fs)
      ff  == Emit(luaK_getlabel(j.fs), "LOADBOOL", reg, 0, 1)
      tt  == Emit(luaK_getlabel(ff), "LOADBOOL", reg, 1, 0)
  IN  [fs |-> luaK_patchtohere(tt, j.l), p_f |-> Pc(ff) - 1, p_t |-> Pc(tt) - 1]

exp2reg(y, reg) ==
  LET x     == JoinedTrue(discharge2reg(y, reg))
      e     == x.e
      needs == need_value(x.fs, e.t) \/ need_value(x.fs, e.f)
      loads == IF needs THEN WithLoads(x, reg)
               ELSE [fs |-> x.fs, p_f |-> NO_JUMP, p_t |-> NO_JUMP]
      here  == luaK_getlabel(loads.fs)
      final == Pc(here)
      falses == patchlistaux(here, e.f, final, reg, loads.p_f)
      trues  == patchlistaux(falses, e.t, final, reg, loads.p_t)
  IN  [fs |-> IF hasjumps(e) THEN trues ELSE x.fs,
       e  |-> [e EXCEPT !.f = NO_JUMP, !.t = NO_JUMP, !.info = reg, !.k = "VNONRELOC"]]

luaK_exp2nextreg(y) ==
  LET x == luaK_dischargevars(y)
      f == luaK_reserveregs(freeexp(x.fs, x.e), 1)
  IN  exp2reg([x EXCEPT !.fs = f], f.freereg - 1)

luaK_exp2anyreg(y) ==
  LET x == luaK_dischargevars(y)
  IN  IF x.e.k = "VNONRELOC" /\ ~hasjumps(x.e) THEN x
      ELSE IF x.e.k = "VNONRELOC" /\ x.e.info >= nactvar(x.fs) THEN exp2reg(x, x.e.info)
      ELSE luaK_exp2nextreg(x)

luaK_exp2val(x) == IF hasjumps(x.e) THEN luaK_exp2anyreg(x) ELSE luaK_dischargevars(x)

\* The operand is x.r: a constant that fits, or a register.
luaK_exp2RK(y) ==
  LET x    == luaK_exp2val(y)
      e    == x.e
      v    == CASE e.k = "VNIL"   -> Nil
                [] e.k = "VKNUM"  -> Num(e.nval)
                [] e.k = "VTRUE"  -> Bool(TRUE)
                [] e.k = "VFALSE" -> Bool(FALSE)
      k    == addk(x.fs, v)
      any  == luaK_exp2anyreg(x)
      inK  == e.k \in {"VNIL", "VKNUM", "VTRUE", "VFALSE"} /\ Len(x.fs.k) <= MAXINDEXRK
      isK  == e.k = "VK" /\ e.info <= MAXINDEXRK
  IN  CASE inK -> [fs |-> k.fs, e |-> [e EXCEPT !.k = "VK", !.info = k.i], r |-> RKASK(k.i)]
        [] isK -> [fs |-> x.fs, e |-> e, r |-> RKASK(e.info)]
        [] ~inK /\ ~isK -> [fs |-> any.fs, e |-> any.e, r |-> any.e.info]

Pair(x) == [fs |-> x.fs, e |-> x.e]

luaK_storevar(fs, var, ex) ==
  LET any == luaK_exp2anyreg([fs |-> fs, e |-> ex])
      rk  == luaK_exp2RK([fs |-> fs, e |-> ex])
  IN  CASE var.k = "VLOCAL"   -> exp2reg([fs |-> freeexp(fs, ex), e |-> ex], var.info).fs
        [] var.k = "VUPVAL"   ->
             freeexp(Emit(any.fs, "SETUPVAL", any.e.info, var.info, 0), any.e)
        [] var.k = "VGLOBAL"  ->
             freeexp(Emit(any.fs, "SETGLOBAL", any.e.info, var.info, 0), any.e)
        [] var.k = "VINDEXED" ->
             freeexp(Emit(rk.fs, "SETTABLE", var.info, var.aux, rk.r), rk.e)

luaK_indexed(x, key) ==
  LET k == luaK_exp2RK([fs |-> x.fs, e |-> key])
  IN  [fs |-> k.fs, e |-> [x.e EXCEPT !.k = "VINDEXED", !.aux = k.r]]

luaK_self(y, key) ==
  LET x    == luaK_exp2anyreg(y)
      func == freeexp(x.fs, x.e).freereg
      k    == luaK_exp2RK([fs |-> luaK_reserveregs(freeexp(x.fs, x.e), 2), e |-> key])
      f    == Emit(k.fs, "SELF", func, x.e.info, k.r)
  IN  [fs |-> freeexp(f, k.e), e |-> [x.e EXCEPT !.info = func, !.k = "VNONRELOC"]]

-----------------------------------------------------------------------------
(* Conditions.                                                             *)

invertjump(fs, e) ==
  LET c == getjumpcontrol(fs, e.info)
  IN  lua_assert([fs EXCEPT !.code[c + 1].a = 1 - @],
             At(fs, c).op \in TestOps \ {"TEST", "TESTSET"})

\* The jump l taken when e is as cond says; a NOT before it is removed.
jumponcond(x, cond) ==
  LET i  == At(x.fs, x.e.info)
      nt == condjump([x.fs EXCEPT !.code = [p \in 1..Len(@) - 1 |-> @[p]]], "TEST", i.b, 0, 1 - cond)
      y  == discharge2anyreg(x)
      ts == condjump(freeexp(y.fs, y.e), "TESTSET", NO_REG, y.e.info, cond)
  IN  IF x.e.k = "VRELOCABLE" /\ i.op = "NOT"
      THEN [fs |-> nt.fs, e |-> x.e, l |-> nt.l]
      ELSE [fs |-> ts.fs, e |-> y.e, l |-> ts.l]

NoJump(x)    == [fs |-> x.fs, e |-> x.e, l |-> NO_JUMP]
AlwaysJump(x) == LET j == luaK_jump(x.fs) IN [fs |-> j.fs, e |-> x.e, l |-> j.l]

luaK_goiftrue(y) ==
  LET x == luaK_dischargevars(y)
      j == CASE x.e.k \in {"VK", "VKNUM", "VTRUE"} -> NoJump(x)
             [] x.e.k = "VFALSE" -> AlwaysJump(x)
             [] x.e.k = "VJMP"   -> [fs |-> invertjump(x.fs, x.e), e |-> x.e, l |-> x.e.info]
             [] OTHER            -> jumponcond(x, 0)
      f == Concat(j.fs, j.e.f, j.l)
  IN  [fs |-> luaK_patchtohere(f.fs, j.e.t), e |-> [j.e EXCEPT !.f = f.l, !.t = NO_JUMP]]

luaK_goiffalse(y) ==
  LET x == luaK_dischargevars(y)
      j == CASE x.e.k \in {"VNIL", "VFALSE"} -> NoJump(x)
             [] x.e.k = "VTRUE" -> AlwaysJump(x)
             [] x.e.k = "VJMP"  -> [fs |-> x.fs, e |-> x.e, l |-> x.e.info]
             [] OTHER           -> jumponcond(x, 1)
      t == Concat(j.fs, j.e.t, j.l)
  IN  [fs |-> luaK_patchtohere(t.fs, j.e.f), e |-> [j.e EXCEPT !.t = t.l, !.f = NO_JUMP]]

\* The lists change places, and what they carry is not the value any more.
ValuesRemoved(fs, e) == removevalues(removevalues(fs, e.f), e.t)

codenot(y) ==
  LET x == luaK_dischargevars(y)
      a == discharge2anyreg(x)
      n == CASE x.e.k \in {"VNIL", "VFALSE"}        -> [x EXCEPT !.e.k = "VTRUE"]
             [] x.e.k \in {"VK", "VKNUM", "VTRUE"}  -> [x EXCEPT !.e.k = "VFALSE"]
             [] x.e.k = "VJMP"                      -> [x EXCEPT !.fs = invertjump(@, x.e)]
             [] x.e.k \in {"VRELOCABLE", "VNONRELOC"} ->
                  Relocable(freeexp(a.fs, a.e), a.e, "NOT", a.e.info, 0)
  IN  [fs |-> ValuesRemoved(n.fs, n.e), e |-> [n.e EXCEPT !.f = n.e.t, !.t = n.e.f]]

-----------------------------------------------------------------------------
(* Operators.                                                              *)

Arith(op, a, b) ==
  CASE op = "ADD" -> a + b
    [] op = "SUB" -> a - b
    [] op = "MUL" -> a * b
    [] op = "UNM" -> -a

Folds(op, e1, e2) == op \in {"ADD", "SUB", "MUL", "UNM"} /\ isnumeral(e1) /\ isnumeral(e2)

\* The operands are freed in the order of their registers, the last first.
codearith(op, x, e2) ==
  LET r2 == IF op \in {"UNM", "LEN"} THEN [fs |-> x.fs, e |-> e2, r |-> 0]
            ELSE luaK_exp2RK([fs |-> x.fs, e |-> e2])
      r1 == luaK_exp2RK([fs |-> r2.fs, e |-> x.e])
      freed == IF r1.r > r2.r THEN freeexp(freeexp(r1.fs, r1.e), r2.e)
               ELSE freeexp(freeexp(r1.fs, r2.e), r1.e)
  IN  IF Folds(op, x.e, e2) THEN [x EXCEPT !.e.nval = Arith(op, @, e2.nval)]
      ELSE Relocable(freed, r1.e, op, r1.r, r2.r)

\* Without an opcode for > and >= the operands are exchanged.
codecomp(op, cond, x, e2) ==
  LET r1 == luaK_exp2RK(x)
      r2 == luaK_exp2RK([fs |-> r1.fs, e |-> e2])
      freed == freeexp(freeexp(r2.fs, r2.e), r1.e)
      j  == IF cond = 0 /\ op # "EQ" THEN condjump(freed, op, 1, r2.r, r1.r)
            ELSE condjump(freed, op, cond, r1.r, r2.r)
  IN  [fs |-> j.fs, e |-> [r1.e EXCEPT !.k = "VJMP", !.info = j.l]]

luaK_prefix(op, x) ==
  LET zero == [init_exp("VKNUM", 0) EXCEPT !.nval = 0]
  IN  CASE op = "-"   -> codearith("UNM", IF isnumeral(x.e) THEN x ELSE luaK_exp2anyreg(x), zero)
        [] op = "not" -> codenot(x)
        [] op = "#"   -> codearith("LEN", luaK_exp2anyreg(x), zero)

ArithOps == [o \in {"+", "-", "*"} |-> CASE o = "+" -> "ADD" [] o = "-" -> "SUB" [] o = "*" -> "MUL"]

luaK_infix(op, x) ==
  CASE op = "and" -> luaK_goiftrue(x)
    [] op = "or"  -> luaK_goiffalse(x)
    [] op = ".."  -> luaK_exp2nextreg(x)
    [] op \in DOMAIN ArithOps -> IF isnumeral(x.e) THEN x ELSE Pair(luaK_exp2RK(x))
    [] OTHER -> Pair(luaK_exp2RK(x))

\* a .. (b .. c) is one instruction: the one of b .. c begins a register earlier.
Concatenation(e1, x2) ==
  LET v  == luaK_exp2val(x2)
      pc == v.e.info + 1
      n  == luaK_exp2nextreg(v)
  IN  IF v.e.k = "VRELOCABLE" /\ v.fs.code[pc].op = "CONCAT"
      THEN [fs |-> lua_assert([freeexp(v.fs, e1) EXCEPT !.code[pc].b = e1.info],
                          e1.info = v.fs.code[pc].b - 1),
            e  |-> [e1 EXCEPT !.k = "VRELOCABLE", !.info = v.e.info]]
      ELSE codearith("CONCAT", [fs |-> n.fs, e |-> e1], n.e)

luaK_posfix(op, e1, x2) ==
  LET d  == luaK_dischargevars(x2)
      an == Concat(lua_assert(d.fs, e1.t = NO_JUMP), d.e.f, e1.f)
      o  == Concat(lua_assert(d.fs, e1.f = NO_JUMP), d.e.t, e1.t)
      x  == [fs |-> x2.fs, e |-> e1]
  IN  CASE op = "and" -> [fs |-> an.fs, e |-> [d.e EXCEPT !.f = an.l]]
        [] op = "or"  -> [fs |-> o.fs, e |-> [d.e EXCEPT !.t = o.l]]
        [] op = ".."  -> Concatenation(e1, x2)
        [] op \in DOMAIN ArithOps -> codearith(ArithOps[op], x, x2.e)
        [] op = "==" -> codecomp("EQ", 1, x, x2.e)
        [] op = "~=" -> codecomp("EQ", 0, x, x2.e)
        [] op = "<"  -> codecomp("LT", 1, x, x2.e)
        [] op = "<=" -> codecomp("LE", 1, x, x2.e)
        [] op = ">"  -> codecomp("LT", 0, x, x2.e)
        [] op = ">=" -> codecomp("LE", 0, x, x2.e)

\* A batch that OP_SETLIST cannot name is the instruction after it.
luaK_setlist(fs, base, nelems, tostore) ==
  LET c == (nelems - 1) \div LFIELDS_PER_FLUSH + 1
      b == IF tostore = LUA_MULTRET THEN 0 ELSE tostore
      f == lua_assert(fs, tostore # 0)
      s == IF c <= MAXARG_C THEN Emit(f, "SETLIST", base, b, c)
           ELSE luaK_code(Emit(f, "SETLIST", base, b, 0), RawInstr(c))
  IN  [s EXCEPT !.freereg = base + 1]

luaK_ret(fs, first, nret) == Emit(fs, "RETURN", first, nret + 1, 0)
=============================================================================
