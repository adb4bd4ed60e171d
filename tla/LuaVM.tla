-------------------------------- MODULE LuaVM --------------------------------
(***************************************************************************)
(* The interpreter, lvm.c, with the calls and returns of ldo.c and the     *)
(* upvalues of lfunc.c, running what the parser generated for one of       *)
(* Programs.  One action is one instruction.                               *)
(*                                                                         *)
(* Values are <<"nil">>, <<"bool", b>>, <<"num", n>>, <<"str", s>> with a  *)
(* sequence s of characters, <<"tab", i>>, <<"fun", i>> (a Lua closure)    *)
(* and <<"host", h>> (a C function).  Metatables, coercions of strings to  *)
(* numbers and the order of strings are left out; what needs them is an    *)
(* error, and an error ends the program.                                   *)
(***************************************************************************)
EXTENDS LuaDebug

CONSTANTS
  Programs,        \* a set of chunks
  Parser(_, _),    \* what the parser makes of a function by one more statement
  StackSize

VARIABLES
  prog,     \* the program that runs, a chunk
  read,     \* how many of its statements the parser has read
  main,     \* its main function: a FuncState, and when all is read a Proto
  ci,       \* the CallInfo of the Lua functions that are active
  stack,    \* at index + 1
  top,      \* L->top
  clos,     \* the Lua closures: the path of the Proto and the upvalues
  upvals,   \* open (level, a stack index) or closed (v)
  tabs,     \* each a function from the keys that are present to their values
  globals,  \* the table of global variables
  log,      \* what the program has shown: the calls of "f", and its end
  status    \* "load", "run", "done", "error"

vars == <<prog, read, main, ci, stack, top, clos, upvals, tabs, globals, log, status>>

Tab(i)  == <<"tab", i>>
Fun(i)  == <<"fun", i>>
Host(h) == <<"host", h>>
l_isfalse(v) == v = Nil \/ v = Bool(FALSE)
IsNum(v)     == v[1] = "num"

\* A function of the program, by the positions of the functions around it.
ProtoAt(path) ==
  LET at[n \in 0..Len(path)] == IF n = 0 THEN main ELSE at[n - 1].p[path[n]]
  IN  at[Len(path)]

Empty == [x \in {} |-> Nil]
Get(h, key) == IF key \in DOMAIN h THEN h[key] ELSE Nil
Put(h, key, v) ==
  IF v = Nil THEN [x \in DOMAIN h \ {key} |-> h[x]]
  ELSE [x \in DOMAIN h \cup {key} |-> IF x = key THEN v ELSE h[x]]
\* luaH_getn of a table without holes.
Border(h) == Cardinality({x \in DOMAIN h : IsNum(x) /\ x[2] > 0})

\* The C functions of the programs: f shows its arguments and returns them, upto
\* is an iterator from its control variable to its state.
Chars(v) == IF IsNum(v) THEN <<ToString(v[2])>> ELSE v[2]
HostResults(h, args) ==
  CASE h = "f"    -> args
    [] h = "upto" -> IF args[2][2] < args[1][2] THEN <<Num(args[2][2] + 1)>> ELSE <<Nil>>
InitGlobals == Put(Put(Empty, Str(<<"f">>), Host("f")), Str(<<"upto">>), Host("upto"))

-----------------------------------------------------------------------------
(* The machine, and the functions of ldo.c and lfunc.c that change it.     *)

M == [ci |-> ci, stack |-> stack, top |-> top, clos |-> clos, upvals |-> upvals,
      tabs |-> tabs, globals |-> globals, log |-> log, status |-> status]
Becomes(m) ==
  /\ ci' = m.ci /\ stack' = m.stack /\ top' = m.top /\ clos' = m.clos
  /\ upvals' = m.upvals /\ tabs' = m.tabs /\ globals' = m.globals
  /\ log' = m.log /\ status' = m.status
  /\ UNCHANGED <<prog, read, main>>

Fail(m) == [m EXCEPT !.status = "error", !.log = Append(@, <<"error">>)]

Slot(m, i)         == m.stack[i + 1]
Slots(m, i, n)     == SubSeq(m.stack, i + 1, i + n)
Store(m, i, vs)    == [m EXCEPT !.stack = [j \in DOMAIN @ |->
                        IF j - 1 \in i..i + Len(vs) - 1 THEN vs[j - i] ELSE @[j]]]
Nils(n)            == [i \in 1..n |-> Nil]

\* luaF_close: the open upvalues from level up take their values with them.
luaF_close(m, level) ==
  [m EXCEPT !.upvals = [u \in DOMAIN @ |->
     IF @[u].open /\ @[u].level >= level
     THEN [open |-> FALSE, level |-> 0, v |-> Slot(m, @[u].level)] ELSE @[u]]]

\* luaF_findupval: the upvalue is at index i of the result.
AlwaysNew(m, level)  == {}  \* fault
OpenAt(m, level)     == {u \in DOMAIN m.upvals : m.upvals[u].open /\ m.upvals[u].level = level}
luaF_findupval(m, level) ==
  LET found == OpenAt(m, level)
  IN  IF found # {} THEN [m |-> m, i |-> CHOOSE u \in found : TRUE]
      ELSE [m |-> [m EXCEPT !.upvals = Append(@, [open |-> TRUE, level |-> level, v |-> Nil])],
            i |-> Len(m.upvals) + 1]

\* luaD_poscall: the results move to where the function was, as many as wanted.
luaD_poscall(m, func, wanted, results) ==
  LET n == IF wanted = LUA_MULTRET THEN Len(results) ELSE wanted
  IN  [Store(m, func, [i \in 1..n |-> IF i <= Len(results) THEN results[i] ELSE Nil])
         EXCEPT !.top = func + n]

\* adjust_varargs: the fixed parameters move above the arguments.
adjust_varargs(m, func, p) ==
  LET actual == m.top - func - 1
      more   == IF actual < p.params THEN p.params - actual ELSE 0
      base   == m.top + more
      filled == Store(m, m.top, Nils(more))
      fixed  == base - (IF actual < p.params THEN p.params ELSE actual)
      moved  == Store(Store(filled, base, Slots(filled, fixed, p.params)), fixed, Nils(p.params))
  IN  [m |-> [moved EXCEPT !.top = base + p.params], base |-> base]

\* luaD_precall of the function at func, with its arguments up to top.
luaD_precall(m, func, nresults, tfor) ==
  LET v      == Slot(m, func)
      path   == m.clos[v[2]].path
      p      == ProtoAt(path)
      va     == adjust_varargs(m, func, p)
      fixed  == [m |-> IF m.top > func + 1 + p.params THEN [m EXCEPT !.top = func + 1 + p.params]
                       ELSE m, base |-> func + 1]
      in     == IF p.vararg THEN va ELSE fixed
      limit  == in.base + p.maxstack
      args   == Slots(m, func + 1, m.top - func - 1)
      shown  == IF v[2] = "f" THEN [m EXCEPT !.log = Append(@, args)] ELSE m
  IN  CASE v[1] = "fun"  ->
             [Store(in.m, in.m.top, Nils(limit - in.m.top)) EXCEPT
                !.top = limit,
                !.ci = Append(@, [func |-> func, base |-> in.base, top |-> limit, pc |-> 0,
                                  nresults |-> nresults, cl |-> v[2], tfor |-> tfor])]
        [] v[1] = "host" -> luaD_poscall(shown, func, nresults, HostResults(v[2], args))
        [] v[1] \notin {"fun", "host"} -> Fail(m)

-----------------------------------------------------------------------------
(* The instruction that is next, and its operands.                         *)

F    == Last(ci)
P    == ProtoAt(clos[F.cl].path)
I    == P.code[F.pc + 1]
NextI == P.code[F.pc + 2]
RA   == F.base + I.a
R(i) == Slot(M, F.base + i)
RK(i) == IF ISK(i) THEN P.k[INDEXK(i) + 1] ELSE R(i)

Is(op) == status = "run" /\ I.op = op
\* pc has passed the instruction and skips n more.
Skip(m, n)  == [m EXCEPT !.ci[Len(m.ci)].pc = @ + 1 + n]
Result(v)   == Becomes(Skip(Store(M, RA, <<v>>), 0))
Upvalue(u)  == IF upvals[u].open THEN Slot(M, upvals[u].level) ELSE upvals[u].v

OP_MOVE  == Is("MOVE") /\ Result(R(I.b))
OP_LOADK == Is("LOADK") /\ Result(P.k[I.b + 1])
OP_LOADBOOL ==
  /\ Is("LOADBOOL")
  /\ Becomes(Skip(Store(M, RA, <<Bool(I.b # 0)>>), IF I.c # 0 THEN 1 ELSE 0))
OP_LOADNIL == Is("LOADNIL") /\ Becomes(Skip(Store(M, RA, Nils(I.b - I.a + 1)), 0))

OP_GETUPVAL == Is("GETUPVAL") /\ Result(Upvalue(clos[F.cl].ups[I.b + 1]))
OP_SETUPVAL ==
  /\ Is("SETUPVAL")
  /\ LET u == clos[F.cl].ups[I.b + 1]
     IN  Becomes(Skip(IF upvals[u].open THEN Store(M, upvals[u].level, <<R(I.a)>>)
                      ELSE [M EXCEPT !.upvals[u].v = R(I.a)], 0))

OP_GETGLOBAL == Is("GETGLOBAL") /\ Result(Get(globals, P.k[I.b + 1]))
OP_SETGLOBAL ==
  /\ Is("SETGLOBAL")
  /\ Becomes(Skip([M EXCEPT !.globals = Put(@, P.k[I.b + 1], R(I.a))], 0))

OP_GETTABLE ==
  /\ Is("GETTABLE")
  /\ IF R(I.b)[1] = "tab" THEN Result(Get(tabs[R(I.b)[2]], RK(I.c))) ELSE Becomes(Fail(M))
OP_SETTABLE ==
  /\ Is("SETTABLE")
  /\ Becomes(IF R(I.a)[1] = "tab" /\ RK(I.b) # Nil
             THEN Skip([M EXCEPT !.tabs[R(I.a)[2]] = Put(@, RK(I.b), RK(I.c))], 0)
             ELSE Fail(M))
OP_NEWTABLE ==
  /\ Is("NEWTABLE")
  /\ Becomes(Skip(Store([M EXCEPT !.tabs = Append(@, Empty)], RA, <<Tab(Len(tabs) + 1)>>), 0))
OP_SELF ==
  /\ Is("SELF")
  /\ Becomes(IF R(I.b)[1] = "tab"
             THEN Skip(Store(M, RA, <<Get(tabs[R(I.b)[2]], RK(I.c)), R(I.b)>>), 0) ELSE Fail(M))

OP_ARITH ==
  /\ \E op \in {"ADD", "SUB", "MUL"} : Is(op)
  /\ IF IsNum(RK(I.b)) /\ IsNum(RK(I.c))
     THEN Result(Num(Arith(I.op, RK(I.b)[2], RK(I.c)[2]))) ELSE Becomes(Fail(M))
OP_UNM == Is("UNM") /\ IF IsNum(R(I.b)) THEN Result(Num(-R(I.b)[2])) ELSE Becomes(Fail(M))
OP_NOT == Is("NOT") /\ Result(Bool(l_isfalse(R(I.b))))
OP_LEN ==
  /\ Is("LEN")
  /\ CASE R(I.b)[1] = "tab" -> Result(Num(Border(tabs[R(I.b)[2]])))
       [] R(I.b)[1] = "str" -> Result(Num(Len(R(I.b)[2])))
       [] R(I.b)[1] \notin {"tab", "str"} -> Becomes(Fail(M))
OP_CONCAT ==
  /\ Is("CONCAT")
  /\ IF \A i \in I.b..I.c : R(i)[1] \in {"num", "str"}
     THEN Result(Str(FlattenSeq([i \in 1..I.c - I.b + 1 |-> Chars(R(I.b + i - 1))])))
     ELSE Becomes(Fail(M))

OP_JMP == Is("JMP") /\ Becomes(Skip(M, I.b))

\* A test skips the jump after it, or takes it.
Test(jumps, m) == Becomes(IF jumps THEN Skip(m, 1 + NextI.b) ELSE Skip(M, 1))
OP_EQ == Is("EQ") /\ Test((RK(I.b) = RK(I.c)) = (I.a # 0), M)
OP_LT ==
  /\ Is("LT")
  /\ IF IsNum(RK(I.b)) /\ IsNum(RK(I.c))
     THEN Test((RK(I.b)[2] < RK(I.c)[2]) = (I.a # 0), M) ELSE Becomes(Fail(M))
OP_LE ==
  /\ Is("LE")
  /\ IF IsNum(RK(I.b)) /\ IsNum(RK(I.c))
     THEN Test((RK(I.b)[2] <= RK(I.c)[2]) = (I.a # 0), M) ELSE Becomes(Fail(M))
OP_TEST    == Is("TEST") /\ Test(l_isfalse(R(I.a)) # (I.c # 0), M)
OP_TESTSET == Is("TESTSET") /\ Test(l_isfalse(R(I.b)) # (I.c # 0), Store(M, RA, <<R(I.b)>>))

-----------------------------------------------------------------------------
(* Calls.                                                                  *)

WithArgs(m) == IF I.b # 0 THEN [m EXCEPT !.top = RA + I.b] ELSE m
\* The frame of a Lua function that called a function has its own top again.
TopLeft(m, wanted)     == m  \* fault
TopRestored(m, wanted) == IF wanted # LUA_MULTRET THEN [m EXCEPT !.top = Last(m.ci).top] ELSE m

OP_CALL ==
  /\ Is("CALL")
  /\ LET wanted == I.c - 1
         m == luaD_precall(WithArgs(Skip(M, 0)), RA, wanted, FALSE)
     IN  Becomes(IF Len(m.ci) > Len(ci) THEN m ELSE TopRestored(m, wanted))

\* The new frame takes the place of the one that ends.
OP_TAILCALL ==
  /\ Is("TAILCALL")
  /\ LET m    == luaD_precall(WithArgs(Skip(M, 0)), RA, LUA_MULTRET, FALSE)
         new  == Last(m.ci)
         c    == luaF_close(m, F.base)
         size == new.top - new.func
         down == [func |-> F.func, base |-> F.func + (new.base - new.func),
                  top |-> F.func + size, pc |-> 0, nresults |-> F.nresults,
                  cl |-> new.cl, tfor |-> F.tfor]
     IN  Becomes(IF Len(m.ci) = Len(ci) THEN m
                 ELSE [Store(c, F.func, Slots(c, new.func, size)) EXCEPT
                         !.top = down.top, !.ci = Append(Front(ci), down)])

\* The end of OP_TFORLOOP: the loop goes on unless the first result is nil.
TForEnds(m) ==
  LET f  == Last(m.ci)
      i  == ProtoAt(m.clos[f.cl].path).code[f.pc]
      j  == ProtoAt(m.clos[f.cl].path).code[f.pc + 1]
      cb == f.base + i.a + 3
      t  == [m EXCEPT !.top = f.top]
  IN  IF Slot(m, cb) = Nil THEN Skip(t, 0) ELSE Skip(Store(t, cb - 1, <<Slot(m, cb)>>), j.b)

OP_TFORLOOP ==
  /\ Is("TFORLOOP")
  /\ LET cb == RA + 3
         m  == luaD_precall([Store(Skip(M, 0), cb, Slots(M, RA, 3)) EXCEPT !.top = cb + 3],
                            cb, I.c, TRUE)
     IN  Becomes(IF m.status = "error" \/ Len(m.ci) > Len(ci) THEN m ELSE TForEnds(m))

\* The values go to the caller; the main function shows them.
OP_RETURN ==
  /\ Is("RETURN")
  /\ LET last    == IF I.b # 0 THEN RA + I.b - 1 ELSE top
         results == Slots(M, RA, last - RA)
         m       == luaD_poscall([luaF_close(M, F.base) EXCEPT !.ci = Front(@)],
                                 F.func, F.nresults, results)
     IN  Becomes(CASE Len(ci) = 1 -> [m EXCEPT !.status = "done", !.log = Append(@, results)]
                   [] Len(ci) > 1 /\ F.tfor  -> TForEnds(m)
                   [] Len(ci) > 1 /\ ~F.tfor -> TopRestored(m, F.nresults))

OP_VARARG ==
  /\ Is("VARARG")
  /\ LET n  == F.base - F.func - P.params - 1
         b  == IF I.b = 0 THEN n ELSE I.b - 1
         vs == [j \in 1..b |-> IF j <= n THEN Slot(M, F.base - n + j - 1) ELSE Nil]
         m  == Store(M, RA, vs)
     IN  Becomes(Skip(IF I.b = 0 THEN [m EXCEPT !.top = RA + n] ELSE m, 0))

-----------------------------------------------------------------------------
(* Loops, lists and closures.                                              *)

OP_FORPREP ==
  /\ Is("FORPREP")
  /\ Becomes(IF \A i \in 0..2 : IsNum(R(I.a + i))
             THEN Skip(Store(M, RA, <<Num(R(I.a)[2] - R(I.a + 2)[2])>>), I.b) ELSE Fail(M))

OP_FORLOOP ==
  /\ Is("FORLOOP")
  /\ LET step  == R(I.a + 2)[2]
         idx   == R(I.a)[2] + step
         limit == R(I.a + 1)[2]
         on    == IF 0 < step THEN idx <= limit ELSE limit <= idx
     IN  Becomes(IF on THEN Skip(Store(Store(M, RA, <<Num(idx)>>), RA + 3, <<Num(idx)>>), I.b)
                 ELSE Skip(M, 0))

OP_SETLIST ==
  /\ Is("SETLIST")
  /\ LET n == IF I.b = 0 THEN top - RA - 1 ELSE I.b
         c == IF I.c = 0 THEN RawValue(NextI) ELSE I.c
         h == R(I.a)[2]
         first == (c - 1) * LFIELDS_PER_FLUSH
         filled[i \in 0..n] == IF i = 0 THEN tabs[h]
                               ELSE Put(filled[i - 1], Num(first + i), Slot(M, RA + i))
         m == [M EXCEPT !.tabs[h] = filled[n], !.top = IF I.b = 0 THEN F.top ELSE @]
     IN  Becomes(Skip(m, IF I.c = 0 THEN 1 ELSE 0))

OP_CLOSE == Is("CLOSE") /\ Becomes(Skip(luaF_close(M, RA), 0))

OP_CLOSURE ==
  /\ Is("CLOSURE")
  /\ LET n == P.p[I.b + 1].nups
         Captured(s, i) ==
           LET u == luaF_findupval(s.m, F.base + i.b)
           IN  IF i.op = "GETUPVAL" THEN [s EXCEPT !.ups = Append(@, clos[F.cl].ups[i.b + 1])]
               ELSE [m |-> u.m, ups |-> Append(s.ups, u.i)]
         all[j \in 0..n] == IF j = 0 THEN [m |-> M, ups |-> <<>>]
                            ELSE Captured(all[j - 1], P.code[F.pc + 1 + j])
         c == [path |-> Append(clos[F.cl].path, I.b + 1), ups |-> all[n].ups]
     IN  Becomes(Skip(Store([all[n].m EXCEPT !.clos = Append(@, c)],
                            RA, <<Fun(Len(clos) + 1)>>), n))

Init ==
  /\ prog \in Programs
  /\ main = open_func(NoFunction, 0, TRUE) /\ read = 0 /\ status = "load"
  /\ ci = <<>> /\ stack = <<>> /\ top = 0 /\ clos = <<>> /\ upvals = <<>>
  /\ tabs = <<>> /\ log = <<>> /\ globals = InitGlobals

\* The parser reads the next statement of the chunk.
Read ==
  /\ status = "load" /\ read < Len(prog)
  /\ read' = read + 1
  /\ main' = Parser(main, prog[read + 1])
  /\ UNCHANGED <<prog, ci, stack, top, clos, upvals, tabs, globals, log, status>>

\* The end of luaY_parser, and lua_call of the chunk, without arguments.
luaY_parser ==
  /\ status = "load" /\ read = Len(prog)
  /\ main' = close_func(main)
  /\ clos' = <<[path |-> <<>>, ups |-> <<>>]>>
  /\ stack' = [i \in 1..StackSize |-> IF i = 1 THEN Fun(1) ELSE Nil]
  /\ top' = 1 + main'.maxstack
  /\ ci' = <<[func |-> 0, base |-> 1, top |-> 1 + main'.maxstack, pc |-> 0,
               nresults |-> LUA_MULTRET, cl |-> 1, tfor |-> FALSE]>>
  /\ status' = "run"
  /\ UNCHANGED <<prog, read, upvals, tabs, globals, log>>

Ended == status \in {"done", "error"} /\ UNCHANGED vars

Next ==
  \/ Read \/ luaY_parser
  \/ OP_MOVE \/ OP_LOADK \/ OP_LOADBOOL \/ OP_LOADNIL
  \/ OP_GETUPVAL \/ OP_SETUPVAL \/ OP_GETGLOBAL \/ OP_SETGLOBAL
  \/ OP_GETTABLE \/ OP_SETTABLE \/ OP_NEWTABLE \/ OP_SELF
  \/ OP_ARITH \/ OP_UNM \/ OP_NOT \/ OP_LEN \/ OP_CONCAT
  \/ OP_JMP \/ OP_EQ \/ OP_LT \/ OP_LE \/ OP_TEST \/ OP_TESTSET
  \/ OP_CALL \/ OP_TAILCALL \/ OP_RETURN \/ OP_VARARG
  \/ OP_FORPREP \/ OP_FORLOOP \/ OP_TFORLOOP
  \/ OP_SETLIST \/ OP_CLOSE \/ OP_CLOSURE
  \/ Ended

Spec == Init /\ [][Next]_vars
=============================================================================
