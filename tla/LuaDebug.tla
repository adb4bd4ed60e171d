------------------------------ MODULE LuaDebug ------------------------------
(***************************************************************************)
(* The checker of bytecode, luaG_checkcode of ldebug.c with the opcode     *)
(* table of lopcodes.c: what a function must look like for the interpreter *)
(* to run it without checks of its own.                                    *)
(***************************************************************************)
EXTENDS LuaParser

\* luaP_opmodes: the operands B and C are unused (N), used (U), registers or
\* jumps (R), or registers or constants (K).
Modes == [op \in {"MOVE", "LOADK", "LOADBOOL", "LOADNIL", "GETUPVAL", "GETGLOBAL", "GETTABLE",
                  "SETGLOBAL", "SETUPVAL", "SETTABLE", "NEWTABLE", "SELF", "ADD", "SUB", "MUL",
                  "UNM", "NOT", "LEN", "CONCAT", "JMP", "EQ", "LT", "LE", "TEST", "TESTSET",
                  "CALL", "TAILCALL", "RETURN", "FORLOOP", "FORPREP", "TFORLOOP", "SETLIST",
                  "CLOSE", "CLOSURE", "VARARG"} |->
  CASE op \in {"MOVE", "LOADNIL", "UNM", "NOT", "LEN", "JMP", "FORLOOP", "FORPREP"} -> <<"R", "N">>
    [] op \in {"LOADK", "GETGLOBAL", "SETGLOBAL"} -> <<"K", "N">>
    [] op \in {"LOADBOOL", "NEWTABLE", "CALL", "TAILCALL", "SETLIST"} -> <<"U", "U">>
    [] op \in {"GETUPVAL", "SETUPVAL", "RETURN", "CLOSURE", "VARARG"} -> <<"U", "N">>
    [] op \in {"GETTABLE", "SELF"} -> <<"R", "K">>
    [] op \in {"SETTABLE", "ADD", "SUB", "MUL", "EQ", "LT", "LE"} -> <<"K", "K">>
    [] op = "CONCAT" -> <<"R", "R">>
    [] op \in {"TEST", "TESTSET"} -> <<"R", "U">>
    [] op = "TFORLOOP" -> <<"N", "U">>
    [] op = "CLOSE" -> <<"N", "N">>]

luaG_checkopenop(i) == i.op \in {"CALL", "TAILCALL", "RETURN", "SETLIST"} /\ i.b = 0

checkreg(p, r) == r \in 0..p.maxstack - 1
checkArgMode(p, r, mode) ==
  CASE mode = "N" -> r = 0
    [] mode = "U" -> TRUE
    [] mode = "R" -> checkreg(p, r)
    [] mode = "K" -> IF ISK(r) THEN INDEXK(r) < Len(p.k) ELSE checkreg(p, r)

\* A jump from pc by b stays in the function and does not reach a SETLIST count.
checkjump(p, pc, b) ==
  LET dest == pc + 1 + b
  IN  /\ dest \in 0..Len(p.code) - 1
      /\ dest > 0 => ~(At(p, dest - 1).op = "SETLIST" /\ At(p, dest - 1).c = 0)

\* The operands by the mode of the opcode.
OperandsChecked(p, pc, i) ==
  CASE i.op \in {"JMP", "FORLOOP", "FORPREP"}       -> checkjump(p, pc, i.b)
    [] i.op \in {"LOADK", "GETGLOBAL", "SETGLOBAL"} -> i.b < Len(p.k)
    [] i.op = "CLOSURE" -> TRUE
    [] OTHER -> checkArgMode(p, i.b, Modes[i.op][1]) /\ checkArgMode(p, i.c, Modes[i.op][2])

\* What the opcode asks for besides.
OpcodeChecked(p, pc, i) ==
  CASE i.op = "LOADBOOL" -> i.c = 0 \/ pc + 2 < Len(p.code)
    [] i.op \in {"GETUPVAL", "SETUPVAL"}   -> i.b < p.nups
    [] i.op \in {"GETGLOBAL", "SETGLOBAL"} -> p.k[i.b + 1][1] = "str"
    [] i.op = "SELF"     -> checkreg(p, i.a + 1)
    [] i.op = "CONCAT"   -> i.b < i.c
    [] i.op = "TFORLOOP" -> i.c >= 1 /\ checkreg(p, i.a + 2 + i.c)
    [] i.op \in {"FORLOOP", "FORPREP"}   -> checkreg(p, i.a + 3)
    [] i.op \in {"CALL", "TAILCALL"} ->
         /\ i.b # 0 => checkreg(p, i.a + i.b - 1)
         /\ i.c = 0 => luaG_checkopenop(At(p, pc + 1))
         /\ i.c > 1 => checkreg(p, i.a + i.c - 2)
    [] i.op = "RETURN"   -> i.b > 1 => checkreg(p, i.a + i.b - 2)
    [] i.op = "SETLIST"  -> i.b > 0 => checkreg(p, i.a + i.b)
    [] i.op = "CLOSURE"  ->
         /\ i.b < Len(p.p)
         /\ pc + p.p[i.b + 1].nups < Len(p.code)
         /\ \A j \in 1..p.p[i.b + 1].nups : At(p, pc + j).op \in {"GETUPVAL", "MOVE"}
    [] i.op = "VARARG"   ->
         /\ p.vararg
         /\ i.b = 0 => luaG_checkopenop(At(p, pc + 1))
         /\ i.b > 1 => checkreg(p, i.a + i.b - 2)
    [] OTHER -> TRUE

\* The positions symbexec looks at: all but the SETLIST counts.
Executed(p) == {pc \in 0..Len(p.code) - 1 :
                  pc = 0 \/ ~(At(p, pc - 1).op = "SETLIST" /\ At(p, pc - 1).c = 0)}

luaG_checkcode(p) ==
  /\ Last(p.code).op = "RETURN"
  /\ \A pc \in Executed(p) :
       LET i == At(p, pc)
       IN  /\ i.op \in DOMAIN Modes
           /\ checkreg(p, i.a)
           /\ OperandsChecked(p, pc, i)
           /\ i.op \in TestOps => pc + 2 < Len(p.code) /\ At(p, pc + 1).op = "JMP"
           /\ OpcodeChecked(p, pc, i)
=============================================================================
