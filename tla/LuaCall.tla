------------------------------- MODULE LuaCall -------------------------------
(***************************************************************************)
(* Calls, protected calls, errors, coroutines, hooks, finalizers and the   *)
(* closing of a Lua state: ldo.c, lstate.c, the calls of lgc.c to          *)
(* finalizers and the coroutine library of lbaselib.c.                     *)
(*                                                                         *)
(* Lua keeps two stacks.  The CallInfo array of each lua_State has an      *)
(* entry for each active function.  The C stack has the frames of the C    *)
(* functions of the interpreter; they belong to different lua_States, an   *)
(* error cuts it at a frame that called setjmp, and a yield at the frame   *)
(* of the lua_resume of its coroutine.  cstack is that C stack: the last   *)
(* frame is the one that runs, and what it may do next is an action.       *)
(*                                                                         *)
(* A definition marked "fault" is what a slip in the code would make of    *)
(* the definition below it; no action uses it.                             *)
(***************************************************************************)
EXTENDS Integers, Sequences, FiniteSets

CONSTANTS
  Coroutines, MainThread,
  Udatas,       \* userdata with a finalizer
  MAXCCALLS,    \* LUAI_MAXCCALLS
  MAXCALLS,     \* LUAI_MAXCALLS
  BASIC_CI_SIZE,
  Uses          \* what the program does: "hooks" debug.sethook, "handlers"
                \* xpcall, "wrap" coroutine.wrap, "manyresults" coroutines that
                \* return more values than the stack of their resumer can take

Threads == Coroutines \cup {MainThread}

\* The entry of a thread that runs nothing is the first of its CallInfo array.
ASSUME LimitsAssumption ==
  /\ MainThread \notin Coroutines
  /\ MAXCCALLS \in Nat \ {0} /\ MAXCALLS \in Nat \ {0}
  /\ BASIC_CI_SIZE \in 1..MAXCALLS
  /\ IsFiniteSet(Udatas)

VARIABLES
  cstack,    \* the C stack
  T,         \* the fields of each lua_State
  tmudata,   \* g->tmudata, first element first
  finalized, \* the userdata whose finalizer has been called
  phase      \* "run", "close" in lua_close, "closed"

vars == <<cstack, T, tmudata, finalized, phase>>

\* LUAI_MAXCCALLS>>3, what is left to handle the overflow; scaled up from 0.
ErrorCCalls == 1

OK      == "ok"
YIELD   == "yield"
ERRRUN  == "errrun"
ERRERR  == "errerr"

(* The frames of C functions.  Each has the lua_State L it works for.       *)
Exec(L, base) == [k |-> "exec", L |-> L, base |-> base]  \* luaV_execute; base: the
                                                \* entries of CallInfo not its own
CFun(L)       == [k |-> "cfun", L |-> L]        \* a C function
DCall(L)      == [k |-> "call", L |-> L]        \* luaD_call
\* luaD_pcall: prev is lj.previous, the others its local variables.
PCall(L, t)   == [k |-> "pcall", L |-> L, prev |-> t.errorJmp, nCcalls |-> t.nCcalls,
                  ci |-> Len(t.ci), allowhook |-> t.allowhook, errfunc |-> t.errfunc]
\* lua_resume of co, called from auxresume in the thread from.
ResumeOf(co, from, wrap, t) ==
  [k |-> "resume", L |-> co, from |-> from, wrap |-> wrap, prev |-> t.errorJmp]
HookFrame(L)  == [k |-> "hook", L |-> L]        \* luaD_callhook
GCTMOf(L, ah) == [k |-> "gctm", L |-> L, oldah |-> ah]
RaiseOf(L, h) == [k |-> "raise", L |-> L, handled |-> h]  \* luaG_errormsg
CloseLoop     == [k |-> "close", L |-> MainThread]        \* callallgcTM

Landing   == {"pcall", "resume", "close"}  \* the frames that called setjmp
Counted   == {"call", "resume"}            \* the frames nCcalls counts

\* A new thread; top is what a thread that runs nothing has on its stack, ended
\* (a history) says that its body has returned or failed.
Fresh(L) == [status |-> OK, nCcalls |-> 0, baseCcalls |-> 0,
             ci |-> <<"C">>, size_ci |-> BASIC_CI_SIZE,
             allowhook |-> TRUE, errfunc |-> 0, errorJmp |-> 0,
             top |-> IF L = MainThread THEN "none" ELSE "function",
             ended |-> FALSE]

Frame ==
  [k : {"exec"}, L : Threads, base : Nat] \cup
  [k : {"cfun", "call", "hook"}, L : Threads] \cup
  [k : {"pcall"}, L : Threads, prev : Nat, nCcalls : Nat, ci : Nat,
   allowhook : BOOLEAN, errfunc : Nat] \cup
  [k : {"resume"}, L : Threads, from : Threads, wrap : BOOLEAN, prev : Nat] \cup
  [k : {"gctm"}, L : Threads, oldah : BOOLEAN] \cup
  [k : {"raise"}, L : Threads, handled : BOOLEAN] \cup
  [k : {"close"}, L : {MainThread}]

lua_State ==
  [status : {OK, YIELD, ERRRUN, ERRERR}, nCcalls : Nat, baseCcalls : Nat,
   ci : Seq({"lua", "C"}), size_ci : Nat, allowhook : BOOLEAN, errfunc : Nat,
   errorJmp : Nat, top : {"none", "function", "values"}, ended : BOOLEAN]

TypeOK ==
  /\ cstack \in Seq(Frame)
  /\ T \in [Threads -> lua_State]
  /\ tmudata \in Seq(Udatas)
  /\ finalized \subseteq Udatas
  /\ phase \in {"run", "close", "closed"}

-----------------------------------------------------------------------------
(* A machine is the C stack with the threads; the functions of ldo.c take  *)
(* one to the next.                                                        *)

Now        == [cs |-> cstack, T |-> T]
Becomes(m) == cstack' = m.cs /\ T' = m.T
Push(m, f) == [m EXCEPT !.cs = Append(@, f)]
Pop(m)     == [m EXCEPT !.cs = SubSeq(@, 1, Len(@) - 1)]
Top        == cstack[Len(cstack)]
Running    == Top.L

\* restore_stack_limit: an overflow that is over gives its extra space back.
restore_stack_limit(t) ==
  IF t.size_ci > MAXCALLS /\ Len(t.ci) < MAXCALLS THEN [t EXCEPT !.size_ci = MAXCALLS] ELSE t

\* luaD_pcall after an error: the thread as it was at the call.
CallsKept(t, f)     == t.nCcalls  \* fault
CallsRestored(t, f) == f.nCcalls
HookKept(t, f)     == t.allowhook  \* fault
HookRestored(t, f) == f.allowhook
ErrfuncKept(t, f)     == t.errfunc  \* fault
ErrfuncRestored(t, f) == f.errfunc

\* luaD_rawrunprotected restores the handler of the caller.
Unchained(f) == 0  \* fault
Previous(f)  == f.prev

Caught(t, f) ==
  restore_stack_limit(
    [t EXCEPT !.nCcalls = CallsRestored(t, f), !.ci = SubSeq(@, 1, f.ci),
              !.allowhook = HookRestored(t, f), !.errfunc = ErrfuncRestored(t, f),
              !.errorJmp = Previous(f)])

\* lua_resume after an error: the coroutine is dead.
Killed(t, f, code) ==
  [t EXCEPT !.status = code, !.nCcalls = @ - 1, !.errorJmp = Previous(f),
            !.top = "none", !.ended = TRUE]

\* What lua_close resets before it calls the finalizers again.
Reset(t) == [t EXCEPT !.ci = <<"C">>, !.nCcalls = 0, !.baseCcalls = 0]

\* luaD_throw: the C stack is cut at the frame of L->errorJmp, which catches
\* the error.  luaB_auxwrap propagates the error of its coroutine.  Without
\* such a frame the panic function runs and the program exits: no frame is left.
Throw(m, L, code) ==
  LET j     == m.T[L].errorJmp
      f     == m.cs[j]
      below == SubSeq(m.cs, 1, j - 1)
  IN  IF j = 0 THEN [m EXCEPT !.cs = <<>>]
      ELSE CASE f.k = "pcall"  -> [cs |-> below, T |-> [m.T EXCEPT ![L] = Caught(@, f)]]
             [] f.k = "resume" ->
                  LET dead == [cs |-> below, T |-> [m.T EXCEPT ![L] = Killed(@, f, code)]]
                  IN  IF f.wrap THEN Push(dead, RaiseOf(f.from, FALSE)) ELSE dead
             [] f.k = "close"  -> [cs |-> Append(below, f), T |-> [m.T EXCEPT ![L] = Reset(@)]]

\* luaG_errormsg begins: the running frame of L raises an error.
Raise(m, L) == Push(m, RaiseOf(L, FALSE))

\* growCI and luaD_precall: enter a C function, or a Lua function, in a new
\* luaV_execute (frame) or in the one that runs.
Enter(m, L, fun, frame) ==
  LET t    == m.T[L]
      full == Len(t.ci) = t.size_ci
      room == IF full THEN [t EXCEPT !.size_ci = 2 * @] ELSE t
      grow == [m EXCEPT !.T[L] = room]
  IN  IF full /\ t.size_ci > MAXCALLS THEN Throw(m, L, ERRERR)
      ELSE IF full /\ room.size_ci > MAXCALLS THEN Raise(grow, L)
      ELSE LET in == [grow EXCEPT !.T[L].ci = Append(@, fun)]
           IN  CASE fun = "C"             -> Push(in, CFun(L))
                 [] fun = "lua" /\ frame  -> Push(in, Exec(L, Len(t.ci)))
                 [] fun = "lua" /\ ~frame -> in

\* luaD_call: C calls of all threads that resumed each other are counted.
luaD_call(m, L, fun) ==
  LET called == [Push(m, DCall(L)) EXCEPT !.T[L].nCcalls = @ + 1]
      depth  == called.T[L].nCcalls
  IN  IF depth = MAXCCALLS THEN Raise(called, L)
      ELSE IF depth >= MAXCCALLS + ErrorCCalls THEN Throw(called, L, ERRERR)
      ELSE Enter(called, L, fun, TRUE)

\* lua_pcall and luaB_xpcall: ef is the stack index of the handler, 0 if none.
luaD_pcall(m, L, fun, ef) ==
  LET t     == m.T[L]
      tried == [Push(m, PCall(L, t)) EXCEPT !.T[L].errfunc = ef,
                                            !.T[L].errorJmp = Len(m.cs) + 1]
  IN  luaD_call(tried, L, fun)

-----------------------------------------------------------------------------
(* What a Lua function or a C function may do next.                        *)

Runs(k)  == phase \in {"run", "close"} /\ cstack # <<>> /\ Top.k = k
Program  == Runs("exec") \/ Runs("cfun")
\* The C program that owns the state calls nothing outside of lua_pcall or
\* lua_call: it has no frame in any Lua function.
Host     == Len(cstack) = 1 /\ phase = "run"
InScript == Program /\ ~Host

Quiet == UNCHANGED <<tmudata, finalized, phase>>

\* OP_CALL of a Lua function (no C recursion) or of a C function.
OpCall(fun) ==
  /\ Runs("exec")
  /\ Becomes(Enter(Now, Running, fun, FALSE))
  /\ Quiet

\* A metamethod called by the interpreter, or lua_call from a C function.
Call(fun) ==
  /\ Program
  /\ Becomes(luaD_call(Now, Running, fun))
  /\ Quiet

\* lua_pcall and xpcall.
ProtectedCall(fun, handler) ==
  /\ Runs("cfun")
  /\ handler => "handlers" \in Uses
  /\ Becomes(luaD_pcall(Now, Running, fun, IF handler THEN Len(T[Running].ci) ELSE 0))
  /\ Quiet

\* error(), or an operation that fails.
Error ==
  /\ InScript
  /\ Becomes(Raise(Now, Running))
  /\ Quiet

\* luaD_callhook, with the hook of debug.sethook: it calls a Lua function.
Hook ==
  /\ "hooks" \in Uses
  /\ Runs("exec")
  /\ T[Running].allowhook
  /\ Becomes(luaD_call([Push(Now, HookFrame(Running)) EXCEPT !.T[Running].allowhook = FALSE],
                       Running, "lua"))
  /\ Quiet

\* A collector step queues a userdata it has found dead (luaC_separateudata).
Queue(u) ==
  /\ phase = "run" /\ Program
  /\ \A i \in DOMAIN tmudata : tmudata[i] # u
  /\ u \notin finalized
  /\ tmudata' = Append(tmudata, u)
  /\ UNCHANGED <<cstack, T, finalized, phase>>

\* GCTM: the first userdata leaves the queue, then its finalizer is called.
StartGCTM(m, L) ==
  luaD_call([Push(m, GCTMOf(L, m.T[L].allowhook)) EXCEPT !.T[L].allowhook = FALSE], L, "lua")

LeftInQueue == tmudata  \* fault
OutOfQueue  == Tail(tmudata)

GCTM ==
  /\ InScript \/ Runs("close")
  /\ tmudata # <<>>
  /\ tmudata' = OutOfQueue
  /\ finalized' = finalized \cup {Head(tmudata)}
  /\ Becomes(StartGCTM(Now, Running))
  /\ UNCHANGED phase

\* traversestack in a collector step: checkstacksizes halves an array most of
\* which is not in use.
HalfUnused(t) ==  \* fault
  t.size_ci <= MAXCALLS /\ 2 * (Len(t.ci) - 1) < t.size_ci /\ 2 * BASIC_CI_SIZE < t.size_ci
MostlyUnused(t) ==
  /\ t.size_ci <= MAXCALLS
  /\ 4 * (Len(t.ci) - 1) < t.size_ci
  /\ 2 * BASIC_CI_SIZE < t.size_ci

checkstacksizes(L) ==
  /\ phase = "run" /\ Program
  /\ MostlyUnused(T[L])
  /\ T' = [T EXCEPT ![L].size_ci = @ \div 2]
  /\ UNCHANGED <<cstack, tmudata, finalized, phase>>

-----------------------------------------------------------------------------
(* Coroutines.                                                             *)

\* costatus, asked from thread L.
FramesFirst(L, co) ==  \* fault
  CASE L = co                             -> "running"
    [] L # co /\ Len(T[co].ci) > 1        -> "normal"
    [] L # co /\ Len(T[co].ci) = 1        ->
         IF T[co].top = "none" THEN "dead" ELSE "suspended"
costatus(L, co) ==
  CASE L = co                                        -> "running"
    [] L # co /\ T[co].status = YIELD                -> "suspended"
    [] L # co /\ T[co].status = OK /\ Len(T[co].ci) > 1 -> "normal"
    [] L # co /\ T[co].status = OK /\ Len(T[co].ci) = 1 ->
         IF T[co].top = "none" THEN "dead" ELSE "suspended"
    [] OTHER                                         -> "dead"

\* -1 from auxresume: luaB_auxwrap raises the message.
Refused(m, L, wrap) == IF wrap THEN Raise(m, L) ELSE m

\* resume_error empties the stack of the frame: a coroutine that had not begun
\* loses its function.
Emptied(t) == [t EXCEPT !.top = "none", !.ended = @ \/ t.status = OK]

\* lua_setlevel: the depth of the resumer.
NoLevel(from) == 0  \* fault
LevelOf(from) == T[from].nCcalls

\* resume: the start of the coroutine, or the end of the OP_CALL that yielded.
\* What a finished coroutine left on its stack is not a function.
Resumed(m, co) ==
  IF m.T[co].status = OK
  THEN IF m.T[co].top = "function"
       THEN Enter([m EXCEPT !.T[co].top = "none"], co, "lua", TRUE)
       ELSE Raise(m, co)
  ELSE LET t == m.T[co]
           c == SubSeq(t.ci, 1, Len(t.ci) - 1)
       IN  Push([m EXCEPT !.T[co] = [t EXCEPT !.status = OK, !.ci = c]], Exec(co, 1))

Resume(co, wrap) ==
  /\ Runs("cfun") /\ ~Host
  /\ wrap => "wrap" \in Uses
  /\ LET L     == Running
         level == LevelOf(L)
         t     == [T[co] EXCEPT !.nCcalls = level]
         m     == [Now EXCEPT !.T[co] = t]
     IN  IF costatus(L, co) # "suspended" THEN Becomes(Refused(Now, L, wrap))
         ELSE IF level >= MAXCCALLS
         THEN Becomes(Refused([m EXCEPT !.T[co] = Emptied(@)], L, wrap))
         ELSE Becomes(Resumed([Push(m, ResumeOf(co, L, wrap, t)) EXCEPT
                                 !.T[co].nCcalls = level + 1, !.T[co].baseCcalls = level + 1,
                                 !.T[co].errorJmp = Len(cstack) + 1], co))
  /\ Quiet

\* lua_yield: the C function returns to the luaV_execute of its caller, and
\* that to lua_resume.
AnyYield(L)    == TRUE  \* fault
MayYield(L)    == T[L].nCcalls <= T[L].baseCcalls

Yield ==
  /\ Runs("cfun") /\ ~Host
  /\ LET L == Running
     IN  Becomes(IF MayYield(L)
                 THEN [cs |-> SubSeq(cstack, 1, Len(cstack) - 2),
                       T |-> [T EXCEPT ![L].status = YIELD]]
                 ELSE Raise(Now, L))
  /\ Quiet

-----------------------------------------------------------------------------
(* Returns.                                                                *)

\* luaD_poscall.
Return ==
  /\ InScript
  /\ LET L == Running
         t == [T[L] EXCEPT !.ci = SubSeq(@, 1, Len(@) - 1)]
         m == [Now EXCEPT !.T[L] = t]
     IN  Becomes(IF Top.k = "cfun" \/ Len(t.ci) = Top.base THEN Pop(m) ELSE m)
  /\ Quiet

\* The end of luaD_call.
CallReturns ==
  /\ Runs("call")
  /\ Becomes([Pop(Now) EXCEPT !.T[Running].nCcalls = @ - 1])
  /\ Quiet

\* The end of luaD_pcall without an error.
PCallReturns ==
  /\ Runs("pcall")
  /\ Becomes([Pop(Now) EXCEPT !.T[Running].errorJmp = Previous(Top),
                              !.T[Running].errfunc = ErrfuncRestored(T[Running], Top)])
  /\ Quiet

\* The end of lua_resume without an error, and of auxresume: the values move
\* to the resumer unless they are too many for its stack.
ResumeReturns(many) ==
  /\ Runs("resume")
  /\ many => "manyresults" \in Uses
  /\ LET m == [Pop(Now) EXCEPT !.T[Running].errorJmp = Previous(Top),
                               !.T[Running].nCcalls = @ - 1,
                               !.T[Running].top = IF many THEN "values" ELSE "none",
                               !.T[Running].ended = T[Running].status = OK]
     IN  Becomes(IF many THEN Raise(m, Top.from) ELSE m)
  /\ Quiet

HookReturns ==
  /\ Runs("hook")
  /\ Becomes([Pop(Now) EXCEPT !.T[Running].allowhook = TRUE])
  /\ Quiet

GCTMReturns ==
  /\ Runs("gctm")
  /\ Becomes([Pop(Now) EXCEPT !.T[Running].allowhook = Top.oldah])
  /\ Quiet

\* luaG_errormsg: the handler of the innermost xpcall is called first.  The
\* error is thrown when there is none, and when it has returned.
HandleError ==
  /\ Runs("raise")
  /\ LET L == Running
         m == Pop(Now)
     IN  Becomes(IF T[L].errfunc # 0 /\ ~Top.handled
                 THEN luaD_call(Push(m, RaiseOf(L, TRUE)), L, "lua")
                 ELSE Throw(m, L, ERRRUN))
  /\ Quiet

-----------------------------------------------------------------------------
(* lua_close.                                                              *)

\* luaC_separateudata(L, 1) queues every userdata, then callallgcTM runs.
Close ==
  /\ Host
  /\ phase' = "close"
  /\ \E order \in [1..Cardinality(Udatas \ finalized) -> Udatas \ finalized] :
       /\ \A i, j \in DOMAIN order : order[i] = order[j] => i = j
       /\ SubSeq(order, 1, Len(tmudata)) = tmudata
       /\ tmudata' = order
  /\ Becomes([cs |-> <<CloseLoop>>,
              T |-> [T EXCEPT ![MainThread] = [Reset(@) EXCEPT !.errfunc = 0, !.errorJmp = 1]]])
  /\ UNCHANGED finalized

Closed ==
  /\ Runs("close")
  /\ tmudata = <<>>
  /\ phase' = "closed"
  /\ cstack' = <<>>
  /\ T' = [T EXCEPT ![MainThread].errorJmp = 0]
  /\ UNCHANGED <<tmudata, finalized>>

\* The state or the program is gone.
Ended == cstack = <<>> /\ UNCHANGED vars

Init ==
  /\ cstack = <<CFun(MainThread)>>
  /\ T = [L \in Threads |-> Fresh(L)]
  /\ tmudata = <<>>
  /\ finalized = {}
  /\ phase = "run"

Next ==
  \/ \E fun \in {"lua", "C"} : OpCall(fun)
  \/ \E fun \in {"lua", "C"} : Call(fun)
  \/ \E fun \in {"lua", "C"}, handler \in BOOLEAN : ProtectedCall(fun, handler)
  \/ Error
  \/ Hook
  \/ \E u \in Udatas : Queue(u)
  \/ GCTM
  \/ \E L \in Threads : checkstacksizes(L)
  \/ \E co \in Threads, wrap \in BOOLEAN : Resume(co, wrap)
  \/ Yield
  \/ Return
  \/ CallReturns
  \/ PCallReturns
  \/ \E many \in BOOLEAN : ResumeReturns(many)
  \/ HookReturns
  \/ GCTMReturns
  \/ HandleError
  \/ Close
  \/ Closed
  \/ Ended

Spec == Init /\ [][Next]_vars

-----------------------------------------------------------------------------
(* Safety.                                                                 *)

FramesOf(L) == {i \in DOMAIN cstack : cstack[i].L = L}
Last(S)     == CHOOSE i \in S : \A j \in S : j <= i

\* nCcalls is the depth of the C stack: for a thread that has frames, the number
\* of luaD_call and lua_resume frames below its last one, whatever errors,
\* yields and overflows came before.
DepthCounted ==
  \A L \in Threads : FramesOf(L) # {} =>
    T[L].nCcalls =
      Cardinality({i \in 1..Last(FramesOf(L)) : cstack[i].k \in Counted})

\* The C stack is bounded, over all threads together: LUAI_MAXCCALLS nested
\* calls, and what is left to handle the overflow ("maximum depth for nested C
\* calls", luaconf.h:465).
CStackBounded ==
  Cardinality({i \in DOMAIN cstack : cstack[i].k \in Counted}) <= MAXCCALLS + ErrorCCalls

\* longjmp never goes to a frame that has returned: errorJmp is the innermost
\* frame of its thread that called setjmp, and a running coroutine has one.
ErrorJmpLive ==
  \A L \in Threads :
    LET landing == {i \in FramesOf(L) : cstack[i].k \in Landing}
    IN  /\ T[L].errorJmp = IF landing = {} THEN 0 ELSE Last(landing)
        /\ L # MainThread /\ FramesOf(L) # {} => landing # {}

\* The error function is that of the innermost protected call of the thread
\* that is active, and its stack slot is still in use (lua_resume asserts that
\* a coroutine that is not running has none, ldo.c:425).
ErrfuncLive ==
  \A L \in Threads :
    LET calls == {i \in FramesOf(L) : cstack[i].k = "pcall"}
    IN  T[L].errfunc # 0 => calls # {} /\ T[L].errfunc = cstack[Last(calls)].ci

\* Hooks are off exactly while a hook or a finalizer runs in the thread,
\* whatever error ended those before; lua_close leaves them off.
HooksGuarded ==
  \A L \in Threads :
    LET guarded == \E i \in FramesOf(L) : cstack[i].k \in {"hook", "gctm"}
    IN  /\ guarded => ~T[L].allowhook
        /\ ~T[L].allowhook /\ ~guarded => T[L].ended \/ phase # "run" \/ cstack = <<>>

\* The CallInfo array holds what is in use, however it grew, was cut back by an
\* error and halved by the collector, and never grows twice past its limit.
CallInfoInBounds ==
  \A L \in Threads : Len(T[L].ci) <= T[L].size_ci /\ T[L].size_ci <= 2 * MAXCALLS

\* A coroutine that has yielded has left nothing on the C stack, and all that
\* it has left in its CallInfo array are Lua functions and the C function that
\* yielded: lua_resume can rebuild the rest.
SuspendedClean ==
  \A L \in Threads : T[L].status = YIELD =>
    /\ \A i \in FramesOf(L) : i = Len(cstack) /\ Top.k = "resume"
    /\ Len(T[L].ci) > 2
    /\ \A i \in 2..Len(T[L].ci) : T[L].ci[i] = "C" <=> i = Len(T[L].ci)

\* What coroutine.status answers, derived from lua_State fields made for other
\* purposes, is what the coroutine is doing.
Doing(L) ==
  CASE FramesOf(L) # {} /\ L = Running -> "running"
    [] FramesOf(L) # {} /\ L # Running -> "normal"
    [] FramesOf(L) = {} /\ T[L].ended  -> "dead"
    [] FramesOf(L) = {} /\ ~T[L].ended -> "suspended"

StatusTrue == InScript => \A co \in Threads : costatus(Running, co) = Doing(co)

\* A finalizer is called once, also when it or the ones before it failed, and
\* lua_close leaves out none.
FinalizedOnce ==
  /\ \A i, j \in DOMAIN tmudata : tmudata[i] = tmudata[j] => i = j
  /\ \A i \in DOMAIN tmudata : tmudata[i] \notin finalized
  /\ phase = "closed" => finalized = Udatas

=============================================================================
