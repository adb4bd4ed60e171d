---------------------------- MODULE LuaCallSafety ----------------------------
(***************************************************************************)
(* Every step of LuaCall keeps the invariant of LuaCallInv, and what the   *)
(* runs check of calls, errors, coroutines, hooks and finalizers follows   *)
(* from it for every value of the constants.                               *)
(***************************************************************************)
EXTENDS LuaCallSteps

-----------------------------------------------------------------------------
(* The state as a machine.                                                 *)

\* The fields of the machine are the variables.
LEMMA NowIs == Now.cs = cstack /\ Now.T = T /\ Now = [cs |-> cstack, T |-> T]
BY DEF Now

\* The invariant says that the machine is safe.
LEMMA NowSafe ==
  ASSUME CallInv
  PROVE  /\ Safe(Now, phase) /\ Now \in Machine
         /\ cstack \in Seq(Frame) /\ T \in [Threads -> lua_State]
         /\ tmudata \in Seq(Udatas) /\ finalized \subseteq Udatas
         /\ phase \in {"run", "close", "closed"}
<1>1. Now \in Machine
  BY DEF CallInv, TypeOK, Now, Machine
<1>2. Bounded(Now.cs) /\ \E h \in Seq(Level) : Good(Now, h, phase)
  BY NowIs DEF CallInv
<1> QED BY <1>1, <1>2 DEF Safe, Sound, CallInv, TypeOK

\* A step to a safe machine keeps the invariant.
LEMMA StepsTo ==
  ASSUME NEW m, Becomes(m), Safe(m, phase'), tmudata' \in Seq(Udatas),
         finalized' \subseteq Udatas, phase' \in {"run", "close", "closed"}
  PROVE  CallInv'
<1>1. m = [cs |-> cstack', T |-> T'] /\ cstack' \in Seq(Frame) /\ T' \in [Threads -> lua_State]
  BY DEF Becomes, Safe, Sound, Machine
<1>2. TypeOK'
  BY <1>1 DEF TypeOK
<1>3. Now' = m
  BY <1>1 DEF Now
<1>4. \E h \in Seq(Level) : Good(Now', h, phase')
  BY <1>3 DEF Safe, Sound
<1>5. Bounded(cstack')
  BY DEF Becomes, Safe
<1> QED BY <1>2, <1>4, <1>5 DEF CallInv

\* Most steps leave the queue and the phase alone.
LEMMA QuietStep ==
  ASSUME CallInv, NEW m, Becomes(m), Safe(m, phase), Quiet
  PROVE  CallInv'
<1>1. phase' = phase /\ tmudata' = tmudata /\ finalized' = finalized
  BY DEF Quiet
<1> QED BY <1>1, NowSafe, StepsTo

\* The frame that runs.
LEMMA RunsIs ==
  ASSUME CallInv, NEW k, Runs(k)
  PROVE  /\ Now.cs # <<>> /\ Now.cs[Len(Now.cs)].k = k /\ Running = Now.cs[Len(Now.cs)].L
         /\ Top = Now.cs[Len(Now.cs)] /\ phase \in {"run", "close"}
         /\ Len(Now.cs) = Len(cstack)
BY NowIs DEF Runs, Running, Top

-----------------------------------------------------------------------------
(* One lemma for each action.                                              *)

LEMMA OpCallStep ==
  ASSUME CallInv, NEW fun \in {"lua", "C"}, OpCall(fun)
  PROVE  CallInv'
<1>1. Runs("exec") /\ Becomes(Enter(Now, Running, fun, FALSE)) /\ Quiet
  BY DEF OpCall
<1>2. /\ Now.cs # <<>> /\ Now.cs[Len(Now.cs)].k = "exec" /\ Safe(Now, phase)
      /\ Running = Now.cs[Len(Now.cs)].L
  BY <1>1, RunsIs, NowSafe
<1>3. Safe(Enter(Now, Now.cs[Len(Now.cs)].L, fun, FALSE), phase)
  BY <1>2, OpCallSafe
<1> QED BY <1>1, <1>2, <1>3, QuietStep

LEMMA CallStep ==
  ASSUME CallInv, NEW fun \in {"lua", "C"}, Call(fun)
  PROVE  CallInv'
<1>1. (Runs("exec") \/ Runs("cfun")) /\ Becomes(luaD_call(Now, Running, fun)) /\ Quiet
  BY DEF Call, Program
<1>2. Safe(luaD_call(Now, Running, fun), phase)
  BY <1>1, RunsIs, NowSafe, CallSafe
<1> QED BY <1>1, <1>2, QuietStep

LEMMA ProtectedCallStep ==
  ASSUME CallInv, NEW fun \in {"lua", "C"}, NEW handler \in BOOLEAN, ProtectedCall(fun, handler)
  PROVE  CallInv'
<1> DEFINE ef == IF handler THEN Len(T[Running].ci) ELSE 0
<1>1. Runs("cfun") /\ Becomes(luaD_pcall(Now, Running, fun, ef)) /\ Quiet
  BY DEF ProtectedCall
<1>2. ef \in {0, Len(Now.T[Running].ci)}
  BY NowIs
<1> HIDE DEF ef
<1>3. Safe(luaD_pcall(Now, Running, fun, ef), phase)
  BY <1>1, <1>2, RunsIs, NowSafe, PCallSafe
<1> QED BY <1>1, <1>3, QuietStep

LEMMA ErrorStep ==
  ASSUME CallInv, Error
  PROVE  CallInv'
<1>1. (Runs("exec") \/ Runs("cfun")) /\ Becomes(Raise(Now, Running)) /\ Quiet
  BY DEF Error, InScript, Program
<1>2. CanRun(Now, Running) /\ Now.cs[Len(Now.cs)].k \in {"exec", "cfun"}
  BY <1>1, RunsIs, NowSafe, Ready
<1>3. Safe(Raise(Now, Running), phase)
  BY <1>2, NowSafe, RaiseSafe
<1> QED BY <1>1, <1>3, QuietStep

LEMMA HookStep ==
  ASSUME CallInv, Hook
  PROVE  CallInv'
<1> DEFINE m2(L) == luaD_call([Push(Now, HookFrame(L)) EXCEPT !.T[L].allowhook = FALSE], L, "lua")
<1>1. Runs("exec") /\ Now.T[Running].allowhook /\ Becomes(m2(Running)) /\ Quiet
  BY NowIs DEF Hook
<1>2. Safe(m2(Now.cs[Len(Now.cs)].L), phase)
  <2>1. /\ Now.cs # <<>> /\ Now.cs[Len(Now.cs)].k = "exec" /\ Safe(Now, phase)
        /\ Now.T[Now.cs[Len(Now.cs)].L].allowhook
    BY <1>1, RunsIs, NowSafe
  <2> QED BY <2>1, HookSafe
<1>3. Safe(m2(Running), phase)
  BY <1>1, <1>2, RunsIs
<1> HIDE DEF m2
<1> QED BY <1>1, <1>3, QuietStep

LEMMA QueueStep ==
  ASSUME CallInv, NEW u \in Udatas, Queue(u)
  PROVE  CallInv'
<1>1. /\ tmudata' = Append(tmudata, u) /\ cstack' = cstack /\ T' = T
      /\ finalized' = finalized /\ phase' = phase
  BY DEF Queue
<1>2. Becomes(Now)
  BY <1>1, NowIs DEF Becomes
<1>3. tmudata' \in Seq(Udatas)
  BY <1>1, NowSafe
<1> QED BY <1>1, <1>2, <1>3, NowSafe, StepsTo

LEMMA GCTMStep ==
  ASSUME CallInv, GCTM
  PROVE  CallInv'
<1>1. /\ Runs("exec") \/ Runs("cfun") \/ Runs("close")
      /\ tmudata # <<>> /\ tmudata' = Tail(tmudata) /\ finalized' = finalized \cup {Head(tmudata)}
      /\ Becomes(StartGCTM(Now, Running)) /\ phase' = phase
  BY DEF GCTM, InScript, Program, OutOfQueue
<1>2. Safe(StartGCTM(Now, Running), phase)
  BY <1>1, RunsIs, NowSafe, GCTMSafe
<1>3. tmudata' \in Seq(Udatas) /\ finalized' \subseteq Udatas
  BY <1>1, NowSafe
<1> QED BY <1>1, <1>2, <1>3, NowSafe, StepsTo

LEMMA checkstacksizesStep ==
  ASSUME CallInv, NEW L \in Threads, checkstacksizes(L)
  PROVE  CallInv'
<1> DEFINE m2 == [Now EXCEPT !.T[L].size_ci = Now.T[L].size_ci \div 2]
<1>1. /\ MostlyUnused(Now.T[L]) /\ T' = [T EXCEPT ![L].size_ci = T[L].size_ci \div 2]
      /\ cstack' = cstack /\ Quiet
  BY NowIs DEF checkstacksizes, Quiet
<1>2. Safe(m2, phase)
  BY <1>1, NowSafe, CheckSafe
<1>3. Becomes(m2)
  BY <1>1 DEF Becomes, Now
<1> QED BY <1>1, <1>2, <1>3, QuietStep

\* A coroutine whose status is "suspended" has no frame, or has just yielded.
LEMMA SuspendedIs ==
  ASSUME NEW L, NEW co, costatus(L, co) = "suspended"
  PROVE  Dormant(L, co, T[co])
<1>1. CASE L = co
  <2>1. costatus(L, co) = "running"
    BY <1>1 DEF costatus
  <2> QED BY <2>1
<1>2. CASE L # co /\ T[co].status # YIELD /\ ~(T[co].status = OK /\ Len(T[co].ci) = 1)
  <2>1. costatus(L, co) \in {"normal", "dead"}
    BY <1>2 DEF costatus, OK, YIELD
  <2> QED BY <2>1
<1> QED BY <1>1, <1>2 DEF Dormant

LEMMA ResumeStep ==
  ASSUME CallInv, NEW co \in Threads, NEW wrap \in BOOLEAN, Resume(co, wrap)
  PROVE  CallInv'
<1> DEFINE L  == Running
           v  == T[L].nCcalls
           t  == [T[co] EXCEPT !.nCcalls = v]
           m1 == [Now EXCEPT !.T[co] = t]
           b  == [Push(m1, ResumeOf(co, L, wrap, t)) EXCEPT
                    !.T[co].nCcalls = v + 1, !.T[co].baseCcalls = v + 1,
                    !.T[co].errorJmp = Len(cstack) + 1]
           e  == [m1 EXCEPT !.T[co] = Emptied(@)]
<1>1. /\ Runs("cfun") /\ ~Host /\ Quiet
      /\ IF costatus(L, co) # "suspended" THEN Becomes(Refused(Now, L, wrap))
         ELSE IF v >= MAXCCALLS THEN Becomes(Refused(e, L, wrap))
         ELSE Becomes(Resumed(b, co))
  BY DEF Resume, LevelOf
<1>2. /\ Now.cs # <<>> /\ Now.cs[Len(Now.cs)].k = "cfun" /\ Safe(Now, phase) /\ Now \in Machine
      /\ L = Now.cs[Len(Now.cs)].L /\ CanRun(Now, L) /\ v = Now.T[L].nCcalls /\ v \in Nat
      /\ Now.T = T
  <2>1. /\ Now.cs # <<>> /\ Now.cs[Len(Now.cs)].k = "cfun" /\ Safe(Now, phase) /\ Now \in Machine
        /\ L = Now.cs[Len(Now.cs)].L /\ Now.T = T
    BY <1>1, RunsIs, NowSafe, NowIs
  <2>2. CanRun(Now, L) /\ Now.T[L] \in lua_State
    BY <2>1, Ready
  <2> QED BY <2>1, <2>2, StateType
<1>3. Len(Now.cs) # 1
  <2>1. CASE phase = "run"
    BY <1>1, <2>1, RunsIs DEF Host
  <2>2. CASE phase # "run"
    <3>1. PICK h \in Seq(Level) : Good(Now, h, phase)
      BY <1>2 DEF Safe, Sound
    <3> QED BY <1>2, <2>2, <3>1, NotHost
  <2> QED BY <2>1, <2>2
<1>4. CASE costatus(L, co) # "suspended"
  <2>1. Safe(Refused(Now, L, wrap), phase)
    BY <1>2, RefusedSafe
  <2> QED BY <1>1, <1>4, <2>1, QuietStep
<1>5. CASE costatus(L, co) = "suspended" /\ v >= MAXCCALLS
  <2>1. Dormant(L, co, Now.T[co])
    BY <1>2, <1>5, SuspendedIs
  <2>2. Safe(Refused(e, L, wrap), phase)
    <3> DEFINE tt == [Now.T[co] EXCEPT !.nCcalls = v]
               mm == [Now EXCEPT !.T[co] = tt]
    <3>1. Safe(Refused([mm EXCEPT !.T[co] = Emptied(@)], L, wrap), phase)
      BY <1>2, <2>1, EmptiedSafe
    <3>2. tt = t
      BY <1>2
    <3> QED BY <3>1, <3>2
  <2>3. Becomes(Refused(e, L, wrap))
    BY <1>1, <1>5
  <2> HIDE DEF e
  <2> QED BY <1>1, <2>2, <2>3, QuietStep
<1>6. CASE costatus(L, co) = "suspended" /\ ~(v >= MAXCCALLS)
  <2>1. Dormant(L, co, Now.T[co])
    BY <1>2, <1>6, SuspendedIs
  <2>2. Now.T[L].nCcalls < MAXCCALLS
    BY <1>2, <1>6, LimitType
  <2>3. Safe(Resumed(Begun(Now, L, co, wrap, Now.T[co].top), co), phase)
    BY <1>2, <1>3, <2>1, <2>2, ResumedSafe
  <2>4. b = Begun(Now, L, co, wrap, Now.T[co].top)
    <3> DEFINE tt == [Now.T[co] EXCEPT !.nCcalls = Now.T[L].nCcalls]
               mm == [Now EXCEPT !.T[co] = tt]
               bb == [Push(mm, ResumeOf(co, L, wrap, tt)) EXCEPT
                        !.T[co].nCcalls = Now.T[L].nCcalls + 1,
                        !.T[co].baseCcalls = Now.T[L].nCcalls + 1,
                        !.T[co].errorJmp = Len(Now.cs) + 1]
    <3>1. bb = Begun(Now, L, co, wrap, Now.T[co].top)
      <4>1. Now \in Machine
        BY <1>2
      <4> HIDE DEF L, v
      <4> QED BY <4>1, BegunIs
    <3>2. bb = b
      BY <1>2, NowIs
    <3> QED BY <3>1, <3>2
  <2>5. Becomes(Resumed(b, co))
    BY <1>1, <1>6
  <2> HIDE DEF b
  <2> QED BY <1>1, <2>3, <2>4, <2>5, QuietStep
<1> QED BY <1>4, <1>5, <1>6

LEMMA YieldStep ==
  ASSUME CallInv, Yield
  PROVE  CallInv'
<1> DEFINE L  == Running
           m2 == [cs |-> SubSeq(cstack, 1, Len(cstack) - 2), T |-> [T EXCEPT ![L].status = YIELD]]
<1>1. /\ Runs("cfun") /\ ~Host /\ Quiet
      /\ Becomes(IF MayYield(L) THEN m2 ELSE Raise(Now, L))
  BY DEF Yield
<1>2. /\ Now.cs # <<>> /\ Now.cs[Len(Now.cs)].k = "cfun" /\ Safe(Now, phase)
      /\ L = Now.cs[Len(Now.cs)].L /\ Now.T = T /\ Now.cs = cstack
      /\ ~(Len(Now.cs) = 1 /\ phase = "run")
  BY <1>1, RunsIs, NowSafe, NowIs DEF Host
<1>3. CASE MayYield(L)
  <2>1. Now.T[L].nCcalls <= Now.T[L].baseCcalls
    BY <1>2, <1>3 DEF MayYield
  <2>2. Safe([cs |-> SubSeq(Now.cs, 1, Len(Now.cs) - 2), T |-> [Now.T EXCEPT ![L].status = YIELD]], phase)
    BY <1>2, <2>1, YieldSafe
  <2>3. Safe(m2, phase) /\ Becomes(m2)
    BY <1>1, <1>2, <1>3, <2>2
  <2> HIDE DEF m2
  <2> QED BY <1>1, <2>3, QuietStep
<1>4. CASE ~MayYield(L)
  <2>1. CanRun(Now, L)
    BY <1>2, Ready
  <2>2. Safe(Raise(Now, L), phase)
    BY <1>2, <2>1, RaiseSafe
  <2>3. Becomes(Raise(Now, L))
    BY <1>1, <1>4
  <2> QED BY <1>1, <2>2, <2>3, QuietStep
<1> QED BY <1>3, <1>4

LEMMA ReturnStep ==
  ASSUME CallInv, Return
  PROVE  CallInv'
<1> DEFINE m2(c, x, f) ==
             LET t1 == [x[f.L] EXCEPT !.ci = SubSeq(@, 1, Len(@) - 1)]
                 m1 == [Now EXCEPT !.T[f.L] = t1]
             IN  IF f.k = "cfun" \/ Len(t1.ci) = f.base THEN Pop(m1) ELSE m1
<1>1. (Runs("exec") \/ Runs("cfun")) /\ ~Host /\ Quiet /\ Becomes(m2(cstack, T, Top))
  BY DEF Return, InScript, Program, Running
<1>2. /\ Now.cs # <<>> /\ Now.cs[Len(Now.cs)].k \in {"exec", "cfun"} /\ Safe(Now, phase)
      /\ Top = Now.cs[Len(Now.cs)] /\ Now.T = T /\ Now.cs = cstack
      /\ ~(Len(Now.cs) = 1 /\ phase = "run")
  BY <1>1, RunsIs, NowSafe, NowIs DEF Host
<1>3. Safe(m2(Now.cs, Now.T, Now.cs[Len(Now.cs)]), phase)
  BY <1>2, ReturnSafe
<1> HIDE DEF m2
<1>4. Safe(m2(cstack, T, Top), phase)
  BY <1>2, <1>3
<1> QED BY <1>1, <1>4, QuietStep

LEMMA CallReturnsStep ==
  ASSUME CallInv, CallReturns
  PROVE  CallInv'
<1> DEFINE m2(L) == [Pop(Now) EXCEPT !.T[L].nCcalls = @ - 1]
<1>1. Runs("call") /\ Becomes(m2(Running)) /\ Quiet
  BY DEF CallReturns
<1>2. /\ Now.cs # <<>> /\ Now.cs[Len(Now.cs)].k = "call" /\ Safe(Now, phase)
      /\ Running = Now.cs[Len(Now.cs)].L
  BY <1>1, RunsIs, NowSafe
<1>3. Safe(m2(Now.cs[Len(Now.cs)].L), phase)
  BY <1>2, CallReturnsSafe
<1> HIDE DEF m2
<1>4. Safe(m2(Running), phase)
  BY <1>2, <1>3
<1> QED BY <1>1, <1>4, QuietStep

LEMMA PCallReturnsStep ==
  ASSUME CallInv, PCallReturns
  PROVE  CallInv'
<1> DEFINE m2(x, f) == [Pop(Now) EXCEPT !.T[f.L].errorJmp = Previous(f),
                                        !.T[f.L].errfunc = ErrfuncRestored(x[f.L], f)]
<1>1. Runs("pcall") /\ Becomes(m2(T, Top)) /\ Quiet
  BY DEF PCallReturns, Running
<1>2. /\ Now.cs # <<>> /\ Now.cs[Len(Now.cs)].k = "pcall" /\ Safe(Now, phase)
      /\ Top = Now.cs[Len(Now.cs)] /\ Now.T = T
  BY <1>1, RunsIs, NowSafe, NowIs
<1>3. Safe(m2(Now.T, Now.cs[Len(Now.cs)]), phase)
  BY <1>2, PCallReturnsSafe
<1> HIDE DEF m2
<1>4. Safe(m2(T, Top), phase)
  BY <1>2, <1>3
<1> QED BY <1>1, <1>4, QuietStep

LEMMA ResumeReturnsStep ==
  ASSUME CallInv, NEW many \in BOOLEAN, ResumeReturns(many)
  PROVE  CallInv'
<1> DEFINE m1(x, f) == [Pop(Now) EXCEPT !.T[f.L].errorJmp = Previous(f),
                                        !.T[f.L].nCcalls = @ - 1,
                                        !.T[f.L].top = IF many THEN "values" ELSE "none",
                                        !.T[f.L].ended = x[f.L].status = OK]
           m2(x, f) == IF many THEN Raise(m1(x, f), f.from) ELSE m1(x, f)
<1>1. Runs("resume") /\ Becomes(m2(T, Top)) /\ Quiet /\ (many => "manyresults" \in Uses)
  BY DEF ResumeReturns, Running
<1>2. /\ Now.cs # <<>> /\ Now.cs[Len(Now.cs)].k = "resume" /\ Safe(Now, phase)
      /\ Top = Now.cs[Len(Now.cs)] /\ Now.T = T
  BY <1>1, RunsIs, NowSafe, NowIs
<1>3. Safe(m2(Now.T, Now.cs[Len(Now.cs)]), phase)
  BY <1>1, <1>2, ResumeReturnsSafe
<1> HIDE DEF m2
<1>4. Safe(m2(T, Top), phase)
  BY <1>2, <1>3
<1> QED BY <1>1, <1>4, QuietStep

LEMMA HookReturnsStep ==
  ASSUME CallInv, HookReturns
  PROVE  CallInv'
<1> DEFINE m2(L) == [Pop(Now) EXCEPT !.T[L].allowhook = TRUE]
<1>1. Runs("hook") /\ Becomes(m2(Running)) /\ Quiet
  BY DEF HookReturns
<1>2. /\ Now.cs # <<>> /\ Now.cs[Len(Now.cs)].k = "hook" /\ Safe(Now, phase)
      /\ Running = Now.cs[Len(Now.cs)].L
  BY <1>1, RunsIs, NowSafe
<1>3. Safe(m2(Now.cs[Len(Now.cs)].L), phase)
  BY <1>2, AllowSafe
<1> HIDE DEF m2
<1>4. Safe(m2(Running), phase)
  BY <1>2, <1>3
<1> QED BY <1>1, <1>4, QuietStep

LEMMA GCTMReturnsStep ==
  ASSUME CallInv, GCTMReturns
  PROVE  CallInv'
<1> DEFINE m2(f) == [Pop(Now) EXCEPT !.T[f.L].allowhook = f.oldah]
<1>1. Runs("gctm") /\ Becomes(m2(Top)) /\ Quiet
  BY DEF GCTMReturns, Running
<1>2. /\ Now.cs # <<>> /\ Now.cs[Len(Now.cs)].k = "gctm" /\ Safe(Now, phase)
      /\ Top = Now.cs[Len(Now.cs)] /\ Now \in Machine
  BY <1>1, RunsIs, NowSafe
<1>3. Now.cs[Len(Now.cs)].oldah \in BOOLEAN
  <2>1. Now.cs[Len(Now.cs)] \in Frame
    BY <1>2 DEF Machine
  <2> QED BY <1>2, <2>1 DEF Frame
<1>4. Safe(m2(Now.cs[Len(Now.cs)]), phase)
  <2> DEFINE ah == Now.cs[Len(Now.cs)].oldah
  <2>1. Safe([Pop(Now) EXCEPT !.T[Now.cs[Len(Now.cs)].L].allowhook = ah], phase)
    BY <1>2, <1>3, AllowSafe
  <2> QED BY <2>1
<1> HIDE DEF m2
<1>5. Safe(m2(Top), phase)
  BY <1>2, <1>4
<1> QED BY <1>1, <1>5, QuietStep

LEMMA HandleErrorStep ==
  ASSUME CallInv, HandleError
  PROVE  CallInv'
<1> DEFINE m2(x, f) == LET m1 == Pop(Now)
                       IN  IF x[f.L].errfunc # 0 /\ ~f.handled
                           THEN luaD_call(Push(m1, RaiseOf(f.L, TRUE)), f.L, "lua")
                           ELSE Throw(m1, f.L, ERRRUN)
<1>1. Runs("raise") /\ Becomes(m2(T, Top)) /\ Quiet
  BY DEF HandleError, Running
<1>2. /\ Now.cs # <<>> /\ Now.cs[Len(Now.cs)].k = "raise" /\ Safe(Now, phase)
      /\ Top = Now.cs[Len(Now.cs)] /\ Now.T = T
  BY <1>1, RunsIs, NowSafe, NowIs
<1>3. Safe(m2(Now.T, Now.cs[Len(Now.cs)]), phase)
  BY <1>2, HandleErrorSafe
<1> HIDE DEF m2
<1>4. Safe(m2(T, Top), phase)
  BY <1>2, <1>3
<1> QED BY <1>1, <1>4, QuietStep

\* The finalizers that are to be called are those of Udatas, in some order.
LEMMA CloseQueue ==
  ASSUME CallInv, Close
  PROVE  tmudata' \in Seq(Udatas)
<1> DEFINE S == Udatas \ finalized
           c == Cardinality(S)
<1>1. PICK order \in [1..c -> S] : tmudata' = order
  BY DEF Close
<1>2. c \in Nat
  BY LimitsAssumption, FS_Subset, FS_CardinalityType
<1>3. S \subseteq Udatas
  OBVIOUS
<1> HIDE DEF S, c
<1>4. order \in Seq(Udatas)
  BY <1>1, <1>2, <1>3
<1> QED BY <1>1, <1>4

LEMMA CloseStep ==
  ASSUME CallInv, Close
  PROVE  CallInv'
<1> DEFINE X == [T EXCEPT ![MainThread] = [Reset(@) EXCEPT !.errfunc = 0, !.errorJmp = 1]]
           m2 == [cs |-> <<CloseLoop>>, T |-> X]
<1>1. Host /\ phase' = "close" /\ Becomes(m2) /\ finalized' = finalized
  BY DEF Close
<1>2. Safe(Now, "run") /\ Len(Now.cs) = 1 /\ Now.T = T
  BY <1>1, NowSafe, NowIs DEF Host
<1>3. Safe(m2, "close")
  <2>1. X = [Now.T EXCEPT ![MainThread] = [Reset(@) EXCEPT !.errfunc = 0, !.errorJmp = 1]]
    BY <1>2
  <2> HIDE DEF X
  <2> QED BY <1>2, <2>1, CloseSafe
<1> HIDE DEF m2
<1> QED BY <1>1, <1>3, CloseQueue, NowSafe, StepsTo

LEMMA ClosedStep ==
  ASSUME CallInv, Closed
  PROVE  CallInv'
<1> DEFINE X == [T EXCEPT ![MainThread].errorJmp = 0]
           m2 == [cs |-> <<>>, T |-> X]
<1>1. /\ Runs("close") /\ phase' = "closed" /\ Becomes(m2) /\ finalized' = finalized
      /\ tmudata' = tmudata
  BY DEF Closed, Becomes
<1>2. Now.cs # <<>> /\ Now.cs[Len(Now.cs)].k = "close" /\ Safe(Now, phase) /\ Now.T = T
  BY <1>1, RunsIs, NowSafe, NowIs
<1>3. Safe(m2, "closed")
  <2>1. X = [Now.T EXCEPT ![MainThread].errorJmp = 0]
    BY <1>2
  <2> HIDE DEF X
  <2> QED BY <1>2, <2>1, ClosedSafe
<1> HIDE DEF m2
<1> QED BY <1>1, <1>3, NowSafe, StepsTo

\* A step that changes no variable keeps the invariant.
LEMMA StutterStep ==
  ASSUME CallInv, UNCHANGED vars
  PROVE  CallInv'
<1>1. Becomes(Now) /\ Quiet
  BY NowIs DEF vars, Becomes, Quiet
<1> QED BY <1>1, NowSafe, QuietStep

-----------------------------------------------------------------------------
(* The initial state and the next step.                                    *)

LEMMA CallInit ==
  ASSUME Init
  PROVE  CallInv
<1> DEFINE L == MainThread
           f == CFun(L)
           t == Fresh(L)
<1>1. /\ cstack = <<f>> /\ T = [X \in Threads |-> Fresh(X)] /\ tmudata = <<>> /\ finalized = {}
      /\ phase = "run" /\ L \in Threads
  BY DEF Init, Threads
<1>2. f \in Frame /\ f.k = "cfun" /\ f.L = L
  BY <1>1 DEF Frame, CFun
<1>3. ASSUME NEW X \in Threads
      PROVE  /\ Fresh(X) \in lua_State /\ SizeOK(Fresh(X))
             /\ Fresh(X).status = OK /\ Fresh(X).nCcalls = 0 /\ Fresh(X).baseCcalls = 0
             /\ Len(Fresh(X).ci) = 1 /\ Fresh(X).allowhook /\ Fresh(X).errfunc = 0
             /\ Fresh(X).errorJmp = 0 /\ ~Fresh(X).ended
             /\ (X # MainThread => Fresh(X).top = "function")
  <2>1. <<"C">> \in Seq({"lua", "C"}) /\ Len(<<"C">>) = 1
    OBVIOUS
  <2>2. BASIC_CI_SIZE \in Nat /\ 1 <= BASIC_CI_SIZE /\ BASIC_CI_SIZE <= 2 * MAXCALLS
    BY LimitsAssumption
  <2>3. Fresh(X) \in lua_State
    BY <2>1, <2>2 DEF Fresh, lua_State
  <2>4. SizeOK(Fresh(X))
    BY <2>1, <2>2 DEF Fresh, SizeOK
  <2> QED BY <2>1, <2>3, <2>4 DEF Fresh
<1> HIDE DEF f, t, L
<1>4. /\ Now.cs = cstack /\ Now.T = T /\ Now \in Machine /\ TypeOK
      /\ cstack[1] = f /\ Len(cstack) = 1 /\ T[L] = Fresh(L)
  <2>1. T \in [Threads -> lua_State]
    BY <1>1, <1>3
  <2>2. cstack \in Seq(Frame) /\ cstack[1] = f /\ Len(cstack) = 1
    BY <1>1, <1>2
  <2>3. tmudata \in Seq(Udatas)
    BY <1>1
  <2>4. Now \in Machine /\ Now.cs = cstack /\ Now.T = T
    BY <2>1, <2>2 DEF Now, Machine
  <2>5. TypeOK
    BY <1>1, <2>1, <2>2, <2>3 DEF TypeOK
  <2> QED BY <1>1, <2>2, <2>4, <2>5
<1>5. Depth(cstack, 1) = 0 /\ Depth(cstack, 0) = 0
  <2>1. \A i \in {0, 1} : {j \in 1..i : cstack[j].k \in Counted} = {}
    BY <1>2, <1>4 DEF Counted
  <2> QED BY <2>1, FS_EmptySet DEF Depth
<1>6. FrameOK(cstack, Fresh(L), << 1 >>, "run", 1)
  <2>1. << 1 >>[1] = 1 /\ ~(1 > 1)
    OBVIOUS
  <2>2. LevelOK(cstack, Fresh(L), << 1 >>, 1)
    BY <2>1, <1>2, <1>4 DEF LevelOK
  <2>3. SavedOK(cstack, << 1 >>, "run", 1)
    BY <1>2, <1>4 DEF SavedOK
  <2> QED BY <2>1, <2>2, <2>3, <1>1, <1>2, <1>3, <1>4, <1>5 DEF FrameOK, L
<1>7. LastOK(cstack, Fresh(L), << 1 >>, "run", 1)
  <2>1. LandingAt(cstack, 1, 0)
    BY <1>2, <1>4 DEF LandingAt, Landing
  <2>2. HandlerAt(cstack, 1, 0)
    BY DEF HandlerAt
  <2>3. HookAt(cstack, 1, TRUE, "run")
    <3>1. ~Guarded(cstack, 1)
      BY <1>2, <1>4 DEF Guarded
    <3> QED BY <3>1 DEF HookAt
  <2>4. Fresh(L).allowhook = TRUE
    BY <1>1, <1>3 DEF Fresh
  <2> QED BY <2>1, <2>2, <2>3, <2>4, <1>1, <1>3, <1>5 DEF LastOK
<1>8. \A X \in Threads : SizeOK(T[X])
  BY <1>1, <1>3
<1>9. \A X \in Threads : X # L => IdleOK(X, T[X], "run")
  <2> SUFFICES ASSUME NEW X \in Threads PROVE IdleOK(X, Fresh(X), "run")
    BY <1>1
  <2> QED BY <1>3 DEF IdleOK, OK, YIELD
<1>10. Sound(Now, "run")
  <2>1. Now.T[Now.cs[1].L] = Fresh(L) /\ Now.cs[1].L = L
    BY <1>2, <1>4
  <2> QED BY <2>1, <1>4, <1>6, <1>7, <1>8, <1>9, OneFrame
<1>11. Bounded(cstack)
  <2>1. \A i \in 1..Len(cstack) : i = 1
    BY <1>4
  <2> QED BY <2>1, <1>5, LimitType DEF Bounded, Limit
<1> QED BY <1>1, <1>4, <1>10, <1>11 DEF CallInv, Sound

LEMMA CallNext ==
  ASSUME CallInv, [Next]_vars
  PROVE  CallInv'
<1>1. CASE \E fun \in {"lua", "C"} : OpCall(fun) \/ Call(fun)
  BY <1>1, OpCallStep, CallStep
<1>2. CASE \E fun \in {"lua", "C"}, handler \in BOOLEAN : ProtectedCall(fun, handler)
  BY <1>2, ProtectedCallStep
<1>3. CASE Error
  BY <1>3, ErrorStep
<1>4. CASE Hook
  BY <1>4, HookStep
<1>5. CASE \E u \in Udatas : Queue(u)
  BY <1>5, QueueStep
<1>6. CASE GCTM
  BY <1>6, GCTMStep
<1>7. CASE \E L \in Threads : checkstacksizes(L)
  BY <1>7, checkstacksizesStep
<1>8. CASE \E co \in Threads, wrap \in BOOLEAN : Resume(co, wrap)
  BY <1>8, ResumeStep
<1>9. CASE Yield
  BY <1>9, YieldStep
<1>10. CASE Return
  BY <1>10, ReturnStep
<1>11. CASE CallReturns
  BY <1>11, CallReturnsStep
<1>12. CASE PCallReturns
  BY <1>12, PCallReturnsStep
<1>13. CASE \E many \in BOOLEAN : ResumeReturns(many)
  BY <1>13, ResumeReturnsStep
<1>14. CASE HookReturns
  BY <1>14, HookReturnsStep
<1>15. CASE GCTMReturns
  BY <1>15, GCTMReturnsStep
<1>16. CASE HandleError
  BY <1>16, HandleErrorStep
<1>17. CASE Close
  BY <1>17, CloseStep
<1>18. CASE Closed
  BY <1>18, ClosedStep
<1>19. CASE Ended \/ UNCHANGED vars
  BY <1>19, StutterStep DEF Ended
<1> QED BY <1>1, <1>2, <1>3, <1>4, <1>5, <1>6, <1>7, <1>8, <1>9, <1>10, <1>11, <1>12, <1>13,
           <1>14, <1>15, <1>16, <1>17, <1>18, <1>19 DEF Next

-----------------------------------------------------------------------------
(* The queue of finalizers.                                                *)

\* Only lua_close runs the frame of callallgcTM.
LEMMA CloseFirst ==
  ASSUME CallInv, Runs("close")
  PROVE  phase = "close"
<1>1. PICK h \in Seq(Level) : Good(Now, h, phase)
  BY DEF CallInv
<1> DEFINE n == Len(Now.cs)
<1>2. Now.cs # <<>> /\ Now.cs[n].k = "close" /\ Now \in Machine /\ phase \in {"run", "close"}
  BY RunsIs, NowSafe
<1>3. /\ n \in Nat \ {0} /\ FrameOK(Now.cs, Now.T[Now.cs[n].L], h, phase, n)
      /\ Now.cs \in Seq(Frame)
  BY <1>1, <1>2, TopOK
<1>4. n = 1
  <2> SUFFICES ASSUME n # 1 PROVE FALSE
    OBVIOUS
  <2>1. n > 1 /\ n - 1 \in 1..n
    <3>1. n \in Nat \ {0}
      BY <1>3
    <3> HIDE DEF n
    <3> QED BY <3>1
  <2>2. Now.cs[n].k \in Above(Now.cs[n - 1]) /\ Now.cs[n - 1] \in Frame
    BY <2>1, <1>3 DEF FrameOK
  <2> QED BY <2>2, <1>2, AboveType
<1>5. phase # "run"
  BY <1>2, <1>3, <1>4 DEF FrameOK
<1> QED BY <1>2, <1>5

\* lua_close queues every userdata whose finalizer has not been called.
LEMMA CloseAll ==
  ASSUME CallInv, Close
  PROVE  /\ \A i, j \in DOMAIN tmudata' : tmudata'[i] = tmudata'[j] => i = j
         /\ \A u \in Udatas \ finalized : \E i \in DOMAIN tmudata' : tmudata'[i] = u
         /\ \A i \in DOMAIN tmudata' : tmudata'[i] \notin finalized
<1> DEFINE S == Udatas \ finalized
           c == Cardinality(S)
<1>1. PICK order \in [1..c -> S] :
        /\ \A i, j \in DOMAIN order : order[i] = order[j] => i = j
        /\ tmudata' = order
  BY DEF Close
<1>2. IsFiniteSet(S) /\ c \in Nat /\ c = Cardinality(S)
  BY LimitsAssumption, FS_Subset, FS_CardinalityType
<1>3. S = Udatas \ finalized
  OBVIOUS
<1> HIDE DEF S, c
<1>4. DOMAIN order = 1..c
  BY <1>1
<1>5. order \in Injection(1..c, S)
  BY <1>1, <1>4 DEF Injection, IsInjective
<1>6. Cardinality(1..c) = c
  BY <1>2, FS_Interval
<1>7. order \in Surjection(1..c, S)
  BY <1>2, <1>5, <1>6, FS_Injection
<1>8. \A u \in S : \E i \in 1..c : order[i] = u
  BY <1>7 DEF Surjection
<1> QED BY <1>1, <1>3, <1>4, <1>8

LEMMA QueueInit ==
  ASSUME Init
  PROVE  QueueInv
BY DEF Init, QueueInv

LEMMA QueueQuiet ==
  ASSUME QueueInv, Quiet
  PROVE  QueueInv'
BY DEF QueueInv, Quiet

LEMMA QueueNext ==
  ASSUME CallInv, QueueInv, [Next]_vars
  PROVE  QueueInv'
<1>1. CASE \E u \in Udatas : Queue(u)
  <2>1. PICK u \in Udatas : Queue(u)
    BY <1>1
  <2>2. /\ tmudata' = Append(tmudata, u) /\ finalized' = finalized /\ phase' = phase
        /\ phase = "run" /\ u \notin finalized /\ \A i \in DOMAIN tmudata : tmudata[i] # u
    BY <2>1 DEF Queue
  <2>3. tmudata \in Seq(Udatas)
    BY NowSafe
  <2>4. /\ DOMAIN tmudata' = 1..Len(tmudata) + 1 /\ DOMAIN tmudata = 1..Len(tmudata)
        /\ tmudata'[Len(tmudata) + 1] = u /\ Len(tmudata) \in Nat
        /\ \A i \in 1..Len(tmudata) : tmudata'[i] = tmudata[i]
    BY <2>2, <2>3
  <2>5. \A i \in DOMAIN tmudata' : i \in DOMAIN tmudata \/ i = Len(tmudata) + 1
    BY <2>4
  <2> QED BY <2>2, <2>4, <2>5 DEF QueueInv
<1>2. CASE GCTM
  <2>1. /\ tmudata # <<>> /\ tmudata' = Tail(tmudata) /\ phase' = phase
        /\ finalized' = finalized \cup {Head(tmudata)}
    BY <1>2 DEF GCTM, OutOfQueue
  <2>2. tmudata \in Seq(Udatas)
    BY NowSafe
  <2>3. /\ Len(tmudata) \in Nat \ {0} /\ DOMAIN tmudata = 1..Len(tmudata)
        /\ DOMAIN tmudata' = 1..Len(tmudata) - 1 /\ Head(tmudata) = tmudata[1]
        /\ \A i \in 1..Len(tmudata) - 1 : tmudata'[i] = tmudata[i + 1]
    BY <2>1, <2>2
  <2>4. \A i \in DOMAIN tmudata' : i + 1 \in DOMAIN tmudata /\ i + 1 # 1 /\ i \in Nat
    BY <2>3
  <2>5. \A i \in DOMAIN tmudata : i # 1 => i - 1 \in DOMAIN tmudata' /\ (i - 1) + 1 = i
    BY <2>3
  <2>6. 1 \in DOMAIN tmudata
    BY <2>3
  <2>7. \A i, j \in DOMAIN tmudata' : tmudata'[i] = tmudata'[j] => i = j
    <3> SUFFICES ASSUME NEW i \in DOMAIN tmudata', NEW j \in DOMAIN tmudata',
                        tmudata'[i] = tmudata'[j]
                 PROVE  i = j
      OBVIOUS
    <3>1. tmudata[i + 1] = tmudata[j + 1]
      BY <2>3
    <3>2. i + 1 = j + 1
      BY <3>1, <2>4 DEF QueueInv
    <3> QED BY <3>2, <2>4
  <2>8. \A i \in DOMAIN tmudata' : tmudata'[i] \notin finalized'
    <3> SUFFICES ASSUME NEW i \in DOMAIN tmudata' PROVE tmudata'[i] \notin finalized'
      OBVIOUS
    <3>1. tmudata'[i] = tmudata[i + 1]
      BY <2>3
    <3>2. tmudata[i + 1] \notin finalized /\ tmudata[i + 1] # tmudata[1]
      BY <2>4, <2>6 DEF QueueInv
    <3> QED BY <3>1, <3>2, <2>1, <2>3
  <2>9. phase' # "run" =>
          \A u \in Udatas \ finalized' : \E i \in DOMAIN tmudata' : tmudata'[i] = u
    <3> SUFFICES ASSUME phase' # "run", NEW u \in Udatas \ finalized'
                 PROVE  \E i \in DOMAIN tmudata' : tmudata'[i] = u
      OBVIOUS
    <3>1. PICK i \in DOMAIN tmudata : tmudata[i] = u
      BY <2>1 DEF QueueInv
    <3>2. i # 1
      BY <3>1, <2>1, <2>3
    <3>3. i - 1 \in DOMAIN tmudata' /\ tmudata'[i - 1] = tmudata[i]
      BY <3>2, <2>3, <2>5
    <3> QED BY <3>1, <3>3
  <2>10. phase' # "closed"
    BY <1>2, <2>1 DEF GCTM, InScript, Program, Runs
  <2> QED BY <2>7, <2>8, <2>9, <2>10 DEF QueueInv
<1>3. CASE Close
  <2>1. phase' = "close" /\ finalized' = finalized
    BY <1>3 DEF Close
  <2> QED BY <1>3, <2>1, CloseAll DEF QueueInv
<1>4. CASE Closed
  <2>1. /\ Runs("close") /\ tmudata = <<>> /\ phase' = "closed" /\ tmudata' = tmudata
        /\ finalized' = finalized
    BY <1>4 DEF Closed
  <2>2. phase = "close"
    BY <2>1, CloseFirst
  <2> QED BY <2>1, <2>2 DEF QueueInv
<1>5. CASE \E L \in Threads : checkstacksizes(L)
  BY <1>5, QueueQuiet DEF checkstacksizes, Quiet
<1>6. CASE UNCHANGED vars
  BY <1>6, QueueQuiet DEF vars, Quiet
<1>7. CASE \/ \E fun \in {"lua", "C"} : OpCall(fun) \/ Call(fun)
           \/ \E fun \in {"lua", "C"}, handler \in BOOLEAN : ProtectedCall(fun, handler)
           \/ Error \/ Hook \/ Yield \/ Return \/ CallReturns \/ PCallReturns
           \/ \E co \in Threads, wrap \in BOOLEAN : Resume(co, wrap)
           \/ \E many \in BOOLEAN : ResumeReturns(many)
           \/ HookReturns \/ GCTMReturns \/ HandleError
  <2> SUFFICES Quiet
    BY QueueQuiet
  <2>1. CASE \E fun \in {"lua", "C"} : OpCall(fun)
    BY <2>1 DEF OpCall
  <2>2. CASE \E fun \in {"lua", "C"} : Call(fun)
    BY <2>2 DEF Call
  <2>3. CASE \E fun \in {"lua", "C"}, handler \in BOOLEAN : ProtectedCall(fun, handler)
    BY <2>3 DEF ProtectedCall
  <2>4. CASE Error
    BY <2>4 DEF Error
  <2>5. CASE Hook
    BY <2>5 DEF Hook
  <2>6. CASE Yield
    BY <2>6 DEF Yield
  <2>7. CASE Return
    BY <2>7 DEF Return
  <2>8. CASE CallReturns
    BY <2>8 DEF CallReturns
  <2>9. CASE PCallReturns
    BY <2>9 DEF PCallReturns
  <2>10. CASE \E co \in Threads, wrap \in BOOLEAN : Resume(co, wrap)
    BY <2>10 DEF Resume
  <2>11. CASE \E many \in BOOLEAN : ResumeReturns(many)
    BY <2>11 DEF ResumeReturns
  <2>12. CASE HookReturns
    BY <2>12 DEF HookReturns
  <2>13. CASE GCTMReturns
    BY <2>13 DEF GCTMReturns
  <2>14. CASE HandleError
    BY <2>14 DEF HandleError
  <2> QED BY <1>7, <2>1, <2>2, <2>3, <2>4, <2>5, <2>6, <2>7, <2>8, <2>9, <2>10, <2>11, <2>12,
             <2>13, <2>14
<1> QED BY <1>1, <1>2, <1>3, <1>4, <1>5, <1>6, <1>7 DEF Next, Ended

-----------------------------------------------------------------------------
(* What the invariant says of a thread.                                    *)

\* The last of a set is its greatest.
LEMMA LastIs ==
  ASSUME NEW S, S \subseteq Nat, NEW x \in S, \A y \in S : y <= x
  PROVE  Last(S) = x
<1>1. Last(S) \in S /\ \A y \in S : y <= Last(S)
  BY DEF Last
<1>2. Last(S) \in Nat /\ x \in Nat /\ Last(S) <= x /\ x <= Last(S)
  BY <1>1
<1> QED BY <1>2

\* A thread that has frames is as its last frame calls for.
AtLast(L, h, j) ==
  /\ j = Last(FramesOf(L)) /\ IsLast(cstack, L, j) /\ j \in Nat \ {0} /\ j <= Len(cstack)
  /\ Good(Now, h, phase) /\ Threaded(cstack)
  /\ LastOK(cstack, T[L], h, phase, j) /\ FrameOK(cstack, T[L], h, phase, j)
  /\ \A i \in 1..Len(cstack) : cstack[i].L = L => i <= j

LEMMA ThreadLast ==
  ASSUME CallInv, NEW L \in Threads, FramesOf(L) # {}
  PROVE  \E h \in Seq(Level), j \in Nat : AtLast(L, h, j)
<1>1. PICK h \in Seq(Level) : Good(Now, h, phase)
  BY DEF CallInv
<1>2. cstack \in Seq(Frame) /\ Now.cs = cstack /\ Now.T = T
  BY NowSafe, NowIs
<1>3. Threaded(cstack)
  BY <1>1, <1>2 DEF Good
<1>4. PICK i \in 1..Len(cstack) : cstack[i].L = L
  BY <1>2 DEF FramesOf
<1>5. PICK j \in i..Len(cstack) : IsLast(cstack, L, j)
  <2>1. Len(cstack) \in Nat
    BY <1>2
  <2> QED BY <2>1, <1>3, <1>4, LastFrame
<1>6. /\ j \in 1..Len(cstack) /\ j \in Nat \ {0} /\ j <= Len(cstack) /\ cstack[j].L = L
      /\ j = Len(cstack) \/ cstack[j + 1].k = "resume"
  BY <1>2, <1>5 DEF IsLast
<1>7. \A q \in 1..Len(cstack) : cstack[q].L = L => q <= j
  <2> SUFFICES ASSUME NEW q \in 1..Len(cstack), cstack[q].L = L, ~(q <= j) PROVE FALSE
    OBVIOUS
  <2>1. q \in j + 1..Len(cstack)
    BY <1>2, <1>6
  <2> QED BY <2>1, <1>5 DEF IsLast
<1>8. FramesOf(L) \subseteq Nat /\ j \in FramesOf(L) /\ \A q \in FramesOf(L) : q <= j
  BY <1>2, <1>6, <1>7 DEF FramesOf
<1>9. j = Last(FramesOf(L))
  BY <1>8, LastIs
<1>10. FrameOK(cstack, T[L], h, phase, j) /\ LastOK(cstack, T[L], h, phase, j)
  BY <1>1, <1>2, <1>6 DEF Good
<1> QED BY <1>1, <1>3, <1>5, <1>6, <1>7, <1>9, <1>10 DEF AtLast

\* A thread that has none is idle; the main thread has the first frame.
LEMMA ThreadIdle ==
  ASSUME CallInv, NEW L \in Threads, FramesOf(L) = {}
  PROVE  IdleOK(L, T[L], phase) /\ (L = MainThread => cstack = <<>>)
<1>1. PICK h \in Seq(Level) : Good(Now, h, phase)
  BY DEF CallInv
<1>2. cstack \in Seq(Frame) /\ Now.cs = cstack /\ Now.T = T
  BY NowSafe, NowIs
<1>3. \A i \in 1..Len(cstack) : cstack[i].L # L
  BY <1>2 DEF FramesOf
<1>4. IdleOK(L, T[L], phase)
  BY <1>1, <1>2, <1>3 DEF Good
<1>5. ASSUME cstack # <<>> PROVE L # MainThread
  <2>1. 1 \in 1..Len(cstack)
    BY <1>2, <1>5
  <2>2. FrameOK(cstack, T[cstack[1].L], h, phase, 1)
    BY <1>1, <1>2, <2>1 DEF Good
  <2> QED BY <2>1, <2>2, <1>3 DEF FrameOK
<1> QED BY <1>4, <1>5

\* No lua_resume is between two frames of a thread, and one is between those of
\* two threads.
LEMMA Between ==
  ASSUME CallInv, Threaded(cstack), NEW i \in 1..Len(cstack), NEW j \in 1..Len(cstack), i <= j
  PROVE  cstack[i].L = cstack[j].L <=> \A l \in i + 1..j : cstack[l].k # "resume"
BY DEF Threaded

LEMMA DepthIsCounted ==
  ASSUME CallInv
  PROVE  DepthCounted
<1> SUFFICES ASSUME NEW L \in Threads, FramesOf(L) # {}
             PROVE  T[L].nCcalls =
                      Cardinality({i \in 1..Last(FramesOf(L)) : cstack[i].k \in Counted})
  BY DEF DepthCounted
<1>1. PICK h \in Seq(Level), j \in Nat : AtLast(L, h, j)
  BY ThreadLast
<1>2. T[L].nCcalls = Depth(cstack, j) /\ j = Last(FramesOf(L))
  BY <1>1 DEF AtLast, LastOK
<1> QED BY <1>2 DEF Depth

LEMMA CStackIsBounded ==
  ASSUME CallInv
  PROVE  CStackBounded
<1> DEFINE n == Len(cstack)
           D == {i \in DOMAIN cstack : cstack[i].k \in Counted}
<1>1. n \in Nat /\ DOMAIN cstack = 1..n
  BY NowSafe
<1>2. CASE n = 0
  <2>1. D = {}
    BY <1>1, <1>2
  <2>2. Cardinality(D) = 0
    BY <2>1, FS_EmptySet
  <2> QED BY <2>2, LimitType DEF CStackBounded, Limit
<1>3. CASE n # 0
  <2>1. n \in 1..n
    BY <1>1, <1>3
  <2>2. Depth(cstack, n) <= MAXCCALLS + ErrorCCalls
    BY <2>1 DEF CallInv, Bounded
  <2>3. Cardinality(D) = Depth(cstack, n)
    BY <1>1 DEF Depth
  <2> QED BY <2>2, <2>3 DEF CStackBounded
<1> QED BY <1>2, <1>3

LEMMA ErrorJmpIsLive ==
  ASSUME CallInv
  PROVE  ErrorJmpLive
<1> SUFFICES ASSUME NEW L \in Threads
             PROVE  LET landing == {i \in FramesOf(L) : cstack[i].k \in Landing}
                    IN  /\ T[L].errorJmp = IF landing = {} THEN 0 ELSE Last(landing)
                        /\ L # MainThread /\ FramesOf(L) # {} => landing # {}
  BY DEF ErrorJmpLive
<1> DEFINE landing == {i \in FramesOf(L) : cstack[i].k \in Landing}
           e == T[L].errorJmp
<1>1. CASE FramesOf(L) = {}
  <2>1. e = 0
    BY <1>1, ThreadIdle DEF IdleOK
  <2> QED BY <1>1, <2>1
<1>2. CASE FramesOf(L) # {}
  <2>1. PICK h \in Seq(Level), j \in Nat : AtLast(L, h, j)
    BY <1>2, ThreadLast
  <2>2. /\ LandingAt(cstack, j, e) /\ Threaded(cstack) /\ j \in Nat \ {0} /\ j \in 1..Len(cstack)
        /\ cstack[j].L = L /\ j <= Len(cstack) /\ cstack \in Seq(Frame)
        /\ \A i \in FramesOf(L) : i \in 1..j
    BY <2>1, NowSafe DEF AtLast, LastOK, IsLast, FramesOf
  <2>3. e \in 0..j /\ (e # 0 => cstack[e].k \in Landing)
        /\ \A l \in e + 1..j : cstack[l].k \notin Landing
    BY <2>2 DEF LandingAt
  <2>4. \A i \in landing : i \in 1..j /\ i <= e
    <3> SUFFICES ASSUME NEW i \in landing, ~(i <= e) PROVE FALSE
      BY <2>2
    <3>1. i \in e + 1..j
      BY <2>2, <2>3
    <3> QED BY <3>1, <2>3
  <2>5. CASE e = 0
    <3>1. landing = {}
      BY <2>4, <2>5
    <3>2. ASSUME L # MainThread PROVE FALSE
      <4>1. 1 \in 1..Len(cstack) /\ 1 <= j
        BY <2>2
      <4>2. FrameOK(cstack, T[cstack[1].L], h, phase, 1)
        BY <2>1, <4>1, NowIs DEF AtLast, Good
      <4>3. cstack[1].L # cstack[j].L
        BY <2>2, <3>2, <4>2 DEF FrameOK
      <4>4. \E l \in 1 + 1..j : cstack[l].k = "resume"
        BY <2>2, <4>1, <4>3, Between
      <4> QED BY <4>4, <2>3, <2>5 DEF Landing
    <3> QED BY <2>5, <3>1, <3>2
  <2>6. CASE e # 0
    <3>1. e \in 1..Len(cstack) /\ e <= j /\ e \in Nat
      BY <2>2, <2>3, <2>6
    <3>2. \A l \in e + 1..j : cstack[l].k # "resume"
      BY <2>3 DEF Landing
    <3>3. cstack[e].L = L
      BY <2>2, <3>1, <3>2, Between
    <3>4. e \in landing
      BY <2>2, <2>3, <2>6, <3>1, <3>3 DEF FramesOf
    <3>5. landing \subseteq Nat /\ \A i \in landing : i <= e
      BY <2>4
    <3> HIDE DEF landing, e
    <3>6. Last(landing) = e
      BY <3>4, <3>5, LastIs
    <3> QED BY <3>4, <3>6 DEF landing, e
  <2> QED BY <2>5, <2>6
<1> QED BY <1>1, <1>2

LEMMA ErrfuncIsLive ==
  ASSUME CallInv
  PROVE  ErrfuncLive
<1> SUFFICES ASSUME NEW L \in Threads, T[L].errfunc # 0
             PROVE  LET calls == {i \in FramesOf(L) : cstack[i].k = "pcall"}
                    IN  calls # {} /\ T[L].errfunc = cstack[Last(calls)].ci
  BY DEF ErrfuncLive
<1> DEFINE calls == {i \in FramesOf(L) : cstack[i].k = "pcall"}
<1>1. FramesOf(L) # {}
  BY ThreadIdle DEF IdleOK
<1>2. PICK h \in Seq(Level), j \in Nat : AtLast(L, h, j)
  BY <1>1, ThreadLast
<1>3. /\ HandlerAt(cstack, j, T[L].errfunc) /\ Threaded(cstack) /\ j \in 1..Len(cstack)
      /\ cstack[j].L = L /\ cstack \in Seq(Frame)
      /\ \A i \in FramesOf(L) : i \in 1..j
  BY <1>2, NowSafe DEF AtLast, LastOK, IsLast, FramesOf
<1>4. PICK q \in 1..j : /\ cstack[q].k = "pcall" /\ cstack[q].ci = T[L].errfunc
                        /\ \A l \in q + 1..j : cstack[l].k \notin {"pcall", "resume"}
  BY <1>3 DEF HandlerAt
<1>5. q \in 1..Len(cstack) /\ q <= j /\ q \in Nat
  BY <1>3
<1>6. cstack[q].L = L
  BY <1>3, <1>4, <1>5, Between
<1>7. q \in calls
  BY <1>3, <1>4, <1>5, <1>6 DEF FramesOf
<1>8. \A i \in calls : i \in Nat /\ i <= q
  <2> SUFFICES ASSUME NEW i \in calls, ~(i <= q) PROVE FALSE
    BY <1>3
  <2>1. i \in q + 1..j
    BY <1>3, <1>5
  <2> QED BY <2>1, <1>4
<1> HIDE DEF calls
<1>9. Last(calls) = q
  BY <1>7, <1>8, LastIs
<1> QED BY <1>4, <1>7, <1>9 DEF calls

LEMMA HooksAreGuarded ==
  ASSUME CallInv
  PROVE  HooksGuarded
<1> SUFFICES ASSUME NEW L \in Threads
             PROVE  LET guarded == \E i \in FramesOf(L) : cstack[i].k \in {"hook", "gctm"}
                    IN  /\ guarded => ~T[L].allowhook
                        /\ ~T[L].allowhook /\ ~guarded =>
                             T[L].ended \/ phase # "run" \/ cstack = <<>>
  BY DEF HooksGuarded
<1> DEFINE guarded == \E i \in FramesOf(L) : cstack[i].k \in {"hook", "gctm"}
           t == T[L]
<1>1. t.allowhook \in BOOLEAN /\ t.ended \in BOOLEAN
  BY NowSafe, StateType
<1>2. CASE FramesOf(L) = {}
  <2>1. IdleOK(L, t, phase) /\ (L = MainThread => cstack = <<>>)
    BY <1>2, ThreadIdle
  <2>2. ~guarded
    BY <1>2
  <2> QED BY <1>1, <2>1, <2>2 DEF IdleOK
<1>3. CASE FramesOf(L) # {}
  <2>1. PICK h \in Seq(Level), j \in Nat : AtLast(L, h, j)
    BY <1>3, ThreadLast
  <2>2. /\ HookAt(cstack, j, t.allowhook, phase) \/ t.ended
        /\ j \in 1..Len(cstack) /\ cstack[j].L = L /\ cstack \in Seq(Frame)
        /\ \A i \in FramesOf(L) : i \in 1..j /\ i \in 1..Len(cstack) /\ cstack[i].L = L
    BY <2>1, NowSafe DEF AtLast, LastOK, IsLast, FramesOf
  <2>3. guarded <=> Guarded(cstack, j)
    <3>1. \A i \in 1..j : cstack[i].L = L => i \in FramesOf(L)
      BY <2>2 DEF FramesOf
    <3> QED BY <3>1, <2>2 DEF Guarded
  <2>4. CASE t.ended
    <3>1. \A i \in FramesOf(L) : FrameOK(cstack, t, h, phase, i)
      BY <2>1, <2>2, NowIs DEF AtLast, Good
    <3>2. \A i \in FramesOf(L) : cstack[i].k \in {"resume", "raise"}
      BY <2>4, <3>1 DEF FrameOK
    <3> QED BY <2>4, <3>2
  <2>5. CASE HookAt(cstack, j, t.allowhook, phase)
    BY <1>1, <2>3, <2>5 DEF HookAt
  <2> QED BY <2>2, <2>4, <2>5
<1> QED BY <1>2, <1>3

LEMMA CallInfoIsInBounds ==
  ASSUME CallInv
  PROVE  CallInfoInBounds
<1> SUFFICES ASSUME NEW L \in Threads
             PROVE  Len(T[L].ci) <= T[L].size_ci /\ T[L].size_ci <= 2 * MAXCALLS
  BY DEF CallInfoInBounds
<1>1. SizeOK(T[L])
  BY NowIs DEF CallInv, Good
<1>2. T[L].size_ci \in Nat
  BY NowSafe, StateType
<1> QED BY <1>1, <1>2 DEF SizeOK

LEMMA SuspendedIsClean ==
  ASSUME CallInv
  PROVE  SuspendedClean
<1> SUFFICES ASSUME NEW L \in Threads, T[L].status = YIELD
             PROVE  /\ \A i \in FramesOf(L) : i = Len(cstack) /\ Top.k = "resume"
                    /\ Parked(T[L].ci)
  BY DEF SuspendedClean, Parked
<1>1. CASE FramesOf(L) = {}
  BY <1>1, ThreadIdle DEF IdleOK
<1>2. CASE FramesOf(L) # {}
  <2>1. PICK h \in Seq(Level), j \in Nat : AtLast(L, h, j)
    BY <1>2, ThreadLast
  <2>2. j = Len(cstack) /\ cstack[j].k = "resume" /\ Parked(T[L].ci)
    BY <2>1 DEF AtLast, LastOK, OK, YIELD
  <2>3. /\ j \in 1..Len(cstack) /\ cstack[j].L = L /\ cstack \in Seq(Frame) /\ j \in Nat
        /\ \A i \in FramesOf(L) : i \in 1..j /\ cstack[i].L = L /\ i \in 1..Len(cstack)
        /\ Threaded(cstack)
    BY <2>1, NowSafe DEF AtLast, IsLast, FramesOf
  <2>4. ASSUME NEW i \in FramesOf(L), i # j PROVE FALSE
    <3>1. i <= j /\ j \in i + 1..j
      BY <2>3, <2>4
    <3> QED BY <3>1, <2>2, <2>3, Between
  <2> QED BY <2>2, <2>4 DEF Top
<1> QED BY <1>1, <1>2

LEMMA StatusIsTrue ==
  ASSUME CallInv, "manyresults" \notin Uses
  PROVE  StatusTrue
<1> SUFFICES ASSUME InScript, NEW co \in Threads
             PROVE  costatus(Running, co) = Doing(co)
  BY DEF StatusTrue
<1> DEFINE L == Running
           n == Len(cstack)
           t == T[co]
<1>1. /\ Now.cs # <<>> /\ Now.cs[Len(Now.cs)].k \in {"exec", "cfun"} /\ Now \in Machine
      /\ L = Now.cs[Len(Now.cs)].L /\ Now.cs = cstack /\ Now.T = T
  BY RunsIs, NowSafe, NowIs DEF InScript, Program
<1>2. n \in 1..n /\ cstack \in Seq(Frame) /\ cstack[n].L = L
  BY <1>1, NowSafe
<1>3. PICK h \in Seq(Level) : Good(Now, h, phase)
  BY DEF CallInv
<1>4. t \in lua_State /\ SizeOK(t)
  BY <1>1, <1>3, NowSafe DEF Good
<1>5. /\ Len(t.ci) \in Nat \ {0} /\ t.top \in {"none", "function"} /\ t.ended \in BOOLEAN
      /\ t.status \in {OK, YIELD, ERRRUN, ERRERR}
  BY <1>4, StateType DEF SizeOK
<1>6. CASE co = L
  <2>1. n \in FramesOf(co)
    BY <1>2, <1>6 DEF FramesOf
  <2> QED BY <1>6, <2>1 DEF costatus, Doing
<1>7. CASE co # L /\ FramesOf(co) # {}
  <2>1. PICK g \in Seq(Level), j \in Nat : AtLast(co, g, j)
    BY <1>7, ThreadLast
  <2>2. j \in 1..Len(Now.cs) /\ Now.cs[j].L = co
    BY <2>1, <1>1 DEF AtLast, IsLast
  <2>3. ~Dormant(L, co, Now.T[co])
    BY <1>1, <1>3, <2>2, NoFrame
  <2>4. t.status # YIELD /\ ~(t.status = OK /\ Len(t.ci) = 1)
    BY <1>1, <1>7, <2>3 DEF Dormant
  <2>5. t.status = OK
    BY <2>1, <2>4 DEF AtLast, LastOK
  <2>6. Len(t.ci) > 1
    <3> DEFINE c == Len(t.ci)
    <3>1. c \in Nat \ {0} /\ c # 1
      BY <1>5, <2>4, <2>5
    <3> HIDE DEF c
    <3>2. c > 1
      BY <3>1
    <3> QED BY <3>2 DEF c
  <2>7. costatus(L, co) = "normal"
    BY <1>7, <2>4, <2>5, <2>6 DEF costatus
  <2>8. Doing(co) = "normal"
    BY <1>7 DEF Doing
  <2> QED BY <2>7, <2>8
<1>8. CASE co # L /\ FramesOf(co) = {}
  <2>1. IdleOK(co, t, phase) /\ co # MainThread
    BY <1>1, <1>8, ThreadIdle
  <2>2. Doing(co) = IF t.ended THEN "dead" ELSE "suspended"
    BY <1>5, <1>8 DEF Doing
  <2>3. CASE t.status = YIELD
    <3>1. costatus(L, co) = "suspended"
      BY <1>8, <2>3 DEF costatus, OK, YIELD
    <3> QED BY <2>1, <2>2, <2>3, <3>1 DEF IdleOK
  <2>4. CASE t.status = OK
    <3>1. Len(t.ci) = 1 /\ (t.ended <=> t.top # "function")
      BY <2>1, <2>4 DEF IdleOK
    <3>2. costatus(L, co) = IF t.top = "none" THEN "dead" ELSE "suspended"
      BY <1>8, <2>4, <3>1 DEF costatus, OK, YIELD
    <3> QED BY <1>5, <2>2, <3>1, <3>2
  <2>5. CASE t.status \notin {OK, YIELD}
    <3>1. t.ended
      BY <2>1, <2>5 DEF IdleOK
    <3>2. costatus(L, co) = "dead"
      BY <1>8, <2>5 DEF costatus
    <3> QED BY <2>2, <3>1, <3>2
  <2> QED BY <2>3, <2>4, <2>5
<1> QED BY <1>6, <1>7, <1>8

LEMMA FinalizedIsOnce ==
  ASSUME CallInv, QueueInv
  PROVE  FinalizedOnce
<1>1. finalized \subseteq Udatas
  BY NowSafe
<1>2. ASSUME phase = "closed" PROVE finalized = Udatas
  <2>1. DOMAIN tmudata = {}
    BY <1>2 DEF QueueInv
  <2>2. Udatas \ finalized = {}
    BY <1>2, <2>1 DEF QueueInv
  <2> QED BY <1>1, <2>2
<1> QED BY <1>2 DEF QueueInv, FinalizedOnce

\* The entries of the CallInfo array are those the frames determine.
LEMMA EntriesAre ==
  ASSUME CallInv, NEW h \in Seq(Level), Good(Now, h, phase), NEW i \in DOMAIN cstack
  PROVE  h[i] = Entries(h, i)
<1> DEFINE n == Len(cstack)
           t == T[cstack[i].L]
<1>1. /\ cstack \in Seq(Frame) /\ Now.cs = cstack /\ Now.T = T /\ n \in Nat /\ DOMAIN cstack = 1..n
      /\ n = Len(cstack)
  BY NowSafe, NowIs
<1>2. Len(h) = n /\ i \in 1..n /\ i \in Nat \ {0} /\ h[i] \in Nat
  <2>1. Len(h) = n /\ i \in 1..n
    BY <1>1 DEF Good
  <2> QED BY <2>1, <1>1 DEF Level
<1> HIDE DEF n
<1>3. CASE i = n \/ cstack[i + 1].k = "resume"
  <2>1. FrameOK(cstack, t, h, phase, i) /\ LastOK(cstack, t, h, phase, i)
    BY <1>1, <1>2, <1>3 DEF Good
  <2>2. CASE cstack[i].k = "resume"
    BY <1>1, <1>3, <2>1, <2>2 DEF FrameOK, LevelOK, Entries
  <2>3. CASE cstack[i].k # "resume"
    BY <1>1, <1>3, <2>1, <2>3 DEF LastOK, Entries
  <2> QED BY <2>2, <2>3
<1>4. CASE i # n /\ cstack[i + 1].k # "resume"
  <2> DEFINE f == cstack[i + 1]
  <2>1. i + 1 \in 1..n /\ i + 1 > 1 /\ (i + 1) - 1 = i
    BY <1>1, <1>2, <1>4
  <2>2. /\ FrameOK(cstack, T[f.L], h, phase, i + 1) /\ f \in Frame /\ cstack[i] \in Frame
        /\ h[i + 1] \in Nat
    <3>1. FrameOK(cstack, T[f.L], h, phase, i + 1)
      BY <1>1, <2>1 DEF Good
    <3> QED BY <1>1, <1>2, <2>1, <3>1 DEF Level
  <2>3. f.k \in Above(cstack[i]) /\ LevelOK(cstack, T[f.L], h, i + 1)
    BY <2>1, <2>2 DEF FrameOK
  <2>4. f.k \in {"exec", "cfun", "call", "pcall", "hook", "gctm", "raise"}
    BY <1>4, <2>2, <2>3 DEF Above, Frame
  <2>5. Entries(h, i) = IF f.k = "exec" THEN f.base ELSE IF f.k = "cfun" THEN h[i + 1] - 1 ELSE h[i + 1]
    BY <1>1, <1>4 DEF Entries
  <2>6. CASE f.k = "exec"
    BY <2>1, <2>3, <2>5, <2>6 DEF LevelOK
  <2>7. CASE f.k = "cfun"
    <3>1. h[i + 1] = h[i] + 1
      BY <2>1, <2>3, <2>7 DEF LevelOK
    <3> QED BY <1>2, <2>5, <2>7, <3>1
  <2>8. CASE f.k \notin {"exec", "cfun"}
    BY <2>1, <2>3, <2>4, <2>5, <2>8 DEF LevelOK
  <2> QED BY <2>6, <2>7, <2>8
<1> QED BY <1>3, <1>4

LEMMA NextIn ==
  ASSUME NEW n \in Nat, NEW x \in 1..n, x # n
  PROVE  x + 1 \in 1..n
OBVIOUS

\* Levels is the only h for which the frames can be good.
LEMMA LevelsAre ==
  ASSUME CallInv, NEW h \in Seq(Level), Good(Now, h, phase)
  PROVE  h = [i \in DOMAIN cstack |-> Levels[i]]
<1> DEFINE n == Len(cstack)
<1>1. n \in Nat /\ DOMAIN cstack = 1..n /\ n = Len(cstack) /\ Len(h) = n
  BY NowSafe, NowIs DEF Good
<1>2. \A i \in 1..n : h[i] = Entries(h, i)
  BY <1>1, EntriesAre
<1>3. h = [i \in DOMAIN cstack |-> Entries(h, i)]
  BY <1>1, <1>2
<1>4. Levels = [i \in DOMAIN cstack |-> Entries(Levels, i)]
  BY <1>3 DEF Levels
<1> HIDE DEF n
<1>5. \A i \in 1..n : Levels[i] = h[i]
  <2> DEFINE S == {i \in 1..n : Levels[i] # h[i]}
  <2> SUFFICES ASSUME S # {} PROVE FALSE
    OBVIOUS
  <2>1. PICK x \in S : \A y \in S : y <= x
    <3>1. S \subseteq 1..n
      OBVIOUS
    <3> HIDE DEF S
    <3> QED BY <3>1, <1>1, MaxNat
  <2>2. x \in 1..n /\ Levels[x] # h[x] /\ x + 1 \notin S
    BY <1>1, <2>1
  <2>3. x = n \/ Levels[x + 1] = h[x + 1]
    <3>1. x = n \/ x + 1 \in 1..n
      BY <1>1, <2>2, NextIn
    <3> QED BY <2>2, <3>1
  <2>4. Entries(Levels, x) = Entries(h, x)
    BY <1>1, <2>3 DEF Entries
  <2>5. Levels[x] = Entries(Levels, x)
    BY <1>1, <1>4, <2>2
  <2> QED BY <1>2, <2>2, <2>4, <2>5
<1>6. h = [i \in 1..n |-> h[i]]
  BY <1>1
<1> QED BY <1>1, <1>5, <1>6

LEMMA FramesDoAgree ==
  ASSUME CallInv, QueueInv
  PROVE  FramesAgree
<1>1. PICK h \in Seq(Level) : Good(Now, h, phase)
  BY DEF CallInv
<1>2. h = [i \in DOMAIN cstack |-> Levels[i]]
  BY <1>1, LevelsAre
<1> QED BY <1>1, <1>2 DEF FramesAgree, CallInv

-----------------------------------------------------------------------------
(* The theorems.                                                           *)

\* The frames of the C stack, the values they saved and the fields of the
\* threads agree in every state, and the queue of finalizers is in order.
THEOREM CallInvariant == Spec => [](CallInv /\ QueueInv)
<1>1. Init => CallInv /\ QueueInv
  BY CallInit, QueueInit
<1>2. CallInv /\ QueueInv /\ [Next]_vars => (CallInv /\ QueueInv)'
  BY CallNext, QueueNext
<1> QED BY <1>1, <1>2, PTL DEF Spec

\* The same, with the levels of the frames that the run call computes.
THEOREM FramesAlwaysAgree == Spec => []FramesAgree
<1> QED BY CallInvariant, FramesDoAgree, PTL

\* Every frame and every field of a lua_State has a value the code gives it.
THEOREM CallTypes == Spec => []TypeOK
<1>1. CallInv => TypeOK
  BY DEF CallInv
<1> QED BY CallInvariant, <1>1, PTL

\* Errors, yields and overflows leave nCcalls the depth of the C stack.
THEOREM DepthIsExact == Spec => []DepthCounted
<1> QED BY CallInvariant, DepthIsCounted, PTL

\* The C stack never grows past LUAI_MAXCCALLS and what is left for the overflow.
THEOREM CStackStaysBounded == Spec => []CStackBounded
<1> QED BY CallInvariant, CStackIsBounded, PTL

\* luaD_throw never jumps to a frame that has returned, nor past the innermost
\* frame of its thread that called setjmp.
THEOREM JumpsLand == Spec => []ErrorJmpLive
<1> QED BY CallInvariant, ErrorJmpIsLive, PTL

\* errfunc is that of the innermost luaD_pcall that is active, or 0.
THEOREM HandlerIsInnermost == Spec => []ErrfuncLive
<1> QED BY CallInvariant, ErrfuncIsLive, PTL

\* No hook runs in a hook or a finalizer, and hooks are not left off, whatever
\* errors ended them.
THEOREM HooksAreRestored == Spec => []HooksGuarded
<1> QED BY CallInvariant, HooksAreGuarded, PTL

\* The CallInfo array holds what is in use and grows past its limit once.
THEOREM CallInfoHolds == Spec => []CallInfoInBounds
<1> QED BY CallInvariant, CallInfoIsInBounds, PTL

\* A coroutine that has yielded has left nothing on the C stack.
THEOREM YieldsClean == Spec => []SuspendedClean
<1> QED BY CallInvariant, SuspendedIsClean, PTL

\* coroutine.status tells what a coroutine does, as long as none returns more
\* values than the stack of its resumer can take: the run bug_call_status shows
\* that it does not otherwise.
THEOREM StatusIsRight ==
  ASSUME "manyresults" \notin Uses
  PROVE  Spec => []StatusTrue
<1>1. CallInv => StatusTrue
  BY StatusIsTrue
<1> QED BY CallInvariant, <1>1, PTL

\* Each finalizer is called once, and lua_close leaves out none.
THEOREM FinalizersOnce == Spec => []FinalizedOnce
<1> QED BY CallInvariant, FinalizedIsOnce, PTL
=============================================================================
