----------------------------- MODULE LuaCallSteps -----------------------------
(***************************************************************************)
(* Each action of LuaCall keeps the invariant of LuaCallInv.               *)
(***************************************************************************)
EXTENDS LuaCallProofs, WellFoundedInduction

\* The invariant, of a machine in a phase.
Safe(m, p) == Sound(m, p) /\ Bounded(m.cs)

Limit == MAXCCALLS + ErrorCCalls

LEMMA LimitType == Limit \in Nat /\ MAXCCALLS \in Nat /\ MAXCCALLS < Limit
BY LimitsAssumption DEF Limit, ErrorCCalls

\* Bounded is a bound on depths.
LEMMA BoundedIs == \A cs : Bounded(cs) <=> Within(cs, Limit)
BY DEF Bounded, Within, Limit

\* What is known of the frame that runs.
LEMMA Ready ==
  ASSUME NEW m, NEW p, Safe(m, p), m.cs # <<>>,
         m.cs[Len(m.cs)].k \notin {"resume", "raise"}
  PROVE  LET L == m.cs[Len(m.cs)].L
         IN  /\ m \in Machine /\ L \in Threads /\ m.T[L] \in lua_State
             /\ CanRun(m, L) /\ ~m.T[L].ended
<1>1. PICK h \in Seq(Level) : m \in Machine /\ Good(m, h, p)
  BY DEF Safe, Sound
<1>2. LET L == m.cs[Len(m.cs)].L IN L \in Threads /\ m.T[L] \in lua_State
  BY <1>1, TopOK
<1>3. LET t == m.T[m.cs[Len(m.cs)].L] IN t.status = OK /\ t.ended = FALSE
  BY <1>1, TopRuns
<1> QED BY <1>1, <1>2, <1>3 DEF CanRun

\* A machine with another thread at L.
LEMMA AtRecord ==
  ASSUME NEW c, NEW x, NEW L, NEW t
  PROVE  [[cs |-> c, T |-> x] EXCEPT !.T[L] = t] = [cs |-> c, T |-> [x EXCEPT ![L] = t]]
OBVIOUS

\* What is appended is last.
LEMMA AppendLast ==
  ASSUME NEW S, NEW s \in Seq(S), NEW x \in S
  PROVE  Append(s, x) # <<>> /\ Append(s, x)[Len(Append(s, x))] = x
OBVIOUS

\* The fields of one thread of a machine are replaced.
LEMMA WithThread ==
  ASSUME NEW m \in Machine, NEW L, NEW t
  PROVE  [m EXCEPT !.T[L] = t] = [cs |-> m.cs, T |-> [m.T EXCEPT ![L] = t]]
BY DEF Machine

-----------------------------------------------------------------------------
(* Calls and errors.                                                       *)

\* OP_CALL.
LEMMA OpCallSafe ==
  ASSUME NEW m, NEW p, Safe(m, p), m.cs # <<>>, m.cs[Len(m.cs)].k = "exec",
         NEW fun \in {"lua", "C"}
  PROVE  Safe(Enter(m, m.cs[Len(m.cs)].L, fun, FALSE), p)
<1> DEFINE L == m.cs[Len(m.cs)].L
<1>1. CanRun(m, L) /\ ~m.T[L].ended /\ Sound(m, p) /\ Within(m.cs, Limit) /\ Limit \in Nat
  BY Ready, BoundedIs, LimitType DEF Safe
<1>2. m.cs[Len(m.cs)].k = "exec" /\ FALSE \in BOOLEAN
  OBVIOUS
<1> HIDE DEF L
<1>3. /\ Sound(Enter(m, L, fun, FALSE), p)
      /\ \A b \in Nat : Within(m.cs, b) => Within(Enter(m, L, fun, FALSE).cs, b)
  BY <1>1, <1>2, EnterGood
<1> QED BY <1>1, <1>3, BoundedIs DEF Safe, L

\* lua_call and metamethods.
LEMMA CallSafe ==
  ASSUME NEW m, NEW p, Safe(m, p), m.cs # <<>>, m.cs[Len(m.cs)].k \in {"exec", "cfun"},
         NEW fun \in {"lua", "C"}
  PROVE  Safe(luaD_call(m, m.cs[Len(m.cs)].L, fun), p)
<1> DEFINE L == m.cs[Len(m.cs)].L
<1>1. CanRun(m, L) /\ ~m.T[L].ended /\ Sound(m, p) /\ Bounded(m.cs)
  BY Ready DEF Safe
<1>2. "call" \in Above(m.cs[Len(m.cs)])
  BY DEF Above
<1> HIDE DEF L
<1> QED BY <1>1, <1>2, CallGood DEF Safe, L

\* lua_pcall and xpcall.
LEMMA PCallSafe ==
  ASSUME NEW m, NEW p, Safe(m, p), m.cs # <<>>, m.cs[Len(m.cs)].k = "cfun",
         NEW fun \in {"lua", "C"}, NEW ef \in {0, Len(m.T[m.cs[Len(m.cs)].L].ci)}
  PROVE  Safe(luaD_pcall(m, m.cs[Len(m.cs)].L, fun, ef), p)
<1> DEFINE L == m.cs[Len(m.cs)].L
<1>1. CanRun(m, L) /\ ~m.T[L].ended /\ Sound(m, p) /\ Bounded(m.cs) /\ ef \in {0, Len(m.T[L].ci)}
  BY Ready DEF Safe
<1> HIDE DEF L
<1> QED BY <1>1, PCallGood DEF Safe, L

\* An error is raised.
LEMMA RaiseSafe ==
  ASSUME NEW m, NEW p, NEW L, Safe(m, p), CanRun(m, L),
         m.cs[Len(m.cs)].k \in {"exec", "cfun", "call", "resume"}
  PROVE  Safe(Raise(m, L), p)
BY RaiseGood, BoundedIs, LimitType DEF Safe

\* A frame comes that turns the hook off: debug hooks and finalizers.
LEMMA HookOff ==
  ASSUME NEW m, NEW p, Safe(m, p), m.cs # <<>>, NEW f \in Frame,
         f.L = m.cs[Len(m.cs)].L, f.k \in {"hook", "gctm"}, f.k \in Above(m.cs[Len(m.cs)]),
         m.cs[Len(m.cs)].k \notin {"resume", "raise"},
         Saves(f, m.T[f.L]), NEW fun \in {"lua", "C"}
  PROVE  Safe(luaD_call([Push(m, f) EXCEPT !.T[f.L].allowhook = FALSE], f.L, fun), p)
<1> DEFINE L == f.L
           n == Len(m.cs)
           t == m.T[L]
           t1 == [t EXCEPT !.allowhook = FALSE]
           off == Pushed(m, f, L, t1)
<1>1. PICK h \in Seq(Level) : m \in Machine /\ Good(m, h, p)
  BY DEF Safe, Sound
<1>2. /\ m.cs # <<>> /\ L = m.cs[n].L /\ n \in Nat \ {0}
      /\ m.cs \in Seq(Frame) /\ L \in Threads /\ t \in lua_State /\ SizeOK(t)
      /\ m.T \in [Threads -> lua_State]
  BY <1>1, TopOK
<1>3. t.status = OK /\ ~t.ended
  BY Ready DEF CanRun
<1>4. /\ t1 \in lua_State /\ t1.nCcalls = t.nCcalls /\ t1.ended = t.ended /\ t1.status = t.status
      /\ t1.baseCcalls = t.baseCcalls /\ t1.ci = t.ci /\ t1.size_ci = t.size_ci
      /\ t1.allowhook = FALSE /\ t1.errfunc = t.errfunc /\ t1.errorJmp = t.errorJmp /\ t1.top = t.top
  <2> HIDE DEF t
  <2> QED BY <1>2 DEF lua_State
<1>5. [Push(m, f) EXCEPT !.T[L].allowhook = FALSE] = off
  <2> DEFINE c == Append(m.cs, f)
             x == m.T
  <2>1. Push(m, f) = [cs |-> c, T |-> x]
    BY <1>1, PushRecord
  <2>2. off = [cs |-> c, T |-> [x EXCEPT ![L] = t1]]
    BY DEF Pushed
  <2>3. [[cs |-> c, T |-> x] EXCEPT !.T[L].allowhook = FALSE]
          = [[cs |-> c, T |-> x] EXCEPT !.T[L] = t1]
    OBVIOUS
  <2> HIDE DEF c, x, off, L, t1
  <2>4. [[cs |-> c, T |-> x] EXCEPT !.T[L] = t1] = [cs |-> c, T |-> [x EXCEPT ![L] = t1]]
    BY AtRecord
  <2> QED BY <2>1, <2>2, <2>3, <2>4
<1>6. t = m.T[L] /\ n = Len(m.cs) /\ Saves(f, t) /\ f.k \in Above(m.cs[n]) /\ Bounded(m.cs)
      /\ f.k \in {"hook", "gctm"} /\ L = f.L
  BY DEF Safe
<1>7. off.T[L] = t1 /\ off.cs = Append(m.cs, f)
  BY <1>2 DEF Pushed
<1> HIDE DEF n, t, t1, off, L
<1>8. Sound(off, p)
  <2>1. Sets(f, n + 1, t, t1)
    <3>1. t1.nCcalls = t.nCcalls + 0
      BY <1>2, <1>4, StateType
    <3> QED BY <3>1, <1>3, <1>4, <1>6 DEF Sets, Counted, Landing
  <2>2. SizeOK(t1)
    BY <1>2, <1>4 DEF SizeOK
  <2>3. Pushed(m, f, f.L, t1) \in Machine /\ \E h2 \in Seq(Level) : Good(Pushed(m, f, f.L, t1), h2, p)
    <3>1. Enters(f, h[Len(h)], m.T[f.L], t1)
      BY <1>6 DEF Enters
    <3> QED BY <3>1, <2>1, <2>2, <1>1, <1>2, <1>3, <1>4, <1>6, PushGood
  <2> QED BY <2>3, <1>6 DEF Sound, off
<1>9. off.cs # <<>> /\ off.cs[Len(off.cs)] = f
  <2>1. off.cs = Append(m.cs, f) /\ m.cs \in Seq(Frame)
    BY <1>2, <1>7
  <2>2. Append(m.cs, f) # <<>> /\ Append(m.cs, f)[Len(Append(m.cs, f))] = f
    BY <2>1, AppendLast
  <2> QED BY <2>1, <2>2
<1>10. CanRun(off, L) /\ ~off.T[L].ended
  BY <1>3, <1>4, <1>6, <1>7, <1>9 DEF CanRun
<1>11. "call" \in Above(off.cs[Len(off.cs)])
  BY <1>6, <1>9 DEF Above
<1>12. Bounded(off.cs)
  <2>1. Within(m.cs, Limit) /\ f.k \notin Counted /\ Limit \in Nat
    BY <1>6, BoundedIs, LimitType DEF Counted
  <2>2. Within(Append(m.cs, f), Limit)
    BY <2>1, <1>2, WithinPush
  <2> QED BY <2>2, <1>7, BoundedIs
<1> QED BY <1>5, <1>8, <1>10, <1>11, <1>12, CallGood DEF Safe, L

\* luaD_callhook.
LEMMA HookSafe ==
  ASSUME NEW m, NEW p, Safe(m, p), m.cs # <<>>, m.cs[Len(m.cs)].k = "exec",
         m.T[m.cs[Len(m.cs)].L].allowhook
  PROVE  LET L == m.cs[Len(m.cs)].L
         IN  Safe(luaD_call([Push(m, HookFrame(L)) EXCEPT !.T[L].allowhook = FALSE], L, "lua"), p)
<1> DEFINE L == m.cs[Len(m.cs)].L
           f == HookFrame(L)
<1>1. L \in Threads /\ m.T[L] \in lua_State
  BY Ready
<1>2. m.T[L].allowhook = TRUE
  BY <1>1, StateType
<1>3. f \in Frame /\ f.k = "hook" /\ f.L = L
  BY <1>1 DEF HookFrame, Frame
<1>4. f.k \in Above(m.cs[Len(m.cs)])
  BY <1>3 DEF Above
<1>5. L = m.cs[Len(m.cs)].L
  OBVIOUS
<1> HIDE DEF f, L
<1>6. Saves(f, m.T[L])
  BY <1>2, <1>3 DEF Saves
<1>7. Safe(luaD_call([Push(m, f) EXCEPT !.T[f.L].allowhook = FALSE], f.L, "lua"), p)
  BY <1>3, <1>4, <1>5, <1>6, HookOff
<1> QED BY <1>3, <1>7 DEF f, L

\* GCTM.
LEMMA GCTMSafe ==
  ASSUME NEW m, NEW p, Safe(m, p), m.cs # <<>>, m.cs[Len(m.cs)].k \in {"exec", "cfun", "close"}
  PROVE  Safe(StartGCTM(m, m.cs[Len(m.cs)].L), p)
<1> DEFINE L == m.cs[Len(m.cs)].L
           f == GCTMOf(L, m.T[L].allowhook)
<1>1. L \in Threads /\ m.T[L] \in lua_State
  BY Ready
<1>2. m.T[L].allowhook \in BOOLEAN
  BY <1>1, StateType
<1>3. f \in Frame /\ f.k = "gctm" /\ f.L = L /\ f.oldah = m.T[L].allowhook
  BY <1>1, <1>2 DEF GCTMOf, Frame
<1>4. f.k \in Above(m.cs[Len(m.cs)])
  BY <1>3 DEF Above
<1>5. L = m.cs[Len(m.cs)].L
  OBVIOUS
<1> HIDE DEF f, L
<1>6. Saves(f, m.T[L])
  BY <1>3 DEF Saves
<1>7. Safe(luaD_call([Push(m, f) EXCEPT !.T[f.L].allowhook = FALSE], f.L, "lua"), p)
  BY <1>3, <1>4, <1>5, <1>6, HookOff
<1> QED BY <1>3, <1>7 DEF f, L, StartGCTM

-----------------------------------------------------------------------------
(* Returns.                                                                *)

\* What a stack says without its last frame.
LEMMA AtPop ==
  ASSUME NEW cs, NEW n \in Nat \ {0, 1}, cs[n - 1].L = cs[n].L
  PROVE  /\ Depth(cs, n - 1) = Depth(cs, n) - IF cs[n].k \in Counted THEN 1 ELSE 0
         /\ \A j : LandingAt(cs, n, j) /\ cs[n].k \notin Landing => LandingAt(cs, n - 1, j)
         /\ \A ef : HandlerAt(cs, n, ef) /\ cs[n].k # "pcall" => HandlerAt(cs, n - 1, ef)
         /\ \A ah, p : HookAt(cs, n, ah, p) /\ cs[n].k \notin {"hook", "gctm"} =>
                       HookAt(cs, n - 1, ah, p)
<1>1. Depth(cs, n - 1) = Depth(cs, n) - IF cs[n].k \in Counted THEN 1 ELSE 0
  <2>1. Depth(cs, n) = Depth(cs, n - 1) + IF cs[n].k \in Counted THEN 1 ELSE 0
    BY DepthStep
  <2>2. Depth(cs, n - 1) \in Nat /\ Depth(cs, n) \in Nat
    BY DepthType
  <2> QED BY <2>1, <2>2
<1>2. ASSUME NEW j, LandingAt(cs, n, j), cs[n].k \notin Landing
      PROVE  LandingAt(cs, n - 1, j)
  <2>1. j \in 0..n /\ j # n /\ (j # 0 => cs[j].k \in Landing)
    BY <1>2 DEF LandingAt
  <2>2. \A l \in j + 1..n : cs[l].k \notin Landing
    BY <1>2 DEF LandingAt
  <2>3. \A l \in j + 1..n - 1 : l \in j + 1..n
    BY <2>1
  <2>4. j \in 0..n - 1
    BY <2>1
  <2> QED BY <2>1, <2>2, <2>3, <2>4 DEF LandingAt
<1>3. ASSUME NEW ef, HandlerAt(cs, n, ef), cs[n].k # "pcall" PROVE HandlerAt(cs, n - 1, ef)
  <2>1. CASE ef = 0
    BY <2>1 DEF HandlerAt
  <2>2. CASE ef # 0
    <3>1. PICK j \in 1..n : /\ cs[j].k = "pcall" /\ cs[j].ci = ef
                            /\ \A l \in j + 1..n : cs[l].k \notin {"pcall", "resume"}
      BY <1>3, <2>2 DEF HandlerAt
    <3>2. j # n
      BY <1>3, <3>1
    <3>3. j \in 1..n - 1 /\ \A l \in j + 1..n - 1 : l \in j + 1..n
      BY <3>2
    <3> QED BY <3>1, <3>3 DEF HandlerAt
  <2> QED BY <2>1, <2>2
<1>4. cs[n].k \notin {"hook", "gctm"} => (Guarded(cs, n) <=> Guarded(cs, n - 1))
  <2>1. \A j \in 1..n : j = n \/ j \in 1..n - 1
    OBVIOUS
  <2>2. \A j \in 1..n - 1 : j \in 1..n
    OBVIOUS
  <2> QED BY <2>1, <2>2 DEF Guarded
<1> QED BY <1>1, <1>2, <1>3, <1>4 DEF HookAt

\* A thread whose last frame f is gone; x entries of its array are in use.
Pops(f, x, t0, t) ==
  /\ t.nCcalls = t0.nCcalls - IF f.k \in Counted THEN 1 ELSE 0
  /\ t.errorJmp = IF f.k = "pcall" THEN f.prev ELSE t0.errorJmp
  /\ t.errfunc = IF f.k = "pcall" THEN f.errfunc ELSE t0.errfunc
  /\ t.allowhook = IF f.k = "hook" THEN TRUE ELSE IF f.k = "gctm" THEN f.oldah ELSE t0.allowhook
  /\ t.baseCcalls = t0.baseCcalls /\ t.ended = t0.ended /\ t.status = t0.status
  /\ Len(t.ci) = x /\ \A q \in 1..x : t.ci[q] = t0.ci[q]

LEMMA Pred ==
  ASSUME NEW n \in Nat \ {0, 1}
  PROVE  /\ n - 1 \in Nat \ {0} /\ n - 1 \in 1..n /\ n - 1 \in 0..n /\ n \in 1..n
         /\ n - 1 <= n /\ n > 1 /\ n - 1 \in 1..n - 1
OBVIOUS

\* What is left, m2, when frame n of m has returned.
Popped(m, m2, p, n, L, t) ==
  /\ Safe(m2, p) /\ m2.cs # <<>> /\ Len(m2.cs) = n - 1 /\ m2.cs[n - 1] = m.cs[n - 1]
  /\ m.cs[n - 1].L = L /\ m2.T[L] = t /\ m.cs[n].k \in Above(m.cs[n - 1])

\* The last frame returns.
LEMMA PopGood ==
  ASSUME NEW m \in Machine, NEW h \in Seq(Level), NEW p, Good(m, h, p), Bounded(m.cs),
         NEW n, n = Len(m.cs), n \in Nat \ {0, 1}, m.cs[n].k \notin {"resume", "close"},
         NEW L, L = m.cs[n].L, NEW t \in lua_State, SizeOK(t), Pops(m.cs[n], h[n - 1], m.T[L], t)
  PROVE  Popped(m, CutTo(m, n - 1, L, t), p, n, L, t)
<1> DEFINE t0 == m.T[L]
           f == m.cs[n]
<1>1. /\ m.cs \in Seq(Frame) /\ L \in Threads /\ f \in Frame /\ t0 \in lua_State
      /\ m.T \in [Threads -> lua_State] /\ m.cs # <<>>
      /\ LastOK(m.cs, t0, h, p, n) /\ FrameOK(m.cs, t0, h, p, n)
  BY TopOK
<1>2. t0 = m.T[L] /\ f = m.cs[n] /\ f.L = L /\ f.k \notin {"resume", "close"}
      /\ Pops(f, h[n - 1], t0, t)
  OBVIOUS
<1> HIDE DEF t0, f
<1>3. m.cs[n - 1].L = m.cs[n].L
  <2>1. n - 1 \in 1..Len(m.cs) /\ n \in 1..Len(m.cs) /\ n - 1 <= n
    BY Pred
  <2>2. \A l \in (n - 1) + 1..n : m.cs[l].k # "resume"
    BY <1>2
  <2> QED BY <2>1, <2>2 DEF Good, Threaded
<1>4. /\ Depth(m.cs, n - 1) = Depth(m.cs, n) - IF f.k \in Counted THEN 1 ELSE 0
      /\ \A j : LandingAt(m.cs, n, j) /\ f.k \notin Landing => LandingAt(m.cs, n - 1, j)
      /\ \A ef : HandlerAt(m.cs, n, ef) /\ f.k # "pcall" => HandlerAt(m.cs, n - 1, ef)
      /\ \A ah : HookAt(m.cs, n, ah, p) /\ f.k \notin {"hook", "gctm"} =>
                 HookAt(m.cs, n - 1, ah, p)
  BY <1>2, <1>3, AtPop
<1>5. SavedOK(m.cs, h, p, n) /\ f.k \in Above(m.cs[n - 1])
  BY <1>1, <1>2, Pred DEF FrameOK
<1>6. t0.status = OK
  BY <1>1, <1>2 DEF LastOK
<1>7. Fits(m.cs, t, h[n - 1], p, n - 1)
  <2>1. t.nCcalls = Depth(m.cs, n - 1)
    <3>1. t0.nCcalls = Depth(m.cs, n)
      BY <1>1 DEF LastOK
    <3>2. t.nCcalls = t0.nCcalls - IF f.k \in Counted THEN 1 ELSE 0
      BY <1>2 DEF Pops
    <3> QED BY <3>1, <3>2, <1>4
  <2>2. LandingAt(m.cs, n - 1, t.errorJmp)
    <3>1. CASE f.k = "pcall"
      BY <3>1, <1>2, <1>5 DEF Pops, SavedOK
    <3>2. CASE f.k # "pcall"
      BY <3>2, <1>1, <1>2, <1>4 DEF Pops, LastOK, Landing
    <3> QED BY <3>1, <3>2
  <2>3. HandlerAt(m.cs, n - 1, t.errfunc)
    <3>1. CASE f.k = "pcall"
      BY <3>1, <1>2, <1>5 DEF Pops, SavedOK
    <3>2. CASE f.k # "pcall"
      BY <3>2, <1>1, <1>2, <1>4 DEF Pops, LastOK
    <3> QED BY <3>1, <3>2
  <2>4. HookAt(m.cs, n - 1, t.allowhook, p) \/ t.ended
    <3>1. CASE f.k = "hook"
      <4>1. ~Guarded(m.cs, n - 1) /\ t.allowhook = TRUE
        BY <3>1, <1>2, <1>5 DEF Pops, SavedOK
      <4> QED BY <4>1 DEF HookAt
    <3>2. CASE f.k = "gctm"
      BY <3>2, <1>2, <1>5 DEF Pops, SavedOK
    <3>3. CASE f.k \notin {"hook", "gctm"}
      <4>1. t.allowhook = t0.allowhook /\ t.ended = t0.ended
        BY <3>3, <1>2 DEF Pops
      <4>2. HookAt(m.cs, n, t0.allowhook, p) \/ t0.ended
        BY <1>1 DEF LastOK
      <4> QED BY <4>1, <4>2, <3>3, <1>4
    <3> QED BY <3>1, <3>2, <3>3
  <2>5. t.status = OK /\ Len(t.ci) = h[n - 1]
    BY <1>2, <1>6 DEF Pops
  <2> QED BY <2>1, <2>2, <2>3, <2>4, <2>5 DEF Fits
<1>8. \A i \in (n - 1) + 1..Len(m.cs) : m.cs[i].k # "resume"
  BY <1>2
<1>9. t.baseCcalls = t0.baseCcalls /\ t.ended = t0.ended /\ \A q \in 1..h[n - 1] : t.ci[q] = t0.ci[q]
  BY <1>2 DEF Pops
<1>10. n - 1 \in 1..Len(m.cs) /\ n - 1 \in 0..Len(m.cs)
  BY Pred
<1>11. Sound(CutTo(m, n - 1, L, t), p)
  BY <1>1, <1>2, <1>7, <1>8, <1>9, <1>10, CutGood DEF Sound
<1>12. CutTo(m, n - 1, L, t).cs = SubSeq(m.cs, 1, n - 1) /\ CutTo(m, n - 1, L, t).T[L] = t
  BY <1>1 DEF CutTo
<1>13. Bounded(SubSeq(m.cs, 1, n - 1))
  <2>1. \A i \in 1..n - 1 : Depth(m.cs, i) <= Limit
    BY DEF Bounded, Limit
  <2>2. Within(SubSeq(m.cs, 1, n - 1), Limit)
    BY <2>1, <1>1, <1>10, WithinPrefix
  <2> QED BY <2>2, BoundedIs
<1>14. /\ Len(SubSeq(m.cs, 1, n - 1)) = n - 1
       /\ \A i \in 1..n - 1 : SubSeq(m.cs, 1, n - 1)[i] = m.cs[i]
  BY <1>1, <1>10, Prefix
<1>15. SubSeq(m.cs, 1, n - 1) # <<>>
  <2>1. n - 1 # 0
    BY Pred
  <2> QED BY <2>1, <1>14
<1>16. CutTo(m, n - 1, L, t).cs[n - 1] = m.cs[n - 1]
  <2>1. n - 1 \in 1..n - 1
    BY Pred
  <2> QED BY <2>1, <1>12, <1>14
<1> QED BY <1>2, <1>3, <1>5, <1>11, <1>12, <1>13, <1>14, <1>15, <1>16 DEF Safe, Popped

LEMMA PopRecord ==
  ASSUME NEW m \in Machine
  PROVE  Pop(m) = [cs |-> SubSeq(m.cs, 1, Len(m.cs) - 1), T |-> m.T]
<1> DEFINE c == SubSeq(m.cs, 1, Len(m.cs) - 1)
<1>1. Pop(m) = [m EXCEPT !.cs = c]
  BY DEF Pop
<1> HIDE DEF c
<1>2. [m EXCEPT !.cs = c] = [cs |-> c, T |-> m.T]
  BY DEF Machine
<1> QED BY <1>1, <1>2 DEF c

\* A frame that added nothing to the array of its thread.
LEMMA SameLevel ==
  ASSUME NEW m \in Machine, NEW h \in Seq(Level), NEW p, Good(m, h, p), m.cs # <<>>,
         m.cs[Len(m.cs)].k \in {"call", "pcall", "hook", "gctm", "raise"}
  PROVE  LET n == Len(m.cs)
             t == m.T[m.cs[n].L]
         IN  /\ n \in Nat \ {0, 1} /\ t \in lua_State /\ SizeOK(t) /\ t.status = OK
             /\ m.cs[n] \in Frame /\ m.cs[n].L \in Threads /\ m.T \in [Threads -> lua_State]
             /\ h[n - 1] = Len(t.ci) /\ SavedOK(m.cs, h, p, n) /\ t.nCcalls = Depth(m.cs, n)
<1> DEFINE n == Len(m.cs)
           t == m.T[m.cs[n].L]
           f == m.cs[n]
<1>1. /\ n \in Nat \ {0} /\ t \in lua_State /\ SizeOK(t) /\ f \in Frame /\ f.L \in Threads
      /\ m.T \in [Threads -> lua_State]
      /\ LastOK(m.cs, t, h, p, n) /\ FrameOK(m.cs, t, h, p, n)
  BY TopOK
<1>2. f = m.cs[n] /\ f.k \in {"call", "pcall", "hook", "gctm", "raise"}
  OBVIOUS
<1> HIDE DEF n, t, f
<1>3. n # 1
  BY <1>1, <1>2 DEF FrameOK
<1>4. t.status = OK /\ Len(t.ci) = h[n] /\ t.nCcalls = Depth(m.cs, n)
  BY <1>1, <1>2 DEF LastOK
<1>5. LevelOK(m.cs, t, h, n) /\ SavedOK(m.cs, h, p, n)
  BY <1>1 DEF FrameOK
<1>6. n > 1
  BY <1>1, <1>3
<1>7. h[n] = h[n - 1]
  BY <1>2, <1>5, <1>6 DEF LevelOK
<1> QED BY <1>1, <1>3, <1>4, <1>5, <1>7 DEF n, t, f

\* The end of luaD_call.
LEMMA CallReturnsSafe ==
  ASSUME NEW m, NEW p, Safe(m, p), m.cs # <<>>, m.cs[Len(m.cs)].k = "call"
  PROVE  Safe([Pop(m) EXCEPT !.T[m.cs[Len(m.cs)].L].nCcalls = @ - 1], p)
<1> DEFINE n == Len(m.cs)
           L == m.cs[n].L
           t == m.T[L]
           d == t.nCcalls - 1
           t1 == [t EXCEPT !.nCcalls = d]
<1>1. PICK h \in Seq(Level) : m \in Machine /\ Good(m, h, p)
  BY DEF Safe, Sound
<1>2. /\ n \in Nat \ {0, 1} /\ t \in lua_State /\ SizeOK(t) /\ t.status = OK /\ L \in Threads
      /\ h[n - 1] = Len(t.ci) /\ t.nCcalls = Depth(m.cs, n)
  BY <1>1, SameLevel
<1>3. d \in Nat /\ d = t.nCcalls - 1
  <2> HIDE DEF t, n
  <2>1. n - 1 \in Nat /\ n \in Nat \ {0} /\ m.cs[n].k \in Counted
    BY <1>2, Pred DEF n, Counted
  <2>2. Depth(m.cs, n) = Depth(m.cs, n - 1) + 1
    BY <2>1, DepthStep
  <2>3. Depth(m.cs, n - 1) \in Nat
    BY <2>1, DepthType
  <2> QED BY <1>2, <2>2, <2>3
<1>4. [Pop(m) EXCEPT !.T[L].nCcalls = @ - 1] = CutTo(m, n - 1, L, t1)
  <2> DEFINE c == SubSeq(m.cs, 1, n - 1)
             x == m.T
  <2>1. Pop(m) = [cs |-> c, T |-> x]
    BY <1>1, PopRecord
  <2>2. CutTo(m, n - 1, L, t1) = [cs |-> c, T |-> [x EXCEPT ![L] = t1]]
    BY DEF CutTo
  <2>3. [[cs |-> c, T |-> x] EXCEPT !.T[L].nCcalls = @ - 1]
          = [[cs |-> c, T |-> x] EXCEPT !.T[L] = t1]
    OBVIOUS
  <2> HIDE DEF c, x, t1, L
  <2>4. [[cs |-> c, T |-> x] EXCEPT !.T[L] = t1] = [cs |-> c, T |-> [x EXCEPT ![L] = t1]]
    BY AtRecord
  <2> QED BY <2>1, <2>2, <2>3, <2>4
<1>5. n = Len(m.cs) /\ L = m.cs[n].L /\ t = m.T[L] /\ m.cs[n].k = "call" /\ Bounded(m.cs)
  BY DEF Safe
<1> HIDE DEF n, L, t, d
<1>6. /\ t1 \in lua_State /\ t1.nCcalls = d /\ t1.ended = t.ended /\ t1.status = t.status
      /\ t1.baseCcalls = t.baseCcalls /\ t1.ci = t.ci /\ t1.size_ci = t.size_ci
      /\ t1.allowhook = t.allowhook /\ t1.errfunc = t.errfunc /\ t1.errorJmp = t.errorJmp
      /\ t1.top = t.top
  BY <1>2, <1>3 DEF lua_State
<1> HIDE DEF t1
<1>7. Pops(m.cs[n], h[n - 1], t, t1)
  BY <1>2, <1>3, <1>5, <1>6 DEF Pops, Counted
<1>8. SizeOK(t1)
  BY <1>2, <1>6 DEF SizeOK
<1>9. Safe(CutTo(m, n - 1, L, t1), p)
  BY <1>1, <1>2, <1>5, <1>6, <1>7, <1>8, PopGood DEF Popped
<1> QED BY <1>4, <1>9 DEF n, L

\* The end of luaD_pcall without an error.
LEMMA PCallReturnsSafe ==
  ASSUME NEW m, NEW p, Safe(m, p), m.cs # <<>>, m.cs[Len(m.cs)].k = "pcall"
  PROVE  LET f == m.cs[Len(m.cs)]
         IN  Safe([Pop(m) EXCEPT !.T[f.L].errorJmp = Previous(f),
                                 !.T[f.L].errfunc = ErrfuncRestored(m.T[f.L], f)], p)
<1> DEFINE n == Len(m.cs)
           f == m.cs[n]
           L == f.L
           t == m.T[L]
           j == f.prev
           ef == f.errfunc
           t1 == [t EXCEPT !.errorJmp = j, !.errfunc = ef]
<1>1. PICK h \in Seq(Level) : m \in Machine /\ Good(m, h, p)
  BY DEF Safe, Sound
<1>2. /\ n \in Nat \ {0, 1} /\ t \in lua_State /\ SizeOK(t) /\ t.status = OK /\ L \in Threads
      /\ h[n - 1] = Len(t.ci) /\ f \in Frame
  BY <1>1, SameLevel
<1>3. Previous(f) = j /\ ErrfuncRestored(t, f) = ef /\ j \in Nat /\ ef \in Nat
  BY <1>2, FrameType DEF Previous, ErrfuncRestored
<1>4. [Pop(m) EXCEPT !.T[L].errorJmp = j, !.T[L].errfunc = ef] = CutTo(m, n - 1, L, t1)
  <2> DEFINE c == SubSeq(m.cs, 1, n - 1)
             x == m.T
  <2>1. Pop(m) = [cs |-> c, T |-> x]
    BY <1>1, PopRecord
  <2>2. CutTo(m, n - 1, L, t1) = [cs |-> c, T |-> [x EXCEPT ![L] = t1]]
    BY DEF CutTo
  <2>3. [[cs |-> c, T |-> x] EXCEPT !.T[L].errorJmp = j, !.T[L].errfunc = ef]
          = [[cs |-> c, T |-> x] EXCEPT !.T[L] = t1]
    <3>1. t1 = [x[L] EXCEPT !.errorJmp = j, !.errfunc = ef]
            /\ x \in [Threads -> lua_State] /\ L \in Threads
      BY <1>1, <1>2 DEF Machine
    <3> HIDE DEF c, x, L, j, ef, t1
    <3> DEFINE P == [cs |-> c, T |-> x]
    <3>2. [P EXCEPT !.T[L].errorJmp = j, !.T[L].errfunc = ef]
            = [P EXCEPT !.T[L] = [x[L] EXCEPT !.errorJmp = j, !.errfunc = ef]]
      BY <3>1
    <3> QED BY <3>1, <3>2
  <2> HIDE DEF c, x, t1, L
  <2>4. [[cs |-> c, T |-> x] EXCEPT !.T[L] = t1] = [cs |-> c, T |-> [x EXCEPT ![L] = t1]]
    BY AtRecord
  <2> QED BY <2>1, <2>2, <2>3, <2>4
<1>5. n = Len(m.cs) /\ f = m.cs[n] /\ L = f.L /\ t = m.T[L] /\ f.k = "pcall" /\ Bounded(m.cs)
      /\ j = f.prev /\ ef = f.errfunc
  BY DEF Safe
<1> HIDE DEF n, f, L, t, j, ef
<1>6. /\ t1 \in lua_State /\ t1.nCcalls = t.nCcalls /\ t1.ended = t.ended /\ t1.status = t.status
      /\ t1.baseCcalls = t.baseCcalls /\ t1.ci = t.ci /\ t1.size_ci = t.size_ci
      /\ t1.allowhook = t.allowhook /\ t1.errfunc = ef /\ t1.errorJmp = j /\ t1.top = t.top
  BY <1>2, <1>3 DEF lua_State
<1> HIDE DEF t1
<1>7. Pops(f, h[n - 1], t, t1)
  <2>1. f.k \notin Counted
    BY <1>5 DEF Counted
  <2>2. t1.nCcalls = t.nCcalls - 0
    BY <1>2, <1>6, StateType
  <2> QED BY <2>1, <2>2, <1>2, <1>5, <1>6 DEF Pops
<1>8. SizeOK(t1)
  BY <1>2, <1>6 DEF SizeOK
<1>9. Safe(CutTo(m, n - 1, L, t1), p)
  BY <1>1, <1>2, <1>5, <1>6, <1>7, <1>8, PopGood DEF Popped
<1> QED BY <1>3, <1>4, <1>9 DEF n, L, f, t

\* The end of luaD_callhook and of GCTM: hooks are what they were.
LEMMA AllowSafe ==
  ASSUME NEW m, NEW p, Safe(m, p), m.cs # <<>>, m.cs[Len(m.cs)].k \in {"hook", "gctm"},
         NEW ah \in BOOLEAN,
         m.cs[Len(m.cs)].k = "hook" => ah = TRUE,
         m.cs[Len(m.cs)].k = "gctm" => ah = m.cs[Len(m.cs)].oldah
  PROVE  Safe([Pop(m) EXCEPT !.T[m.cs[Len(m.cs)].L].allowhook = ah], p)
<1> DEFINE n == Len(m.cs)
           f == m.cs[n]
           L == f.L
           t == m.T[L]
           t1 == [t EXCEPT !.allowhook = ah]
<1>1. PICK h \in Seq(Level) : m \in Machine /\ Good(m, h, p)
  BY DEF Safe, Sound
<1>2. /\ n \in Nat \ {0, 1} /\ t \in lua_State /\ SizeOK(t) /\ t.status = OK /\ L \in Threads
      /\ h[n - 1] = Len(t.ci)
  BY <1>1, SameLevel
<1>4. [Pop(m) EXCEPT !.T[L].allowhook = ah] = CutTo(m, n - 1, L, t1)
  <2> DEFINE c == SubSeq(m.cs, 1, n - 1)
             x == m.T
  <2>1. Pop(m) = [cs |-> c, T |-> x]
    BY <1>1, PopRecord
  <2>2. CutTo(m, n - 1, L, t1) = [cs |-> c, T |-> [x EXCEPT ![L] = t1]]
    BY DEF CutTo
  <2>3. [[cs |-> c, T |-> x] EXCEPT !.T[L].allowhook = ah]
          = [[cs |-> c, T |-> x] EXCEPT !.T[L] = t1]
    OBVIOUS
  <2> HIDE DEF c, x, t1, L
  <2>4. [[cs |-> c, T |-> x] EXCEPT !.T[L] = t1] = [cs |-> c, T |-> [x EXCEPT ![L] = t1]]
    BY AtRecord
  <2> QED BY <2>1, <2>2, <2>3, <2>4
<1>5. n = Len(m.cs) /\ f = m.cs[n] /\ L = f.L /\ t = m.T[L] /\ Bounded(m.cs)
      /\ f.k \in {"hook", "gctm"} /\ (f.k = "hook" => ah = TRUE) /\ (f.k = "gctm" => ah = f.oldah)
  BY DEF Safe
<1> HIDE DEF n, f, L, t
<1>6. /\ t1 \in lua_State /\ t1.nCcalls = t.nCcalls /\ t1.ended = t.ended /\ t1.status = t.status
      /\ t1.baseCcalls = t.baseCcalls /\ t1.ci = t.ci /\ t1.size_ci = t.size_ci
      /\ t1.allowhook = ah /\ t1.errfunc = t.errfunc /\ t1.errorJmp = t.errorJmp /\ t1.top = t.top
  BY <1>2 DEF lua_State
<1> HIDE DEF t1
<1>7. Pops(f, h[n - 1], t, t1)
  <2>1. f.k \notin Counted
    BY <1>5 DEF Counted
  <2>2. t1.nCcalls = t.nCcalls - 0
    BY <1>2, <1>6, StateType
  <2> QED BY <2>1, <2>2, <1>2, <1>5, <1>6 DEF Pops
<1>8. SizeOK(t1)
  BY <1>2, <1>6 DEF SizeOK
<1>9. Safe(CutTo(m, n - 1, L, t1), p)
  BY <1>1, <1>2, <1>5, <1>6, <1>7, <1>8, PopGood DEF Popped
<1> QED BY <1>4, <1>9 DEF n, L, f

\* Only the C program that owns the state runs in a stack of one frame.
LEMMA NotHost ==
  ASSUME NEW m \in Machine, NEW h \in Seq(Level), NEW p, Good(m, h, p), m.cs # <<>>,
         m.cs[Len(m.cs)].k \in {"exec", "cfun"}, ~(Len(m.cs) = 1 /\ p = "run")
  PROVE  Len(m.cs) \in Nat \ {0, 1}
<1> DEFINE n == Len(m.cs)
           t == m.T[m.cs[n].L]
           f == m.cs[n]
<1>1. n \in Nat \ {0} /\ FrameOK(m.cs, t, h, p, n)
  BY TopOK
<1>2. f = m.cs[n] /\ f.k \in {"exec", "cfun"} /\ ~(n = 1 /\ p = "run")
  OBVIOUS
<1> HIDE DEF n, t, f
<1>3. n # 1
  BY <1>1, <1>2 DEF FrameOK
<1> QED BY <1>1, <1>3 DEF n

LEMMA PopOf ==
  ASSUME NEW c, NEW x
  PROVE  Pop([cs |-> c, T |-> x]) = [cs |-> SubSeq(c, 1, Len(c) - 1), T |-> x]
BY DEF Pop

\* luaD_poscall.
LEMMA ReturnSafe ==
  ASSUME NEW m, NEW p, Safe(m, p), m.cs # <<>>, m.cs[Len(m.cs)].k \in {"exec", "cfun"},
         ~(Len(m.cs) = 1 /\ p = "run")
  PROVE  LET f  == m.cs[Len(m.cs)]
             t1 == [m.T[f.L] EXCEPT !.ci = SubSeq(@, 1, Len(@) - 1)]
             m1 == [m EXCEPT !.T[f.L] = t1]
         IN  Safe(IF f.k = "cfun" \/ Len(t1.ci) = f.base THEN Pop(m1) ELSE m1, p)
<1> DEFINE n == Len(m.cs)
           f == m.cs[n]
           L == f.L
           t == m.T[L]
           c == SubSeq(t.ci, 1, Len(t.ci) - 1)
           t1 == [t EXCEPT !.ci = c]
           m1 == [m EXCEPT !.T[L] = t1]
           e  == [cs |-> m.cs, T |-> [m.T EXCEPT ![L] = t1]]
<1>1. PICK h \in Seq(Level) : m \in Machine /\ Good(m, h, p)
  BY DEF Safe, Sound
<1>2. /\ t \in lua_State /\ SizeOK(t) /\ L \in Threads /\ h[n] \in Level /\ f \in Frame
      /\ LastOK(m.cs, t, h, p, n) /\ FrameOK(m.cs, t, h, p, n) /\ Len(h) = n
      /\ m.T \in [Threads -> lua_State] /\ m.cs \in Seq(Frame)
  BY <1>1, TopOK
<1>3. n \in Nat \ {0, 1}
  BY <1>1, NotHost
<1>4. h[n] = Len(t.ci) /\ t.status = OK /\ t.ended = FALSE
  BY <1>1, TopRuns
<1>5. m1 = e
  <2> HIDE DEF n, f, L, t, t1
  <2> QED BY <1>1, WithThread
<1>6. Pop(e) = CutTo(m, n - 1, L, t1)
  BY PopOf DEF CutTo
<1>7. /\ n = Len(m.cs) /\ f = m.cs[n] /\ L = f.L /\ t = m.T[L] /\ f.k \in {"exec", "cfun"}
      /\ Bounded(m.cs) /\ c = SubSeq(t.ci, 1, Len(t.ci) - 1) /\ t1 = [t EXCEPT !.ci = c]
  BY DEF Safe
<1> HIDE DEF n, f, L, t, c, t1, m1
<1>8. h[n - 1] \in Level /\ n > 1
  BY <1>2, <1>3 DEF Level
<1>9. Len(t.ci) \in Nat \ {0} /\ Len(t.ci) - 1 \in 0..Len(t.ci) /\ t.ci \in Seq({"lua", "C"})
  <2>1. t.ci \in Seq({"lua", "C"}) /\ h[n] \in Nat \ {0}
    BY <1>2, StateType DEF Level
  <2>2. Len(t.ci) - 1 \in 0..Len(t.ci)
    BY <2>1, <1>4
  <2> QED BY <2>1, <2>2, <1>4
<1>10. /\ c \in Seq({"lua", "C"}) /\ Len(c) = Len(t.ci) - 1
       /\ \A q \in 1..Len(c) : c[q] = t.ci[q]
  <2>1. LET s == SubSeq(t.ci, 1, Len(t.ci) - 1)
        IN  /\ s \in Seq({"lua", "C"}) /\ Len(s) = Len(t.ci) - 1
            /\ \A q \in 1..Len(t.ci) - 1 : s[q] = t.ci[q]
    BY <1>9, Prefix
  <2>2. c = SubSeq(t.ci, 1, Len(t.ci) - 1)
    BY <1>7
  <2> QED BY <2>1, <2>2
<1>105. t1 = [t EXCEPT !.ci = c]
  BY <1>7
<1>11. /\ t1 \in lua_State /\ t1.nCcalls = t.nCcalls /\ t1.ended = t.ended /\ t1.status = t.status
       /\ t1.baseCcalls = t.baseCcalls /\ t1.ci = c /\ t1.size_ci = t.size_ci
       /\ t1.allowhook = t.allowhook /\ t1.errfunc = t.errfunc /\ t1.errorJmp = t.errorJmp
       /\ t1.top = t.top
  BY <1>2, <1>105, <1>10 DEF lua_State
<1> HIDE DEF t1
<1>12. LevelOK(m.cs, t, h, n)
  BY <1>2 DEF FrameOK
<1>13. t.nCcalls \in Nat /\ t.size_ci \in Nat
  BY <1>2, StateType
<1>14. h[n - 1] \in Nat \ {0} /\ h[n] \in Nat
  BY <1>2, <1>8 DEF Level
<1>15. Len(c) >= 1 => SizeOK(t1)
  <2>1. Len(t.ci) <= t.size_ci
    BY <1>2, <1>13 DEF SizeOK
  <2>2. Len(c) \in Nat /\ Len(c) <= t.size_ci
    BY <2>1, <1>9, <1>10, <1>13
  <2>3. Len(c) >= 1 => Len(t1.ci) \in 1..t1.size_ci
    BY <2>2, <1>11, <1>13
  <2>4. t1.size_ci <= 2 * MAXCALLS /\ (t1.top = "values" => "manyresults" \in Uses)
    BY <1>2, <1>11 DEF SizeOK
  <2> QED BY <2>3, <2>4 DEF SizeOK
<1>16. ASSUME Len(c) = h[n - 1] PROVE Safe(Pop(m1), p)
  <2>1. SizeOK(t1)
    BY <1>14, <1>15, <1>16
  <2>2. /\ f.k \notin Counted /\ f.k # "pcall" /\ f.k # "hook" /\ f.k # "gctm"
        /\ f.k \notin {"resume", "close"}
    BY <1>7 DEF Counted
  <2>25. t1.nCcalls = t.nCcalls - 0 /\ Len(t1.ci) = h[n - 1]
    BY <1>11, <1>13, <1>16
  <2>26. \A q \in 1..h[n - 1] : t1.ci[q] = t.ci[q]
    BY <1>10, <1>11, <1>16
  <2>3. Pops(f, h[n - 1], t, t1)
    BY <2>2, <2>25, <2>26, <1>11 DEF Pops
  <2>4. Popped(m, CutTo(m, n - 1, L, t1), p, n, L, t1)
    <3>1. m.cs[n].k \notin {"resume", "close"} /\ L = m.cs[n].L /\ m.cs # <<>>
          /\ Pops(m.cs[n], h[n - 1], m.T[L], t1)
      BY <2>2, <2>3, <1>3, <1>7
    <3> QED BY <3>1, <2>1, <1>1, <1>3, <1>7, <1>11, PopGood
  <2> QED BY <2>4, <1>5, <1>6 DEF Popped
<1>17. CASE f.k = "cfun"
  <2>1. h[n] = h[n - 1] + 1
    BY <1>8, <1>12, <1>17, <1>7 DEF LevelOK
  <2>2. Len(c) = h[n - 1]
    BY <2>1, <1>4, <1>10, <1>14
  <2> QED BY <2>2, <1>16, <1>17, <1>7 DEF m1, t, L, f, n, t1, c
<1>18. CASE f.k = "exec"
  <2>1. f.base = h[n - 1] /\ f.base < h[n]
    BY <1>8, <1>12, <1>18, <1>7 DEF LevelOK
  <2>2. \A q \in f.base + 1..h[n] : t.ci[q] = "lua"
    BY <1>8, <1>12, <1>18, <1>7 DEF LevelOK
  <2>3. CASE Len(c) = f.base
    <3>1. Safe(Pop(m1), p) /\ Len(t1.ci) = f.base
      BY <2>1, <2>3, <1>11, <1>16
    <3> QED BY <3>1 DEF m1, t, L, f, n, t1, c
  <2>4. CASE Len(c) # f.base
    <3>1. f.base < Len(c) /\ f.base \in Nat /\ Len(c) \in Nat /\ Len(c) < h[n]
      BY <2>1, <2>4, <1>4, <1>9, <1>10, <1>14
    <3>2. SizeOK(t1)
      BY <3>1, <1>15
    <3>3. ASSUME NEW q \in 1..Len(c)
          PROVE  c[q] = IF q <= f.base THEN t.ci[q] ELSE "lua"
      <4>1. c[q] = t.ci[q]
        BY <1>10
      <4>2. q <= f.base \/ q \in f.base + 1..h[n]
        BY <3>1, <1>14
      <4> QED BY <4>1, <4>2, <2>2
    <3>4. \A q \in 1..Len(t1.ci) : t1.ci[q] = IF q <= f.base THEN t.ci[q] ELSE "lua"
      BY <3>3, <1>11
    <3>5. Sound(e, p)
      <4>1. m.cs # <<>> /\ L = m.cs[Len(m.cs)].L /\ m.cs[Len(m.cs)].k = "exec" /\ t = m.T[L]
            /\ m.cs[Len(m.cs)] = f
        BY <1>7, <1>18
      <4>2. m.cs[Len(m.cs)].base < Len(t1.ci)
        BY <4>1, <3>1, <1>11
      <4>3. LuaLevels(m.cs[Len(m.cs)], m.T[L], t1)
        BY <4>1, <4>2, <3>4, <1>11 DEF LuaLevels
      <4> QED BY <4>1, <4>3, <3>2, <1>1, <1>11, LevelGood
    <3>6. e.cs = m.cs
      OBVIOUS
    <3>7. Safe(m1, p)
      BY <3>5, <3>6, <1>5, <1>7 DEF Safe
    <3>8. ~(f.k = "cfun" \/ Len(t1.ci) = f.base)
      BY <2>4, <1>11, <1>18
    <3> QED BY <3>7, <3>8 DEF m1, t, L, f, n, t1, c
  <2> QED BY <2>3, <2>4
<1> QED BY <1>7, <1>17, <1>18

-----------------------------------------------------------------------------
(* Errors.                                                                 *)

\* An error that is thrown.
LEMMA ThrowSafe ==
  ASSUME NEW m, NEW p, NEW L, Safe(m, p), m.cs # <<>>, L = m.cs[Len(m.cs)].L,
         NEW code \in {ERRRUN, ERRERR}
  PROVE  Safe(Throw(m, L, code), p)
<1>1. Sound(m, p) /\ Within(m.cs, Limit) /\ Limit \in Nat
  BY BoundedIs, LimitType DEF Safe
<1>2. m.cs \in Seq(Frame)
  BY <1>1 DEF Sound, Machine
<1>3. \A i \in 1..Len(m.cs) - 1 : i \in 1..Len(m.cs)
  BY <1>2
<1>4. \A i \in 1..Len(m.cs) - 1 : Depth(m.cs, i) <= Limit
  BY <1>1, <1>3 DEF Within
<1>5. /\ Sound(Throw(m, L, code), p)
      /\ \A b \in Nat : (\A i \in 1..Len(m.cs) - 1 : Depth(m.cs, i) <= b) =>
                          Within(Throw(m, L, code).cs, b)
  BY <1>1, ThrowGood
<1> QED BY <1>1, <1>4, <1>5, BoundedIs DEF Safe

\* The handler of an error comes, with its frame.
LEMMA HandlerGood ==
  ASSUME NEW m, NEW p, Safe(m, p), m.cs # <<>>, NEW L, L = m.cs[Len(m.cs)].L,
         "raise" \in Above(m.cs[Len(m.cs)]), m.T[L].errfunc # 0, m.T[L].status = OK
  PROVE  Safe(luaD_call(Push(m, RaiseOf(L, TRUE)), L, "lua"), p)
<1> DEFINE n == Len(m.cs)
           t == m.T[L]
           f == RaiseOf(L, TRUE)
           m2 == Pushed(m, f, L, t)
<1>1. PICK h \in Seq(Level) : m \in Machine /\ Good(m, h, p)
  BY DEF Safe, Sound
<1>2. /\ t \in lua_State /\ SizeOK(t) /\ L \in Threads /\ n \in Nat \ {0} /\ m.cs[n] \in Frame
      /\ LastOK(m.cs, t, h, p, n) /\ FrameOK(m.cs, t, h, p, n)
      /\ m.T \in [Threads -> lua_State] /\ m.cs \in Seq(Frame)
  BY <1>1, TopOK
<1>3. /\ n = Len(m.cs) /\ t = m.T[L] /\ t.errfunc # 0 /\ t.status = OK
      /\ "raise" \in Above(m.cs[n]) /\ L = m.cs[n].L /\ Within(m.cs, Limit)
  BY BoundedIs DEF Safe
<1>4. f \in Frame /\ f.k = "raise" /\ f.L = L /\ f.handled = TRUE
  BY <1>2 DEF RaiseOf, Frame
<1>5. Push(m, f) = m2
  BY <1>1, <1>2, PushIs
<1>55. m2.T[L] = t /\ m2.cs = Append(m.cs, f)
  BY <1>2 DEF Pushed
<1> HIDE DEF n, t, f, m2
<1>6. ~t.ended
  <2>1. SUFFICES ASSUME t.ended PROVE FALSE
    OBVIOUS
  <2>2. m.cs[n].k \in {"exec", "cfun", "call", "resume"}
    BY <1>2, <1>3, AboveType
  <2>3. m.cs[n].k \in {"resume", "raise"}
    BY <2>1, <1>2 DEF FrameOK
  <2>4. m.cs[n].k = "resume"
    BY <2>2, <2>3
  <2>5. HandlerAt(m.cs, n, t.errfunc)
    BY <1>2 DEF LastOK
  <2>6. PICK j \in 1..n : m.cs[j].k = "pcall" /\ \A l \in j + 1..n : m.cs[l].k \notin {"pcall", "resume"}
    BY <2>5, <1>3 DEF HandlerAt
  <2>7. j # n
    BY <2>4, <2>6
  <2>8. n \in j + 1..n
    BY <2>7, <1>2
  <2> QED BY <2>4, <2>6, <2>8
<1>7. Sound(m2, p)
  <2>1. Saves(f, t)
    BY <1>4 DEF Saves
  <2>2. Sets(f, n + 1, t, t)
    <3>1. t.nCcalls = t.nCcalls + 0
      BY <1>2, StateType
    <3> QED BY <3>1, <1>3, <1>4 DEF Sets, Counted, Landing
  <2>3. Pushed(m, f, f.L, t) \in Machine /\ \E h2 \in Seq(Level) : Good(Pushed(m, f, f.L, t), h2, p)
    <3>1. Enters(f, h[Len(h)], m.T[f.L], t)
      BY <1>4 DEF Enters
    <3> QED BY <3>1, <2>1, <2>2, <1>1, <1>2, <1>3, <1>4, <1>6, PushGood
  <2> QED BY <2>3, <1>4 DEF Sound, m2
<1>9. m2.cs # <<>> /\ m2.cs[Len(m2.cs)] = f
  <2>1. m2.cs = Append(m.cs, f) /\ m.cs \in Seq(Frame) /\ f \in Frame
    BY <1>2, <1>4, <1>55
  <2>2. Append(m.cs, f) # <<>> /\ Append(m.cs, f)[Len(Append(m.cs, f))] = f
    BY <2>1, AppendLast
  <2> QED BY <2>1, <2>2
<1>10. CanRun(m2, L) /\ ~m2.T[L].ended
  BY <1>3, <1>4, <1>6, <1>55, <1>9 DEF CanRun
<1>11. "call" \in Above(m2.cs[Len(m2.cs)])
  BY <1>4, <1>9 DEF Above
<1>12. Bounded(m2.cs)
  <2>1. f.k \notin Counted /\ Limit \in Nat
    BY <1>4, LimitType DEF Counted
  <2>2. Within(Append(m.cs, f), Limit)
    BY <2>1, <1>2, <1>3, <1>4, WithinPush
  <2> QED BY <2>2, <1>55, BoundedIs
<1> QED BY <1>5, <1>7, <1>10, <1>11, <1>12, CallGood DEF Safe, f

\* luaG_errormsg.
LEMMA HandleErrorSafe ==
  ASSUME NEW m, NEW p, Safe(m, p), m.cs # <<>>, m.cs[Len(m.cs)].k = "raise"
  PROVE  LET f == m.cs[Len(m.cs)]
             m1 == Pop(m)
         IN  Safe(IF m.T[f.L].errfunc # 0 /\ ~f.handled
                  THEN luaD_call(Push(m1, RaiseOf(f.L, TRUE)), f.L, "lua")
                  ELSE Throw(m1, f.L, ERRRUN), p)
<1> DEFINE n == Len(m.cs)
           f == m.cs[n]
           L == f.L
           t == m.T[L]
           m1 == Pop(m)
           c == CutTo(m, n - 1, L, t)
<1>1. PICK h \in Seq(Level) : m \in Machine /\ Good(m, h, p)
  BY DEF Safe, Sound
<1>2. /\ n \in Nat \ {0, 1} /\ t \in lua_State /\ SizeOK(t) /\ t.status = OK /\ L \in Threads
      /\ h[n - 1] = Len(t.ci) /\ m.T \in [Threads -> lua_State]
  BY <1>1, SameLevel
<1>3. m1 = c
  <2>1. m1 = [cs |-> SubSeq(m.cs, 1, n - 1), T |-> m.T]
    BY <1>1, PopRecord
  <2>2. [m.T EXCEPT ![L] = t] = m.T
    BY <1>2
  <2> QED BY <2>1, <2>2 DEF CutTo
<1>4. n = Len(m.cs) /\ f = m.cs[n] /\ L = f.L /\ t = m.T[L] /\ f.k = "raise" /\ Bounded(m.cs)
  BY DEF Safe
<1> HIDE DEF n, f, L, t, m1, c
<1>5. Pops(f, h[n - 1], t, t)
  <2>1. t.nCcalls = t.nCcalls - 0
    BY <1>2, StateType
  <2>2. f.k \notin Counted
    BY <1>4 DEF Counted
  <2> QED BY <2>1, <2>2, <1>2, <1>4 DEF Pops
<1>6. /\ Safe(c, p) /\ c.cs # <<>> /\ Len(c.cs) = n - 1 /\ c.cs[n - 1] = m.cs[n - 1]
      /\ m.cs[n - 1].L = L /\ c.T[L] = t /\ f.k \in Above(m.cs[n - 1])
  <2>1. Popped(m, CutTo(m, n - 1, L, t), p, n, L, t)
    <3>1. /\ Pops(m.cs[n], h[n - 1], m.T[L], t) /\ m.cs[n].k \notin {"resume", "close"}
          /\ L = m.cs[n].L /\ n = Len(m.cs) /\ Bounded(m.cs)
      BY <1>4, <1>5
    <3> QED BY <3>1, <1>1, <1>2, PopGood
  <2> QED BY <2>1, <1>4 DEF c, Popped
<1>7. c.cs # <<>> /\ L = c.cs[Len(c.cs)].L /\ "raise" \in Above(c.cs[Len(c.cs)])
  BY <1>4, <1>6
<1>8. ASSUME t.errfunc # 0 PROVE Safe(luaD_call(Push(c, RaiseOf(L, TRUE)), L, "lua"), p)
  BY <1>2, <1>6, <1>7, <1>8, HandlerGood
<1>9. Safe(Throw(c, L, ERRRUN), p)
  BY <1>6, <1>7, ThrowSafe
<1> QED BY <1>3, <1>8, <1>9 DEF n, f, L, t, m1

-----------------------------------------------------------------------------
(* The frames of a thread.                                                 *)

LEMMA MinNat ==
  ASSUME NEW S, S \subseteq Nat, S # {}
  PROVE  \E x \in S : \A y \in S : x <= y
<1> DEFINE R == OpToRel(<, Nat)
<1>1. IsWellFoundedOn(R, Nat)
  BY NatLessThanWellFounded
<1>2. \A x \in Nat : \A y \in Nat : y < x => <<y, x>> \in R
  BY DEF OpToRel
<1> HIDE DEF R
<1>3. PICK x \in S : \A y \in S : ~(<<y, x>> \in R)
  BY <1>1, WFMin
<1>4. ASSUME NEW y \in S PROVE x <= y
  <2>1. x \in Nat /\ y \in Nat /\ ~(y < x)
    BY <1>2, <1>3
  <2> QED BY <2>1
<1> QED BY <1>4

LEMMA MaxNat ==
  ASSUME NEW n \in Nat, NEW S, S \subseteq 1..n, S # {}
  PROVE  \E x \in S : \A y \in S : y <= x
<1> DEFINE D == {n - y : y \in S}
<1>1. \A y \in S : y \in 1..n /\ n - y \in Nat
  OBVIOUS
<1>2. D \subseteq Nat /\ D # {}
  BY <1>1
<1>3. PICK d \in D : \A e \in D : d <= e
  BY <1>2, MinNat
<1>4. PICK x \in S : d = n - x
  BY <1>3
<1>5. ASSUME NEW y \in S PROVE y <= x
  <2>1. n - y \in D
    BY <1>1
  <2>2. n - x <= n - y
    BY <2>1, <1>3, <1>4
  <2> QED BY <2>2, <1>1
<1> QED BY <1>5

\* Frame j is the last of thread L: the frame that runs, or one that has resumed
\* another thread.
IsLast(cs, L, j) ==
  /\ j \in 1..Len(cs) /\ cs[j].L = L
  /\ j = Len(cs) \/ (j + 1 <= Len(cs) /\ cs[j + 1].k = "resume")
  /\ \A q \in j + 1..Len(cs) : cs[q].L # L

LEMMA LastFrame ==
  ASSUME NEW cs, NEW n \in Nat, n = Len(cs), Threaded(cs), NEW i \in 1..n
  PROVE  \E j \in i..n : IsLast(cs, cs[i].L, j)
<1>1. \A a, b \in 1..n : a <= b =>
        (cs[a].L = cs[b].L <=> \A l \in a + 1..b : cs[l].k # "resume")
  BY DEF Threaded
<1> DEFINE S == {l \in i + 1..n : cs[l].k = "resume"}
<1>2. CASE S = {}
  <2>1. \A l \in i + 1..n : cs[l].k # "resume"
    BY <1>2
  <2>2. cs[n].L = cs[i].L /\ n \in i..n
    BY <2>1, <1>1
  <2>3. n + 1..n = {}
    OBVIOUS
  <2> QED BY <2>2, <2>3 DEF IsLast
<1>3. CASE S # {}
  <2>1. S \subseteq Nat
    OBVIOUS
  <2>2. PICK l \in S : \A y \in S : l <= y
    BY <2>1, <1>3, MinNat
  <2>3. l \in i + 1..n /\ cs[l].k = "resume"
    BY <2>2
  <2>4. \A q \in i + 1..n : q < l => cs[q].k # "resume"
    <3>1. SUFFICES ASSUME NEW q \in i + 1..n, q < l, cs[q].k = "resume" PROVE FALSE
      OBVIOUS
    <3>2. q \in S
      BY <3>1
    <3>3. l <= q
      BY <3>2, <2>2
    <3> QED BY <3>1, <3>3, <2>3
  <2> HIDE DEF S
  <2> DEFINE j == l - 1
  <2>5. j \in i..n /\ j \in 1..n /\ i <= j /\ j + 1 = l /\ j + 1 <= n
    BY <2>3
  <2>6. \A q \in i + 1..j : q \in i + 1..n /\ q < l
    BY <2>3
  <2> HIDE DEF j
  <2>7. cs[j].L = cs[i].L
    <3>1. \A q \in i + 1..j : cs[q].k # "resume"
      BY <2>4, <2>6
    <3>2. cs[i].L = cs[j].L <=> \A q \in i + 1..j : cs[q].k # "resume"
      BY <2>5, <1>1
    <3> QED BY <3>1, <3>2
  <2>8. ASSUME NEW q \in j + 1..n PROVE cs[q].L # cs[i].L
    <3>1. q \in 1..n /\ i <= q /\ l \in i + 1..q
      BY <2>3, <2>5
    <3> QED BY <3>1, <2>3, <1>1
  <2>9. cs[j + 1].k = "resume"
    BY <2>3, <2>5
  <2> QED BY <2>5, <2>7, <2>8, <2>9 DEF IsLast
<1> QED BY <1>2, <1>3

-----------------------------------------------------------------------------
(* Coroutines.                                                             *)

\* A coroutine that coroutine.status calls suspended has no frame.
Dormant(L, co, t) ==
  co # L /\ (t.status = YIELD \/ (t.status = OK /\ Len(t.ci) = 1))

LEMMA NoFrame ==
  ASSUME NEW m \in Machine, NEW h \in Seq(Level), NEW p, Good(m, h, p), m.cs # <<>>,
         NEW L, L = m.cs[Len(m.cs)].L, m.cs[Len(m.cs)].k \in {"exec", "cfun"},
         NEW co \in Threads, Dormant(L, co, m.T[co])
  PROVE  /\ \A i \in 1..Len(m.cs) : m.cs[i].L # co
         /\ co # MainThread /\ IdleOK(co, m.T[co], p)
<1> DEFINE n == Len(m.cs)
<1>1. n \in Nat \ {0} /\ m.cs \in Seq(Frame) /\ Len(h) = n
  BY TopOK
<1>2. ASSUME NEW i \in 1..n, m.cs[i].L = co PROVE FALSE
  <2> DEFINE t == m.T[co]
  <2>1. PICK j \in i..n : /\ m.cs[j].L = co
                          /\ j = n \/ (j + 1 <= n /\ m.cs[j + 1].k = "resume")
    <3>1. Threaded(m.cs)
      BY DEF Good
    <3>2. n = Len(m.cs) /\ n \in Nat
      BY <1>1
    <3> HIDE DEF n
    <3>3. \E j \in i..n : IsLast(m.cs, m.cs[i].L, j)
      BY <3>1, <3>2, LastFrame
    <3> QED BY <3>2, <3>3, <1>2 DEF IsLast
  <2>2. co # L /\ L = m.cs[n].L /\ n = Len(m.cs)
    BY DEF Dormant
  <2> HIDE DEF n
  <2>3. j # n
    BY <2>1, <2>2
  <2>4. j \in 1..n /\ j + 1 \in 1..n /\ j \in Nat \ {0} /\ j + 1 > 1 /\ (j + 1) - 1 = j
    BY <2>1, <2>3, <1>1
  <2>5. m.cs[j + 1].k = "resume" /\ j \in 1..Len(m.cs) /\ j + 1 \in 1..Len(m.cs)
    BY <2>1, <2>2, <2>3, <2>4
  <2>6. FrameOK(m.cs, m.T[m.cs[j + 1].L], h, p, j + 1)
    BY <2>5 DEF Good
  <2>7. FrameOK(m.cs, t, h, p, j) /\ LastOK(m.cs, t, h, p, j)
    BY <2>1, <2>5 DEF Good
  <2>8. m.cs[j + 1].k \in Above(m.cs[j]) /\ SavedOK(m.cs, h, p, j + 1)
    BY <2>4, <2>6 DEF FrameOK
  <2>9. m.cs[j].k = "cfun"
    <3>1. m.cs[j] \in Frame
      BY <1>1, <2>5
    <3> QED BY <3>1, <2>5, <2>8, AboveType
  <2>10. j > 1
    <3>1. j + 1 > 2
      BY <2>5, <2>8 DEF SavedOK
    <3> QED BY <3>1, <2>4
  <2>11. t.status = OK /\ Len(t.ci) = h[j]
    BY <2>7, <2>9 DEF LastOK
  <2>12. h[j] = h[j - 1] + 1
    <3>1. LevelOK(m.cs, t, h, j)
      BY <2>7 DEF FrameOK
    <3> QED BY <3>1, <2>9, <2>10 DEF LevelOK
  <2>13. h[j - 1] \in Nat \ {0}
    <3>1. j - 1 \in 1..Len(h)
      BY <2>4, <2>10, <1>1, <2>2
    <3> QED BY <3>1 DEF Level
  <2> QED BY <2>11, <2>12, <2>13 DEF Dormant, OK, YIELD
<1>3. m.cs[1].L = MainThread
  <2>1. FrameOK(m.cs, m.T[m.cs[1].L], h, p, 1)
    BY <1>1 DEF Good
  <2> QED BY <2>1 DEF FrameOK
<1>4. co # MainThread
  BY <1>1, <1>2, <1>3
<1>5. IdleOK(co, m.T[co], p)
  BY <1>2 DEF Good
<1> QED BY <1>2, <1>4, <1>5

\* auxresume refuses, or its coroutine failed.
LEMMA RefusedSafe ==
  ASSUME NEW m, NEW p, NEW L, Safe(m, p), CanRun(m, L), m.cs[Len(m.cs)].k = "cfun",
         NEW wrap \in BOOLEAN
  PROVE  Safe(Refused(m, L, wrap), p)
<1>1. Safe(Raise(m, L), p)
  BY RaiseSafe
<1> QED BY <1>1 DEF Refused

\* lua_resume refuses: the C stack is too deep.
LEMMA EmptiedSafe ==
  ASSUME NEW m, NEW p, NEW L, Safe(m, p), m.cs # <<>>, L = m.cs[Len(m.cs)].L,
         m.cs[Len(m.cs)].k = "cfun", NEW co \in Threads, Dormant(L, co, m.T[co]),
         NEW wrap \in BOOLEAN, NEW level \in Nat
  PROVE  LET t  == [m.T[co] EXCEPT !.nCcalls = level]
             m1 == [m EXCEPT !.T[co] = t]
         IN  Safe(Refused([m1 EXCEPT !.T[co] = Emptied(@)], L, wrap), p)
<1> DEFINE t0 == m.T[co]
           t  == [t0 EXCEPT !.nCcalls = level]
           m1 == [m EXCEPT !.T[co] = t]
           t2 == Emptied(t)
           m2 == [m EXCEPT !.T = [m.T EXCEPT ![co] = t2]]
<1>1. PICK h \in Seq(Level) : m \in Machine /\ Good(m, h, p)
  BY DEF Safe, Sound
<1>2. /\ \A i \in 1..Len(m.cs) : m.cs[i].L # co
      /\ co # MainThread /\ IdleOK(co, t0, p)
  BY <1>1, NoFrame
<1>3. t0 \in lua_State /\ SizeOK(t0) /\ m.T \in [Threads -> lua_State] /\ m.cs \in Seq(Frame)
  BY <1>1 DEF Machine, Good
<1>4. t0.ended \in BOOLEAN /\ t0.status \in {OK, YIELD, ERRRUN, ERRERR}
  BY <1>3, StateType
<1>5. t0.status \in {OK, YIELD} /\ co # L
  BY DEF Dormant
<1>6. [m1 EXCEPT !.T[co] = Emptied(@)] = m2
  <2> DEFINE x == m.T
             y == [x EXCEPT ![co] = t]
  <2>1. m = [cs |-> m.cs, T |-> x]
    BY <1>1 DEF Machine
  <2>2. m1 = [cs |-> m.cs, T |-> y] /\ y[co] = t
    <3> HIDE DEF t
    <3>1. m1 = [cs |-> m.cs, T |-> y]
      BY <1>1, WithThread
    <3>2. y[co] = t
      BY <1>3
    <3> QED BY <3>1, <3>2
  <2>3. m2 = [cs |-> m.cs, T |-> [x EXCEPT ![co] = t2]]
    <3> HIDE DEF t2
    <3> QED BY <2>1
  <2>4. [[cs |-> m.cs, T |-> y] EXCEPT !.T[co] = Emptied(@)]
          = [[cs |-> m.cs, T |-> y] EXCEPT !.T[co] = Emptied(y[co])]
    OBVIOUS
  <2>5. [[cs |-> m.cs, T |-> y] EXCEPT !.T[co] = t2] = [cs |-> m.cs, T |-> [y EXCEPT ![co] = t2]]
    <3> HIDE DEF y, t2
    <3> QED BY AtRecord
  <2>6. [y EXCEPT ![co] = t2] = [x EXCEPT ![co] = t2]
    <3> HIDE DEF t, t2
    <3> QED BY <1>3
  <2> HIDE DEF y, x, m1, m2
  <2> QED BY <2>2, <2>3, <2>4, <2>5, <2>6
<1>7. t0 = m.T[co] /\ t = [t0 EXCEPT !.nCcalls = level] /\ t2 = Emptied(t)
  OBVIOUS
<1>8. m2.cs = m.cs /\ m2.T = [m.T EXCEPT ![co] = t2]
  <2> HIDE DEF t2
  <2> QED BY <1>1 DEF Machine
<1>9. m.T[L].status = OK /\ L \in Threads
  BY <1>1, Ready DEF CanRun
<1> HIDE DEF t0, t, m1, t2, m2
<1>10. /\ t \in lua_State /\ t.status = t0.status /\ t.ci = t0.ci /\ t.size_ci = t0.size_ci
       /\ t.allowhook = t0.allowhook /\ t.errfunc = t0.errfunc /\ t.errorJmp = t0.errorJmp
       /\ t.top = t0.top /\ t.ended = t0.ended
  BY <1>3, <1>7 DEF lua_State
<1>11. /\ t2 \in lua_State /\ t2.status = t0.status /\ t2.ci = t0.ci /\ t2.size_ci = t0.size_ci
       /\ t2.allowhook = t0.allowhook /\ t2.errfunc = t0.errfunc /\ t2.errorJmp = t0.errorJmp
       /\ t2.top = "none" /\ t2.ended = (t0.ended \/ t0.status = OK)
  <2>1. t2 = [t EXCEPT !.top = "none", !.ended = @ \/ t.status = OK]
    BY <1>7 DEF Emptied
  <2>2. (t.ended \/ t.status = OK) \in BOOLEAN
    OBVIOUS
  <2> QED BY <2>1, <2>2, <1>4, <1>10 DEF lua_State
<1>12. IdleOK(co, t2, p)
  <2>1. CASE t0.status = YIELD
    BY <2>1, <1>2, <1>4, <1>11 DEF IdleOK, OK, YIELD
  <2>2. CASE t0.status = OK
    BY <2>2, <1>2, <1>4, <1>11 DEF IdleOK, OK, YIELD
  <2> QED BY <2>1, <2>2, <1>5
<1>13. SizeOK(t2)
  BY <1>3, <1>11 DEF SizeOK
<1>14. m2 \in Machine /\ Good(m2, h, p)
  BY <1>1, <1>2, <1>11, <1>12, <1>13, IdleGood DEF m2
<1>15. Safe(m2, p)
  BY <1>1, <1>8, <1>14 DEF Safe, Sound
<1>16. m2.T[L] = m.T[L]
  BY <1>3, <1>5, <1>8, <1>9
<1>17. CanRun(m2, L) /\ m2.cs[Len(m2.cs)].k = "cfun"
  BY <1>8, <1>9, <1>16 DEF CanRun
<1>18. Safe(Refused(m2, L, wrap), p)
  BY <1>15, <1>17, RefusedSafe
<1> QED BY <1>6, <1>18 DEF m1, t, t0

\* The coroutine co, resumed from L, with its lua_resume on the stack; x is what is
\* left on its stack.
Begun(m, L, co, wrap, x) ==
  LET level == m.T[L].nCcalls
  IN  Pushed(m, ResumeOf(co, L, wrap, m.T[co]), co,
             [m.T[co] EXCEPT !.nCcalls = level + 1, !.baseCcalls = level + 1,
                             !.errorJmp = Len(m.cs) + 1, !.top = x])

\* What b, the machine that follows m, is then.
BegunOK(m, b, co, x, p) ==
  /\ Safe(b, p) /\ b.cs # <<>> /\ b.cs[Len(b.cs)].k = "resume"
  /\ b.cs[Len(b.cs)].L = co
  /\ b.T[co].status = m.T[co].status /\ b.T[co].ended = m.T[co].ended
  /\ b.T[co].ci = m.T[co].ci /\ b.T[co].top = x
  /\ \E h \in Seq(Level) : Good(b, h, p) /\ h[Len(h)] = 1 /\ h # <<>>

LEMMA BegunGood ==
  ASSUME NEW m, NEW p, NEW L, Safe(m, p), m.cs # <<>>, L = m.cs[Len(m.cs)].L,
         m.cs[Len(m.cs)].k = "cfun", Len(m.cs) # 1,
         NEW co \in Threads, Dormant(L, co, m.T[co]), NEW wrap \in BOOLEAN,
         NEW x \in {m.T[co].top, "none"}, m.T[L].nCcalls < MAXCCALLS
  PROVE  BegunOK(m, Begun(m, L, co, wrap, x), co, x, p)
<1> DEFINE t0 == m.T[co]
           f == ResumeOf(co, L, wrap, t0)
           n == Len(m.cs)
           v == m.T[L].nCcalls
           t == [t0 EXCEPT !.nCcalls = v + 1, !.baseCcalls = v + 1, !.errorJmp = n + 1, !.top = x]
           b == Begun(m, L, co, wrap, x)
<1>1. PICK h \in Seq(Level) : m \in Machine /\ Good(m, h, p)
  BY DEF Safe, Sound
<1>2. /\ n \in Nat \ {0} /\ m.cs \in Seq(Frame) /\ L \in Threads /\ m.T[L] \in lua_State
      /\ m.T \in [Threads -> lua_State] /\ LastOK(m.cs, m.T[L], h, p, n) /\ Len(h) = n
  BY <1>1, TopOK
<1>3. /\ \A i \in 1..n : m.cs[i].L # co
      /\ co # MainThread /\ IdleOK(co, t0, p)
  BY <1>1, NoFrame
<1>4. t0 \in lua_State /\ t0.errorJmp = 0 /\ t0.status \in {OK, YIELD}
  BY <1>2, <1>3 DEF IdleOK, Dormant
<1>5. /\ f.k = "resume" /\ f.L = co /\ f.from = L /\ f.prev = 0 /\ f \in Frame
  BY <1>2, <1>4 DEF ResumeOf, Frame
<1>6. v \in Nat /\ v = Depth(m.cs, n) /\ v < MAXCCALLS
  BY <1>2, StateType DEF LastOK
<1>7. b = Pushed(m, f, co, t)
  BY DEF Begun
<1>75. /\ n = Len(m.cs) /\ t0 = m.T[co] /\ v = m.T[L].nCcalls /\ Bounded(m.cs)
       /\ t = [t0 EXCEPT !.nCcalls = v + 1, !.baseCcalls = v + 1, !.errorJmp = n + 1, !.top = x]
       /\ x \in {t0.top, "none"} /\ L = m.cs[n].L /\ m.cs[n].k = "cfun" /\ n # 1
  BY DEF Safe
<1> HIDE DEF t0, f, n, v, t, b
<1>8. /\ t \in lua_State /\ t.status = t0.status /\ t.ended = t0.ended /\ t.ci = t0.ci /\ t.top = x
  <2>1. t0.top \in {"none", "function", "values"}
    BY <1>4, StateType
  <2>2. x \in {"none", "function", "values"} /\ v + 1 \in Nat /\ n + 1 \in Nat
    BY <2>1, <1>2, <1>6, <1>75
  <2>3. t = [t0 EXCEPT !.nCcalls = v + 1, !.baseCcalls = v + 1, !.errorJmp = n + 1, !.top = x]
    BY <1>75
  <2>4. t \in lua_State
    <3>1. \A a, d, c \in Nat :
            [t0 EXCEPT !.nCcalls = a, !.baseCcalls = d, !.errorJmp = c, !.top = x] \in lua_State
      BY <2>2, <1>4 DEF lua_State
    <3> QED BY <3>1, <2>2, <2>3
  <2>5. t.status = t0.status /\ t.ended = t0.ended /\ t.ci = t0.ci /\ t.top = x
    BY <2>3, <1>4 DEF lua_State
  <2> QED BY <2>4, <2>5
<1>9. Pushed(m, f, f.L, t) \in Machine /\ Good(Pushed(m, f, f.L, t), Append(h, 1), p)
  <2>1. t = [m.T[f.L] EXCEPT !.nCcalls = m.T[f.from].nCcalls + 1,
                             !.baseCcalls = m.T[f.from].nCcalls + 1,
                             !.errorJmp = Len(m.cs) + 1, !.top = x]
    BY <1>5, <1>75
  <2>2. /\ m.cs # <<>> /\ m.cs[Len(m.cs)].k = "cfun" /\ f.from = m.cs[Len(m.cs)].L
        /\ f.L # MainThread /\ Len(m.cs) # 1 /\ m.T[f.L].status \in {OK, YIELD}
        /\ x \in {m.T[f.L].top, "none"}
    BY <1>2, <1>3, <1>4, <1>5, <1>75
  <2>3. \A i \in 1..Len(m.cs) : m.cs[i].L # f.L
    BY <1>3, <1>5, <1>75
  <2> HIDE DEF Dormant
  <2> QED BY <2>1, <2>2, <2>3, <1>1, <1>5, <1>8, ResumeGood
<1>10. Append(h, 1) \in Seq(Level) /\ Len(Append(h, 1)) = n + 1 /\ Append(h, 1)[n + 1] = 1
       /\ Append(h, 1) # <<>>
  BY <1>2 DEF Level
<1>11. b.cs = Append(m.cs, f) /\ b.T[co] = t
  BY <1>2, <1>7 DEF Pushed
<1>12. b.cs # <<>> /\ b.cs[Len(b.cs)] = f
  BY <1>2, <1>11
<1>13. Bounded(b.cs)
  <2>1. Limit \in Nat /\ MAXCCALLS \in Nat /\ MAXCCALLS < Limit /\ Within(m.cs, Limit)
    BY <1>75, LimitType, BoundedIs
  <2>2. Depth(Append(m.cs, f), n + 1) = v + 1
    <3>1. f.k \in Counted
      BY <1>5 DEF Counted
    <3>2. n + 1 \in Nat \ {0} /\ (n + 1) - 1 = n
      BY <1>2
    <3>3. Append(m.cs, f)[n + 1] = f /\ \A i \in 1..n : Append(m.cs, f)[i] = m.cs[i]
      BY <1>2, <1>75
    <3>4. Depth(Append(m.cs, f), n) = Depth(m.cs, n)
      BY <3>3, <1>2, Local
    <3> QED BY <3>1, <3>2, <3>3, <3>4, <1>6, DepthStep
  <2>3. Depth(Append(m.cs, f), n + 1) <= Limit
    BY <2>1, <2>2, <1>6
  <2>4. Within(Append(m.cs, f), Limit)
    BY <2>1, <2>3, <1>1, <1>2, <1>5, <1>75, PushDepth
  <2> QED BY <2>4, <1>11, BoundedIs
<1>14. b \in Machine /\ Good(b, Append(h, 1), p)
  BY <1>5, <1>7, <1>9
<1>15. Safe(b, p)
  BY <1>10, <1>13, <1>14 DEF Safe, Sound
<1>16. \E g \in Seq(Level) : Good(b, g, p) /\ g[Len(g)] = 1 /\ g # <<>>
  BY <1>10, <1>14
<1>17. m.T[co] = t0 /\ b.T[co] = t /\ b.cs[Len(b.cs)] = f
  BY <1>11, <1>12, <1>75
<1>18. BegunOK(m, b, co, x, p)
  BY <1>5, <1>8, <1>12, <1>15, <1>16, <1>17 DEF BegunOK
<1> QED BY <1>18 DEF b

LEMMA BegunIs ==
  ASSUME NEW m \in Machine, NEW L, NEW co \in Threads, NEW wrap
  PROVE  LET level == m.T[L].nCcalls
             t     == [m.T[co] EXCEPT !.nCcalls = level]
             m1    == [m EXCEPT !.T[co] = t]
         IN  [Push(m1, ResumeOf(co, L, wrap, t)) EXCEPT
                !.T[co].nCcalls = level + 1, !.T[co].baseCcalls = level + 1,
                !.T[co].errorJmp = Len(m.cs) + 1] = Begun(m, L, co, wrap, m.T[co].top)
<1> DEFINE v  == m.T[L].nCcalls
           t0 == m.T[co]
           t  == [t0 EXCEPT !.nCcalls = v]
           m1 == [m EXCEPT !.T[co] = t]
           f  == ResumeOf(co, L, wrap, t)
           w  == v + 1
           j  == Len(m.cs) + 1
           t1 == [t EXCEPT !.nCcalls = w, !.baseCcalls = w, !.errorJmp = j]
           c  == Append(m.cs, f)
           y  == [m.T EXCEPT ![co] = t]
           P  == [cs |-> c, T |-> y]
<1>1. m = [cs |-> m.cs, T |-> m.T] /\ m.T \in [Threads -> lua_State] /\ t0 \in lua_State
  BY DEF Machine
<1>2. m1 = [cs |-> m.cs, T |-> y]
  <2> HIDE DEF t
  <2> QED BY <1>1
<1>3. Push(m1, f) = P
  <2> HIDE DEF y, f, m1
  <2> QED BY <1>2 DEF Push
<1>4. y[co] = t
  <2> HIDE DEF t
  <2> QED BY <1>1
<1>5. t1 = [t0 EXCEPT !.nCcalls = w, !.baseCcalls = w, !.errorJmp = j, !.top = t0.top]
  <2> HIDE DEF v, t0, w, j
  <2> QED BY <1>1 DEF lua_State
<1>6. f = ResumeOf(co, L, wrap, t0)
  <2>1. t.errorJmp = t0.errorJmp
    <3> HIDE DEF v, t0
    <3> QED BY <1>1 DEF lua_State
  <2> QED BY <2>1 DEF ResumeOf
<1>7. [P EXCEPT !.T[co].nCcalls = w, !.T[co].baseCcalls = w, !.T[co].errorJmp = j]
        = [P EXCEPT !.T[co] = [y[co] EXCEPT !.nCcalls = w, !.baseCcalls = w, !.errorJmp = j]]
  <2> HIDE DEF w, j, c, t
  <2>1. co \in DOMAIN y
    BY <1>1
  <2> HIDE DEF y
  <2> QED BY <2>1
<1>8. [P EXCEPT !.T[co] = t1] = [cs |-> c, T |-> [y EXCEPT ![co] = t1]]
  <2> HIDE DEF c, y, t1
  <2> QED BY AtRecord
<1>9. [y EXCEPT ![co] = t1] = [m.T EXCEPT ![co] = t1]
  <2> HIDE DEF t, t1
  <2> QED BY <1>1
<1>10. Begun(m, L, co, wrap, t0.top) = [cs |-> c, T |-> [m.T EXCEPT ![co] = t1]]
  <2>1. Begun(m, L, co, wrap, t0.top)
          = Pushed(m, ResumeOf(co, L, wrap, t0), co,
                   [t0 EXCEPT !.nCcalls = w, !.baseCcalls = w, !.errorJmp = j, !.top = t0.top])
    BY DEF Begun
  <2> HIDE DEF f, t1
  <2> QED BY <2>1, <1>5, <1>6 DEF Pushed
<1>11. [y[co] EXCEPT !.nCcalls = w, !.baseCcalls = w, !.errorJmp = j] = t1
  <2> HIDE DEF y, t, w, j
  <2> QED BY <1>4 DEF t1
<1>12. [Push(m1, f) EXCEPT !.T[co].nCcalls = w, !.T[co].baseCcalls = w, !.T[co].errorJmp = j]
         = Begun(m, L, co, wrap, t0.top)
  <2> HIDE DEF f, t1, w, j, m1, P, c, y, t0, t
  <2> QED BY <1>3, <1>7, <1>8, <1>9, <1>10, <1>11
<1> QED BY <1>12

LEMMA PushOf ==
  ASSUME NEW c, NEW x, NEW f
  PROVE  Push([cs |-> c, T |-> x], f) = [cs |-> Append(c, f), T |-> x]
BY DEF Push

\* resume starts the coroutine: its function leaves the stack.
LEMMA TakesFunction ==
  ASSUME NEW m \in Machine, NEW L, NEW co \in Threads, NEW wrap, NEW x
  PROVE  [Begun(m, L, co, wrap, x) EXCEPT !.T[co].top = "none"] = Begun(m, L, co, wrap, "none")
<1> DEFINE v  == m.T[L].nCcalls + 1
           j  == Len(m.cs) + 1
           t0 == m.T[co]
           t(z) == [t0 EXCEPT !.nCcalls = v, !.baseCcalls = v, !.errorJmp = j, !.top = z]
           c  == Append(m.cs, ResumeOf(co, L, wrap, t0))
           y  == [m.T EXCEPT ![co] = t(x)]
           P  == [cs |-> c, T |-> y]
<1>1. m.T \in [Threads -> lua_State] /\ t0 \in lua_State
  BY DEF Machine
<1>2. Begun(m, L, co, wrap, x) = P
  BY DEF Begun, Pushed
<1>3. Begun(m, L, co, wrap, "none") = [cs |-> c, T |-> [m.T EXCEPT ![co] = t("none")]]
  BY DEF Begun, Pushed
<1>4. [P EXCEPT !.T[co].top = "none"] = [P EXCEPT !.T[co] = [y[co] EXCEPT !.top = "none"]]
  <2> HIDE DEF c, y
  <2> QED OBVIOUS
<1>5. y[co] = t(x)
  <2> HIDE DEF t
  <2> QED BY <1>1
<1>6. [t(x) EXCEPT !.top = "none"] = t("none")
  <2> HIDE DEF v, j, t0
  <2> QED BY <1>1 DEF lua_State
<1>7. [P EXCEPT !.T[co] = t("none")] = [cs |-> c, T |-> [y EXCEPT ![co] = t("none")]]
  <2> HIDE DEF c, y, t
  <2> QED BY AtRecord
<1>8. [y EXCEPT ![co] = t("none")] = [m.T EXCEPT ![co] = t("none")]
  <2> HIDE DEF t
  <2> QED BY <1>1
<1> HIDE DEF P, c, y, t
<1> QED BY <1>2, <1>3, <1>4, <1>5, <1>6, <1>7, <1>8

\* lua_resume goes on.
LEMMA ResumedSafe ==
  ASSUME NEW m, NEW p, NEW L, Safe(m, p), m.cs # <<>>, L = m.cs[Len(m.cs)].L,
         m.cs[Len(m.cs)].k = "cfun", Len(m.cs) # 1,
         NEW co \in Threads, Dormant(L, co, m.T[co]), NEW wrap \in BOOLEAN,
         m.T[L].nCcalls < MAXCCALLS
  PROVE  Safe(Resumed(Begun(m, L, co, wrap, m.T[co].top), co), p)
<1> DEFINE t0 == m.T[co]
           b  == Begun(m, L, co, wrap, t0.top)
           b0 == Begun(m, L, co, wrap, "none")
<1>1. /\ Safe(b, p) /\ b.cs # <<>> /\ b.cs[Len(b.cs)].k = "resume"
      /\ b.cs[Len(b.cs)].L = co
      /\ b.T[co].status = t0.status /\ b.T[co].ended = t0.ended
      /\ b.T[co].ci = t0.ci /\ b.T[co].top = t0.top
      /\ \E h \in Seq(Level) : Good(b, h, p) /\ h[Len(h)] = 1 /\ h # <<>>
  <2>1. BegunOK(m, b, co, t0.top, p)
    BY BegunGood
  <2> HIDE DEF b
  <2> QED BY <2>1 DEF BegunOK
<1>2. /\ Safe(b0, p) /\ b0.cs # <<>> /\ b0.cs[Len(b0.cs)].k = "resume"
      /\ b0.cs[Len(b0.cs)].L = co
      /\ b0.T[co].status = t0.status /\ b0.T[co].ended = t0.ended
  <2>1. BegunOK(m, b0, co, "none", p)
    BY BegunGood
  <2> HIDE DEF b0
  <2> QED BY <2>1 DEF BegunOK
<1>3. m \in Machine /\ \E h \in Seq(Level) : Good(m, h, p)
  BY DEF Safe, Sound
<1>4. co # MainThread /\ IdleOK(co, t0, p)
  BY <1>3, NoFrame
<1>5. t0 \in lua_State /\ t0.status \in {OK, YIELD} /\ co # L
  BY <1>3 DEF Machine, Dormant
<1>6. [b EXCEPT !.T[co].top = "none"] = b0
  BY <1>3, TakesFunction
<1> HIDE DEF t0, b, b0
<1>7. CASE t0.status = OK /\ t0.top = "function"
  <2>1. CanRun(b0, co) /\ ~b0.T[co].ended /\ Sound(b0, p) /\ Within(b0.cs, Limit) /\ Limit \in Nat
    <3>1. ~t0.ended
      BY <1>4, <1>7 DEF IdleOK
    <3> QED BY <3>1, <1>2, <1>7, BoundedIs, LimitType DEF CanRun, Safe
  <2>2. TRUE \in BOOLEAN /\ "lua" \in {"lua", "C"} /\ b0.cs[Len(b0.cs)].k \in {"exec", "call", "resume"}
        /\ (b0.cs[Len(b0.cs)].k = "exec" <=> TRUE = FALSE)
    BY <1>2
  <2>3. /\ Sound(Enter(b0, co, "lua", TRUE), p)
        /\ \A d \in Nat : Within(b0.cs, d) => Within(Enter(b0, co, "lua", TRUE).cs, d)
    BY <2>1, <2>2, EnterGood
  <2>4. Safe(Enter(b0, co, "lua", TRUE), p)
    BY <2>1, <2>3, BoundedIs DEF Safe
  <2>5. Resumed(b, co) = Enter(b0, co, "lua", TRUE)
    BY <1>1, <1>6, <1>7 DEF Resumed
  <2> QED BY <2>4, <2>5 DEF t0, b
<1>8. CASE t0.status = OK /\ t0.top # "function"
  <2>1. CanRun(b, co)
    BY <1>1, <1>8 DEF CanRun
  <2>2. Safe(Raise(b, co), p)
    BY <2>1, <1>1, RaiseSafe
  <2>3. Resumed(b, co) = Raise(b, co)
    BY <1>1, <1>8 DEF Resumed
  <2> QED BY <2>2, <2>3 DEF t0, b
<1>9. CASE t0.status = YIELD
  <2> DEFINE t == b.T[co]
             c == SubSeq(t.ci, 1, Len(t.ci) - 1)
             t1 == [t EXCEPT !.status = OK, !.ci = c]
             f == Exec(co, 1)
             e == Pushed(b, f, co, t1)
  <2>1. PICK h \in Seq(Level) : Good(b, h, p) /\ h[Len(h)] = 1 /\ h # <<>>
    BY <1>1
  <2>2. b \in Machine /\ Within(b.cs, Limit) /\ Limit \in Nat
    BY <1>1, BoundedIs, LimitType DEF Safe, Sound
  <2>3. t \in lua_State /\ SizeOK(t) /\ b.cs \in Seq(Frame) /\ b.T \in [Threads -> lua_State]
        /\ t.ci \in Seq({"lua", "C"}) /\ t.nCcalls \in Nat /\ t.size_ci \in Nat
    <3>1. t \in lua_State /\ SizeOK(t) /\ b.cs \in Seq(Frame) /\ b.T \in [Threads -> lua_State]
      BY <2>1, <2>2 DEF Machine, Good
    <3> QED BY <3>1, StateType
  <2>4. Parked(t.ci) /\ ~t.ended /\ t.status = YIELD
    BY <1>1, <1>4, <1>9 DEF IdleOK
  <2>5. f \in Frame /\ f.k = "exec" /\ f.L = co /\ f.base = 1
    BY DEF Exec, Frame
  <2>6. Resumed(b, co) = Push([b EXCEPT !.T[co] = t1], f)
    BY <2>4 DEF Resumed, OK, YIELD
  <2>7. Push([b EXCEPT !.T[co] = t1], f) = e
    <3> HIDE DEF t1, f
    <3>1. b = [cs |-> b.cs, T |-> b.T]
      BY <2>2 DEF Machine
    <3>2. [b EXCEPT !.T[co] = t1] = [cs |-> b.cs, T |-> [b.T EXCEPT ![co] = t1]]
      BY <3>1
    <3> QED BY <3>2, PushOf DEF Pushed
  <2>8. t = b.T[co] /\ c = SubSeq(t.ci, 1, Len(t.ci) - 1) /\ t1 = [t EXCEPT !.status = OK, !.ci = c]
    OBVIOUS
  <2>9. e.cs = Append(b.cs, f)
    BY DEF Pushed
  <2> HIDE DEF t, c, t1, f, e
  <2>10. Len(t.ci) > 2 /\ Len(t.ci) \in Nat /\ Len(t.ci) - 1 \in 0..Len(t.ci)
    BY <2>3, <2>4 DEF Parked
  <2>11. /\ c \in Seq({"lua", "C"}) /\ Len(c) = Len(t.ci) - 1
         /\ \A q \in 1..Len(t.ci) - 1 : c[q] = t.ci[q]
    <3>1. LET s == SubSeq(t.ci, 1, Len(t.ci) - 1)
          IN  /\ s \in Seq({"lua", "C"}) /\ Len(s) = Len(t.ci) - 1
              /\ \A q \in 1..Len(t.ci) - 1 : s[q] = t.ci[q]
      BY <2>3, <2>10, Prefix
    <3> QED BY <3>1, <2>8
  <2>12. /\ t1 \in lua_State /\ t1.nCcalls = t.nCcalls /\ t1.ended = t.ended /\ t1.status = OK
         /\ t1.baseCcalls = t.baseCcalls /\ t1.ci = c /\ t1.size_ci = t.size_ci
         /\ t1.allowhook = t.allowhook /\ t1.errfunc = t.errfunc /\ t1.errorJmp = t.errorJmp
         /\ t1.top = t.top
    <3>1. t1 = [t EXCEPT !.status = OK, !.ci = c] /\ t \in lua_State /\ c \in Seq({"lua", "C"})
      BY <2>3, <2>8, <2>11
    <3> HIDE DEF Dormant
    <3> QED BY <3>1 DEF lua_State
  <2>13. SizeOK(t1)
    <3>1. Len(t.ci) <= t.size_ci /\ t.size_ci <= 2 * MAXCALLS /\ (t.top = "values" => "manyresults" \in Uses)
      BY <2>3 DEF SizeOK
    <3>2. Len(c) \in 1..t.size_ci
      BY <3>1, <2>3, <2>10, <2>11
    <3> QED BY <3>1, <3>2, <2>12 DEF SizeOK
  <2>14. ASSUME NEW q \in 1..Len(c) PROVE c[q] = IF q <= 1 THEN t.ci[q] ELSE "lua"
    <3>1. c[q] = t.ci[q] /\ q \in 1..Len(t.ci) /\ q # Len(t.ci)
      BY <2>10, <2>11
    <3>2. t.ci[q] \in {"lua", "C"}
      BY <2>3, <3>1
    <3>3. q \in 2..Len(t.ci) => t.ci[q] # "C"
      BY <3>1, <2>4 DEF Parked
    <3>4. q <= 1 \/ q \in 2..Len(t.ci)
      BY <2>10, <3>1
    <3> QED BY <3>1, <3>2, <3>3, <3>4
  <2>15. Saves(f, t)
    BY <2>5 DEF Saves
  <2>16. Sets(f, Len(b.cs) + 1, t, t1)
    <3>1. t1.nCcalls = t.nCcalls + 0
      BY <2>3, <2>12
    <3>2. f.k \notin Counted /\ f.k \notin Landing
      BY <2>5 DEF Counted, Landing
    <3> QED BY <3>1, <3>2, <2>5, <2>12 DEF Sets
  <2>17. f.L = b.cs[Len(b.cs)].L /\ f.k \in Above(b.cs[Len(b.cs)]) /\ t = b.T[f.L]
    BY <1>1, <2>5, <2>8 DEF Above
  <2>18. /\ f.base = h[Len(h)] /\ f.base < Len(t1.ci)
         /\ \A q \in 1..Len(t1.ci) : t1.ci[q] = IF q <= f.base THEN b.T[f.L].ci[q] ELSE "lua"
    <3>1. f.base < Len(t1.ci)
      BY <2>5, <2>10, <2>11, <2>12
    <3> QED BY <3>1, <2>1, <2>5, <2>12, <2>14, <2>17
  <2>19. /\ Pushed(b, f, f.L, t1) \in Machine
         /\ \E g \in Seq(Level) : Good(Pushed(b, f, f.L, t1), g, p)
    <3>1. ~t1.ended
      BY <2>4, <2>12
    <3>2. b.cs # <<>>
      BY <1>1
    <3>3. Saves(f, b.T[f.L]) /\ Sets(f, Len(b.cs) + 1, b.T[f.L], t1)
      BY <2>15, <2>16, <2>17
    <3>4. Enters(f, h[Len(h)], b.T[f.L], t1)
      BY <2>18 DEF Enters
    <3> QED BY <3>1, <3>2, <3>3, <3>4, <2>1, <2>2, <2>5, <2>12, <2>13, <2>17, PushGood
  <2>20. Within(Append(b.cs, f), Limit)
    <3>1. f.k \notin Counted
      BY <2>5 DEF Counted
    <3> QED BY <3>1, <1>1, <2>2, <2>3, <2>5, WithinPush
  <2>21. Safe(e, p)
    BY <2>5, <2>9, <2>19, <2>20, BoundedIs DEF Safe, Sound, e
  <2> QED BY <2>6, <2>7, <2>21 DEF t0, b
<1> QED BY <1>5, <1>7, <1>8, <1>9

LEMMA Pred2 ==
  ASSUME NEW n \in Nat \ {0, 1}, n - 1 # 1, n - 2 # 1
  PROVE  /\ n - 2 \in Nat \ {0, 1} /\ n - 2 <= n /\ (n - 2) - 1 = n - 3
         /\ n - 2 > 0 /\ n - 2 \in 1..n
OBVIOUS

\* Two frames of a thread at the depth of its lua_resume: no call is between them.
LEMMA NoCall ==
  ASSUME NEW cs, NEW n \in Nat \ {0, 1}, NEW b \in Nat,
         b <= Depth(cs, n - 1), Depth(cs, n) <= b
  PROVE  cs[n].k \notin Counted /\ Depth(cs, n - 1) = b /\ Depth(cs, n) = b
<1>1. Depth(cs, n) = Depth(cs, n - 1) + IF cs[n].k \in Counted THEN 1 ELSE 0
  BY DepthStep
<1>2. Depth(cs, n - 1) \in Nat /\ Depth(cs, n) \in Nat
  BY DepthType
<1> QED BY <1>1, <1>2

\* The frame below one that is not a lua_resume is of the same thread.
LEMMA BelowOK ==
  ASSUME NEW m \in Machine, NEW h \in Seq(Level), NEW p, Good(m, h, p),
         NEW n \in Nat \ {0, 1}, n <= Len(m.cs), m.cs[n].k # "resume"
  PROVE  LET L == m.cs[n].L
         IN  /\ m.cs[n - 1].L = L /\ m.cs[n - 1] \in Frame /\ h[n - 1] \in Level
             /\ FrameOK(m.cs, m.T[L], h, p, n - 1)
             /\ m.cs[n].k \in Above(m.cs[n - 1])
<1>1. m.cs \in Seq(Frame) /\ Len(h) = Len(m.cs) /\ Len(m.cs) \in Nat
  BY DEF Machine, Good
<1>2. n - 1 \in 1..Len(m.cs) /\ n \in 1..Len(m.cs) /\ n - 1 <= n /\ n > 1
  BY <1>1
<1>3. m.cs[n - 1].L = m.cs[n].L
  <2>1. \A l \in (n - 1) + 1..n : m.cs[l].k # "resume"
    <3>1. \A l \in (n - 1) + 1..n : l = n
      OBVIOUS
    <3> QED BY <3>1
  <2> QED BY <2>1, <1>2 DEF Good, Threaded
<1>4. m.cs[n - 1] \in Frame /\ h[n - 1] \in Level
  BY <1>1, <1>2
<1>5. FrameOK(m.cs, m.T[m.cs[n - 1].L], h, p, n - 1) /\ FrameOK(m.cs, m.T[m.cs[n].L], h, p, n)
  BY <1>2 DEF Good
<1>6. m.cs[n].k \in Above(m.cs[n - 1])
  BY <1>2, <1>5 DEF FrameOK
<1> QED BY <1>3, <1>4, <1>5, <1>6

\* What lua_yield may leave: its C function, the luaV_execute that called it and the
\* lua_resume of the coroutine.
Yields(m, h, p, n, L) ==
  /\ n - 2 > 0 /\ n - 2 \in 1..Len(m.cs) /\ n - 1 \in Nat \ {0, 1}
  /\ m.cs[n].k = "cfun" /\ m.cs[n - 1].k = "exec" /\ m.cs[n - 2].k = "resume"
  /\ m.cs[n - 1].L = L /\ m.cs[n - 2].L = L
  /\ Depth(m.cs, n - 2) = Depth(m.cs, n)
  /\ LevelOK(m.cs, m.T[L], h, n) /\ LevelOK(m.cs, m.T[L], h, n - 1)
  /\ h[n - 2] = 1 /\ h[n - 1] \in Level

LEMMA YieldFrames ==
  ASSUME NEW m \in Machine, NEW h \in Seq(Level), NEW p, Good(m, h, p), m.cs # <<>>,
         NEW n, n = Len(m.cs), n \in Nat \ {0, 1}, m.cs[n].k = "cfun",
         NEW L, L = m.cs[n].L, m.T[L].nCcalls <= m.T[L].baseCcalls
  PROVE  Yields(m, h, p, n, L)
<1> DEFINE t == m.T[L]
           b == t.baseCcalls
<1>1. /\ t \in lua_State /\ LastOK(m.cs, t, h, p, n) /\ FrameOK(m.cs, t, h, p, n)
      /\ m.cs \in Seq(Frame)
  BY TopOK
<1>2. b \in Nat /\ t.nCcalls = Depth(m.cs, n) /\ Depth(m.cs, n) <= b /\ b = t.baseCcalls /\ t = m.T[L]
  BY <1>1, StateType DEF LastOK
<1> HIDE DEF t, b
<1>3. /\ m.cs[n - 1].L = L /\ m.cs[n - 1] \in Frame /\ h[n - 1] \in Level
      /\ FrameOK(m.cs, t, h, p, n - 1) /\ "cfun" \in Above(m.cs[n - 1])
  <2>1. n <= Len(m.cs) /\ m.cs[n].k # "resume"
    OBVIOUS
  <2> QED BY <2>1, <1>2, BelowOK
<1>4. Depth(m.cs, n - 1) = b /\ Depth(m.cs, n) = b
  <2>1. b <= Depth(m.cs, n - 1)
    BY <1>2, <1>3 DEF FrameOK
  <2>2. b \in Nat /\ Depth(m.cs, n) <= b
    BY <1>2
  <2> QED BY <2>1, <2>2, NoCall
<1>5. m.cs[n - 1].k \in {"exec", "call"}
  BY <1>3, AboveType
<1>6. n - 1 # 1
  BY <1>3, <1>5 DEF FrameOK
<1>7. n - 1 \in Nat \ {0, 1} /\ n - 1 <= Len(m.cs) /\ m.cs[n - 1].k # "resume" /\ (n - 1) - 1 = n - 2
  BY <1>5, <1>6
<1>8. /\ m.cs[n - 2].L = L /\ m.cs[n - 2] \in Frame /\ h[n - 2] \in Level
      /\ FrameOK(m.cs, t, h, p, n - 2) /\ m.cs[n - 1].k \in Above(m.cs[n - 2])
  BY <1>2, <1>3, <1>7, BelowOK
<1>9. m.cs[n - 1].k \notin Counted /\ Depth(m.cs, n - 2) = b
  <2>1. b <= Depth(m.cs, n - 2)
    BY <1>2, <1>8 DEF FrameOK
  <2>2. Depth(m.cs, n - 1) <= b
    BY <1>2, <1>4
  <2>3. b <= Depth(m.cs, (n - 1) - 1)
    BY <2>1, <1>7
  <2>4. n - 1 \in Nat \ {0, 1} /\ b \in Nat
    BY <1>2, <1>7
  <2>5. m.cs[n - 1].k \notin Counted /\ Depth(m.cs, (n - 1) - 1) = b
    BY <2>2, <2>3, <2>4, NoCall
  <2> QED BY <2>5, <1>7
<1>10. m.cs[n - 1].k = "exec"
  BY <1>5, <1>9 DEF Counted
<1>11. m.cs[n - 2].k \in {"call", "resume"}
  BY <1>8, <1>10, AboveType
<1>12. n - 2 # 1
  BY <1>8, <1>11 DEF FrameOK
<1>13. n - 2 \in Nat \ {0, 1} /\ n - 2 <= Len(m.cs) /\ (n - 2) - 1 = n - 3
  BY <1>6, <1>12, Pred2
<1>14. m.cs[n - 2].k = "resume"
  <2>1. SUFFICES ASSUME m.cs[n - 2].k = "call" PROVE FALSE
    BY <1>11
  <2>2. m.cs[n - 2].k # "resume" /\ m.cs[n - 2].k \in Counted
    BY <2>1 DEF Counted
  <2>3. FrameOK(m.cs, t, h, p, n - 3)
    BY <2>2, <1>2, <1>8, <1>13, BelowOK
  <2>4. b <= Depth(m.cs, n - 3)
    BY <2>3, <1>2 DEF FrameOK
  <2>5. Depth(m.cs, n - 2) <= b
    BY <1>2, <1>9
  <2> QED BY <2>2, <2>4, <2>5, <1>2, <1>13, NoCall
<1>15. LevelOK(m.cs, t, h, n) /\ LevelOK(m.cs, t, h, n - 1) /\ h[n - 2] = 1
  <2>1. LevelOK(m.cs, t, h, n - 2) /\ LevelOK(m.cs, t, h, n) /\ LevelOK(m.cs, t, h, n - 1)
    BY <1>1, <1>3, <1>8 DEF FrameOK
  <2> QED BY <2>1, <1>14 DEF LevelOK
<1>16. n - 2 > 0 /\ n - 2 \in 1..Len(m.cs)
  BY <1>6, <1>12, Pred2
<1> QED BY <1>2, <1>3, <1>4, <1>7, <1>8, <1>9, <1>10, <1>14, <1>15, <1>16 DEF Yields

\* lua_yield.
LEMMA YieldSafe ==
  ASSUME NEW m, NEW p, Safe(m, p), m.cs # <<>>, m.cs[Len(m.cs)].k = "cfun",
         ~(Len(m.cs) = 1 /\ p = "run"),
         NEW L, L = m.cs[Len(m.cs)].L, m.T[L].nCcalls <= m.T[L].baseCcalls
  PROVE  Safe([cs |-> SubSeq(m.cs, 1, Len(m.cs) - 2), T |-> [m.T EXCEPT ![L].status = YIELD]], p)
<1> DEFINE n == Len(m.cs)
           t == m.T[L]
           t1 == [t EXCEPT !.status = YIELD]
<1>1. PICK h \in Seq(Level) : m \in Machine /\ Good(m, h, p)
  BY DEF Safe, Sound
<1>2. /\ t \in lua_State /\ SizeOK(t) /\ L \in Threads /\ h[n] \in Level
      /\ LastOK(m.cs, t, h, p, n) /\ m.cs \in Seq(Frame) /\ m.T \in [Threads -> lua_State]
  BY <1>1, TopOK
<1>3. n \in Nat \ {0, 1}
  BY <1>1, NotHost
<1>4. h[n] = Len(t.ci) /\ t.status = OK /\ t.ended = FALSE
  BY <1>1, TopRuns
<1>5. Yields(m, h, p, n, L)
  BY <1>1, <1>3, YieldFrames
<1>6. [cs |-> SubSeq(m.cs, 1, n - 2), T |-> [m.T EXCEPT ![L].status = YIELD]]
        = CutTo(m, n - 2, L, t1)
  BY DEF CutTo
<1>7. t = m.T[L] /\ n = Len(m.cs) /\ t1 = [t EXCEPT !.status = YIELD] /\ Bounded(m.cs)
      /\ L = m.cs[n].L
  BY DEF Safe
<1> HIDE DEF n, t, t1
<1>8. /\ n - 2 > 0 /\ n - 2 \in 1..Len(m.cs) /\ n - 1 \in Nat \ {0, 1}
      /\ m.cs[n].k = "cfun" /\ m.cs[n - 1].k = "exec" /\ m.cs[n - 2].k = "resume"
      /\ m.cs[n - 1].L = L /\ m.cs[n - 2].L = L
      /\ Depth(m.cs, n - 2) = Depth(m.cs, n)
      /\ LevelOK(m.cs, t, h, n) /\ LevelOK(m.cs, t, h, n - 1)
      /\ h[n - 2] = 1 /\ h[n - 1] \in Level
  BY <1>5, <1>7 DEF Yields
<1>9. /\ t1 \in lua_State /\ t1.nCcalls = t.nCcalls /\ t1.ended = t.ended /\ t1.status = YIELD
      /\ t1.baseCcalls = t.baseCcalls /\ t1.ci = t.ci /\ t1.size_ci = t.size_ci
      /\ t1.allowhook = t.allowhook /\ t1.errfunc = t.errfunc /\ t1.errorJmp = t.errorJmp
      /\ t1.top = t.top
  BY <1>2, <1>7 DEF lua_State
<1>10. (n - 1) - 1 = n - 2
  BY <1>3
<1>11. /\ \A j : LandingAt(m.cs, n, j) => LandingAt(m.cs, n - 2, j)
       /\ \A ef : HandlerAt(m.cs, n, ef) => HandlerAt(m.cs, n - 2, ef)
       /\ \A ah : HookAt(m.cs, n, ah, p) => HookAt(m.cs, n - 2, ah, p)
  <2>1. /\ \A j : LandingAt(m.cs, n, j) => LandingAt(m.cs, n - 1, j)
        /\ \A ef : HandlerAt(m.cs, n, ef) => HandlerAt(m.cs, n - 1, ef)
        /\ \A ah : HookAt(m.cs, n, ah, p) => HookAt(m.cs, n - 1, ah, p)
    <3>1. m.cs[n - 1].L = m.cs[n].L /\ m.cs[n].k \notin Landing /\ m.cs[n].k # "pcall"
          /\ m.cs[n].k \notin {"hook", "gctm"}
      BY <1>7, <1>8 DEF Landing
    <3> QED BY <3>1, <1>3, AtPop
  <2>2. /\ \A j : LandingAt(m.cs, n - 1, j) => LandingAt(m.cs, n - 2, j)
        /\ \A ef : HandlerAt(m.cs, n - 1, ef) => HandlerAt(m.cs, n - 2, ef)
        /\ \A ah : HookAt(m.cs, n - 1, ah, p) => HookAt(m.cs, n - 2, ah, p)
    <3>1. m.cs[(n - 1) - 1].L = m.cs[n - 1].L /\ m.cs[n - 1].k \notin Landing /\ m.cs[n - 1].k # "pcall"
          /\ m.cs[n - 1].k \notin {"hook", "gctm"}
      BY <1>8, <1>10 DEF Landing
    <3>2. /\ \A j : LandingAt(m.cs, n - 1, j) => LandingAt(m.cs, (n - 1) - 1, j)
          /\ \A ef : HandlerAt(m.cs, n - 1, ef) => HandlerAt(m.cs, (n - 1) - 1, ef)
          /\ \A ah : HookAt(m.cs, n - 1, ah, p) => HookAt(m.cs, (n - 1) - 1, ah, p)
      BY <3>1, <1>8, AtPop
    <3> QED BY <3>2, <1>10
  <2> QED BY <2>1, <2>2
<1>12. Parked(t.ci)
  <2>1. h[n] = h[n - 1] + 1 /\ t.ci[h[n]] = "C"
    BY <1>3, <1>8 DEF LevelOK
  <2>2. /\ m.cs[n - 1].base = h[(n - 1) - 1] /\ m.cs[n - 1].base < h[n - 1]
        /\ \A q \in m.cs[n - 1].base + 1..h[n - 1] : t.ci[q] = "lua"
    <3>1. n - 1 > 1
      BY <1>8, Pred
    <3> QED BY <3>1, <1>8 DEF LevelOK
  <2>3. h[n - 1] > 1 /\ h[n - 1] \in Nat /\ \A q \in 2..h[n - 1] : t.ci[q] = "lua"
    <3>1. m.cs[n - 1].base = 1
      BY <2>2, <1>8, <1>10
    <3> QED BY <3>1, <2>2, <1>8 DEF Level
  <2>4. Len(t.ci) = h[n - 1] + 1 /\ Len(t.ci) > 2
    BY <2>1, <2>3, <1>4
  <2>5. ASSUME NEW q \in 2..Len(t.ci) PROVE t.ci[q] = "C" <=> q = Len(t.ci)
    <3>1. q \in 2..h[n - 1] \/ q = h[n - 1] + 1
      BY <2>3, <2>4
    <3>2. q \in 2..h[n - 1] => q # Len(t.ci) /\ t.ci[q] = "lua"
      BY <2>3, <2>4
    <3>3. t.ci[Len(t.ci)] = "C"
      BY <2>1, <1>4
    <3> QED BY <3>1, <3>2, <3>3, <2>4
  <2> QED BY <2>4, <2>5 DEF Parked
<1>13. Fits(m.cs, t1, h[n - 2], p, n - 2)
  <2>1. t.nCcalls = Depth(m.cs, n) /\ LandingAt(m.cs, n, t.errorJmp) /\ HandlerAt(m.cs, n, t.errfunc)
        /\ HookAt(m.cs, n, t.allowhook, p)
    BY <1>2, <1>4 DEF LastOK
  <2> QED BY <2>1, <1>4, <1>8, <1>9, <1>11, <1>12 DEF Fits
<1>14. \A i \in (n - 2) + 1..Len(m.cs) : m.cs[i].k # "resume"
  <2>1. ASSUME NEW i \in (n - 2) + 1..n PROVE i = n - 1 \/ i = n
    BY <1>3
  <2>2. m.cs[n].k # "resume" /\ m.cs[n - 1].k # "resume"
    BY <1>8
  <2> QED BY <2>1, <2>2, <1>7
<1>15. \A q \in 1..h[n - 2] : t1.ci[q] = m.T[L].ci[q]
  BY <1>7, <1>9
<1>16. SizeOK(t1)
  BY <1>2, <1>9 DEF SizeOK
<1>17. Sound(CutTo(m, n - 2, L, t1), p)
  <2>1. t1.baseCcalls = m.T[L].baseCcalls /\ t1.ended = m.T[L].ended /\ L = m.cs[Len(m.cs)].L
    BY <1>7, <1>9
  <2> QED BY <2>1, <1>1, <1>2, <1>8, <1>9, <1>13, <1>14, <1>15, <1>16, CutGood DEF Sound
<1>18. Bounded(SubSeq(m.cs, 1, n - 2))
  <2>0. n = Len(m.cs) /\ n - 2 > 0
    BY <1>7, <1>8
  <2>1. n - 2 \in 0..Len(m.cs) /\ \A i \in 1..n - 2 : i \in 1..Len(m.cs)
    BY <2>0, <1>3
  <2>2. \A i \in 1..n - 2 : Depth(m.cs, i) <= Limit
    BY <2>1, <1>7 DEF Bounded, Limit
  <2>3. Within(SubSeq(m.cs, 1, n - 2), Limit)
    BY <2>1, <2>2, <1>2, WithinPrefix
  <2> QED BY <2>3, BoundedIs
<1>19. CutTo(m, n - 2, L, t1).cs = SubSeq(m.cs, 1, n - 2)
  BY DEF CutTo
<1>20. Safe(CutTo(m, n - 2, L, t1), p)
  BY <1>17, <1>18, <1>19 DEF Safe
<1> QED BY <1>6, <1>20 DEF n

\* The end of lua_resume without an error, and of auxresume.
LEMMA ResumeReturnsSafe ==
  ASSUME NEW m, NEW p, Safe(m, p), m.cs # <<>>, m.cs[Len(m.cs)].k = "resume",
         NEW many \in BOOLEAN, many => "manyresults" \in Uses
  PROVE  LET f  == m.cs[Len(m.cs)]
             m1 == [Pop(m) EXCEPT !.T[f.L].errorJmp = Previous(f),
                                  !.T[f.L].nCcalls = @ - 1,
                                  !.T[f.L].top = IF many THEN "values" ELSE "none",
                                  !.T[f.L].ended = m.T[f.L].status = OK]
         IN  Safe(IF many THEN Raise(m1, f.from) ELSE m1, p)
<1> DEFINE n == Len(m.cs)
           f == m.cs[n]
           L == f.L
           t == m.T[L]
           d == t.nCcalls - 1
           x == IF many THEN "values" ELSE "none"
           e == t.status = OK
           t1 == [t EXCEPT !.errorJmp = f.prev, !.nCcalls = d, !.top = x, !.ended = e]
           m1 == [Pop(m) EXCEPT !.T[L].errorJmp = Previous(f), !.T[L].nCcalls = @ - 1,
                                !.T[L].top = x, !.T[L].ended = e]
           c == CutTo(m, n - 1, L, t1)
<1>1. PICK h \in Seq(Level) : m \in Machine /\ Good(m, h, p)
  BY DEF Safe, Sound
<1>2. /\ n \in Nat \ {0} /\ t \in lua_State /\ SizeOK(t) /\ L \in Threads /\ f \in Frame
      /\ LastOK(m.cs, t, h, p, n) /\ FrameOK(m.cs, t, h, p, n) /\ Len(h) = n
      /\ m.T \in [Threads -> lua_State] /\ m.cs \in Seq(Frame)
  BY <1>1, TopOK
<1>3. m1 = c
  <2> DEFINE s == SubSeq(m.cs, 1, n - 1)
             y == m.T
             P == [cs |-> s, T |-> y]
             v == f.prev
  <2>1. Pop(m) = P
    BY <1>1, PopRecord
  <2>2. [P EXCEPT !.T[L].errorJmp = v, !.T[L].nCcalls = @ - 1, !.T[L].top = x, !.T[L].ended = e]
          = [P EXCEPT !.T[L] = [y[L] EXCEPT !.errorJmp = v, !.nCcalls = @ - 1, !.top = x,
                                            !.ended = e]]
    <3>1. y \in [Threads -> lua_State] /\ L \in Threads
      BY <1>2
    <3> HIDE DEF s, y, L, v, x, e
    <3> QED BY <3>1
  <2>3. [y[L] EXCEPT !.errorJmp = v, !.nCcalls = @ - 1, !.top = x, !.ended = e] = t1
    <3> HIDE DEF v, x, e
    <3>1. y[L] = t /\ t \in lua_State
      BY <1>2
    <3>2. [t EXCEPT !.errorJmp = v, !.nCcalls = @ - 1, !.top = x, !.ended = e]
            = [t EXCEPT !.errorJmp = v, !.nCcalls = t.nCcalls - 1, !.top = x, !.ended = e]
      BY <3>1 DEF lua_State
    <3> QED BY <3>1, <3>2 DEF v
  <2>4. [P EXCEPT !.T[L] = t1] = [cs |-> s, T |-> [y EXCEPT ![L] = t1]]
    <3> HIDE DEF s, y, t1, L
    <3> QED BY AtRecord
  <2>5. Previous(f) = v
    BY DEF Previous
  <2>6. c = [cs |-> s, T |-> [y EXCEPT ![L] = t1]]
    BY DEF CutTo
  <2> HIDE DEF s, y, P, v, L, x, e, t1, c
  <2> QED BY <2>1, <2>2, <2>3, <2>4, <2>5, <2>6
<1>35. /\ t.errfunc = 0
       /\ c.cs = SubSeq(m.cs, 1, n - 1)
  <2>1. LET z == m.T[m.cs[n].L]
            l == z.errorJmp
        IN  /\ l \in 0..n
            /\ l # 0 => (m.cs[l].k # "pcall" => z.errfunc = 0)
            /\ l = 0 => z.errfunc = 0
            /\ \A i \in l + 1..n : m.cs[i].k \notin Landing
    BY <1>1, Landed
  <2>2. t.errorJmp = n
    <3>1. t.errorJmp \in 0..n /\ \A i \in t.errorJmp + 1..n : m.cs[i].k \notin Landing
      BY <2>1
    <3>2. m.cs[n].k \in Landing
      BY DEF Landing
    <3> HIDE DEF t
    <3> QED BY <3>1, <3>2, <1>2
  <2>3. t.errfunc = 0
    BY <2>1, <2>2, <1>2
  <2> QED BY <2>3 DEF CutTo
<1>4. /\ n = Len(m.cs) /\ f = m.cs[n] /\ L = f.L /\ t = m.T[L] /\ f.k = "resume" /\ Bounded(m.cs)
      /\ t1 = [t EXCEPT !.errorJmp = f.prev, !.nCcalls = d, !.top = x, !.ended = e]
      /\ d = t.nCcalls - 1 /\ x = (IF many THEN "values" ELSE "none") /\ (e <=> t.status = OK)
      /\ e \in BOOLEAN
  BY DEF Safe
<1> HIDE DEF n, f, L, t, d, x, e, t1, m1, c
<1>5. n > 1 /\ n - 1 \in 1..n /\ n \in 2..n
  <2>1. n # 1
    BY <1>2, <1>4 DEF FrameOK
  <2>2. n \in Nat \ {0}
    BY <1>2
  <2> QED BY <2>1, <2>2
<1>55. n \in Nat \ {0} /\ n = Len(m.cs) /\ m.cs \in Seq(Frame)
  BY <1>2, <1>4
<1>6. f.k \in Above(m.cs[n - 1]) /\ f.from = m.cs[n - 1].L /\ f.prev = 0 /\ h[n] = 1
  <2>1. FrameOK(m.cs, t, h, p, n) /\ SavedOK(m.cs, h, p, n) /\ LevelOK(m.cs, t, h, n)
    BY <1>2 DEF FrameOK
  <2> QED BY <2>1, <1>4, <1>5 DEF FrameOK, SavedOK, LevelOK
<1>7. m.cs[n - 1].k = "cfun"
  <2>1. m.cs[n - 1] \in Frame
    BY <1>55, <1>5, ElementOf
  <2> QED BY <2>1, <1>4, <1>6, AboveType
<1>8. d \in Nat
  <2>1. Depth(m.cs, n) = Depth(m.cs, n - 1) + 1
    BY <1>2, <1>4, DepthStep DEF Counted
  <2>2. Depth(m.cs, n - 1) \in Nat
    BY <1>5, <1>2, DepthType
  <2>3. t.nCcalls = Depth(m.cs, n)
    BY <1>2 DEF LastOK
  <2> QED BY <2>1, <2>2, <2>3, <1>4
<1>9. /\ t1 \in lua_State /\ t1.status = t.status /\ t1.errorJmp = 0 /\ t1.errfunc = 0
      /\ t1.ended = e /\ t1.ci = t.ci /\ t1.size_ci = t.size_ci /\ t1.top = x
      /\ t1.allowhook = t.allowhook
  <2>1. x \in {"none", "function", "values"} /\ f.prev \in Nat
    BY <1>4, <1>6
  <2> QED BY <2>1, <1>2, <1>35, <1>4, <1>6, <1>8 DEF lua_State
<1>10. ~Guarded(m.cs, n)
  <2>1. SUFFICES ASSUME NEW j \in 1..n, m.cs[j].L = m.cs[n].L, m.cs[j].k \in {"hook", "gctm"}
                 PROVE FALSE
    BY DEF Guarded
  <2>2. j # n
    BY <2>1, <1>4
  <2>3. j \in 1..Len(m.cs) /\ n \in 1..Len(m.cs) /\ j <= n /\ n \in j + 1..n
    BY <2>2, <1>55
  <2>4. \A l \in j + 1..n : m.cs[l].k # "resume"
    BY <2>1, <2>3, <1>1 DEF Good, Threaded
  <2> QED BY <2>3, <2>4, <1>4
<1>11. IdleOK(L, t1, p)
  <2>1. CASE t.status = OK
    <3>1. Len(t.ci) = 1 /\ e = TRUE /\ x # "function"
      BY <2>1, <1>2, <1>4, <1>6 DEF LastOK, OK, YIELD
    <3> QED BY <3>1, <2>1, <1>9 DEF IdleOK, OK, YIELD
  <2>2. CASE t.status = YIELD
    <3>1. Parked(t.ci) /\ ~t.ended /\ e = FALSE
      BY <2>2, <1>2, <1>4 DEF LastOK, OK, YIELD
    <3>2. HookAt(m.cs, n, t.allowhook, p)
      BY <3>1, <1>2 DEF LastOK
    <3>3. t.allowhook = FALSE => p # "run"
      BY <3>2, <1>10 DEF HookAt
    <3> QED BY <3>1, <3>3, <2>2, <1>9 DEF IdleOK, OK, YIELD
  <2>3. t.status \in {OK, YIELD}
    BY <1>2 DEF LastOK
  <2> QED BY <2>1, <2>2, <2>3
<1>12. SizeOK(t1)
  <2>1. x = (IF many THEN "values" ELSE "none")
    BY <1>4
  <2>2. x = "values" => "manyresults" \in Uses
    BY <2>1
  <2>3. Len(t.ci) \in 1..t.size_ci /\ t.size_ci <= 2 * MAXCALLS
    BY <1>2 DEF SizeOK
  <2> QED BY <2>2, <2>3, <1>9 DEF SizeOK
<1>13. Sound(c, p)
  <2>1. \A i \in n + 1..Len(m.cs) : m.cs[i].k # "resume"
    BY <1>55
  <2>2. n \in 2..Len(m.cs) /\ L = m.cs[n].L /\ m.cs[n].k = "resume"
    BY <1>4, <1>5
  <2> QED BY <2>1, <2>2, <1>1, <1>2, <1>9, <1>11, <1>12, LeaveGood DEF Sound, c
<1>14. /\ Len(SubSeq(m.cs, 1, n - 1)) = n - 1
       /\ SubSeq(m.cs, 1, n - 1)[n - 1] = m.cs[n - 1]
  <2>1. n - 1 \in 0..Len(m.cs) /\ n - 1 \in 1..n - 1
    BY <1>55, <1>5
  <2> QED BY <2>1, <1>2, Prefix
<1>15. Bounded(c.cs)
  <2>1. n - 1 \in 0..Len(m.cs) /\ \A i \in 1..n - 1 : i \in 1..Len(m.cs)
    BY <1>55, <1>5
  <2>2. \A i \in 1..n - 1 : Depth(m.cs, i) <= Limit
    BY <2>1, <1>4 DEF Bounded, Limit
  <2>3. Within(SubSeq(m.cs, 1, n - 1), Limit)
    BY <2>1, <2>2, <1>2, WithinPrefix
  <2> QED BY <2>3, <1>35, BoundedIs
<1>16. Safe(c, p)
  BY <1>13, <1>15 DEF Safe
<1>17. c.cs # <<>> /\ c.cs[Len(c.cs)].k = "cfun" /\ c.cs[Len(c.cs)].L = f.from
  BY <1>5, <1>6, <1>7, <1>14, <1>35
<1>18. CanRun(c, f.from)
  <2>1. c.cs[Len(c.cs)].k \notin {"resume", "raise"}
    BY <1>17
  <2>2. CanRun(c, c.cs[Len(c.cs)].L)
    BY <2>1, <1>16, <1>17, Ready
  <2> QED BY <2>2, <1>17
<1>19. Safe(Raise(c, f.from), p)
  BY <1>16, <1>17, <1>18, RaiseSafe
<1> QED BY <1>3, <1>16, <1>19 DEF m1, n, f, L, t, x, e

-----------------------------------------------------------------------------
(* The collector, and the beginning and the end.                           *)

LEMMA Halved ==
  ASSUME NEW l \in Nat \ {0}, NEW s \in Nat, NEW b \in Nat \ {0}, 4 * (l - 1) < s, 2 * b < s
  PROVE  s \div 2 \in Nat /\ l <= s \div 2 /\ s \div 2 <= s
<1> DEFINE q == s \div 2
           r == s % 2
<1>1. s = 2 * q + r /\ r \in 0..1 /\ q \in Int
  OBVIOUS
<1>2. s > 2
  OBVIOUS
<1> HIDE DEF q, r
<1>3. 2 * l <= 2 * q + 1
  BY <1>1, <1>2
<1>4. q \in Nat /\ l <= q /\ q <= s
  BY <1>1, <1>3
<1> QED BY <1>4 DEF q

\* checkstacksizes.
LEMMA CheckSafe ==
  ASSUME NEW m, NEW p, Safe(m, p), NEW L \in Threads, MostlyUnused(m.T[L])
  PROVE  Safe([m EXCEPT !.T[L].size_ci = m.T[L].size_ci \div 2], p)
<1> DEFINE t == m.T[L]
           x == t.size_ci \div 2
           t1 == [t EXCEPT !.size_ci = x]
<1>1. PICK h \in Seq(Level) : m \in Machine /\ Good(m, h, p)
  BY DEF Safe, Sound
<1>2. t \in lua_State /\ SizeOK(t) /\ Bounded(m.cs)
  BY <1>1 DEF Machine, Good, Safe
<1>3. /\ t.size_ci \in Nat /\ Len(t.ci) \in Nat \ {0} /\ t.size_ci <= 2 * MAXCALLS
      /\ t.top = "values" => "manyresults" \in Uses
  <2>1. t.size_ci \in Nat /\ Len(t.ci) \in Nat
    BY <1>2, StateType
  <2> QED BY <2>1, <1>2 DEF SizeOK
<1>4. 4 * (Len(t.ci) - 1) < t.size_ci /\ 2 * BASIC_CI_SIZE < t.size_ci
  BY DEF MostlyUnused
<1>5. BASIC_CI_SIZE \in Nat \ {0} /\ MAXCALLS \in Nat
  BY LimitsAssumption
<1> HIDE DEF t
<1>6. x \in Nat /\ Len(t.ci) <= x /\ x <= t.size_ci
  BY <1>3, <1>4, <1>5, Halved
<1> HIDE DEF x
<1>7. t1.ci = t.ci /\ t1.size_ci = x /\ t1.top = t.top
  BY <1>2 DEF lua_State
<1> HIDE DEF t1
<1>8. SizeOK(t1)
  <2>1. Len(t1.ci) \in 1..t1.size_ci
    BY <1>3, <1>6, <1>7
  <2>2. t1.size_ci <= 2 * MAXCALLS
    BY <1>3, <1>5, <1>6, <1>7
  <2> QED BY <2>1, <2>2, <1>3, <1>7 DEF SizeOK
<1>9. SizeOK([m.T[L] EXCEPT !.size_ci = x])
  BY <1>8 DEF t1, t
<1>10. [m EXCEPT !.T[L].size_ci = x] \in Machine /\ Good([m EXCEPT !.T[L].size_ci = x], h, p)
  BY <1>1, <1>6, <1>9, SizeGood
<1>11. [m EXCEPT !.T[L].size_ci = x].cs = m.cs
  BY <1>1 DEF Machine
<1>12. Safe([m EXCEPT !.T[L].size_ci = x], p)
  BY <1>2, <1>10, <1>11 DEF Safe, Sound
<1> QED BY <1>12 DEF x, t

\* A machine of one thread in a stack of one frame.
LEMMA OneFrame ==
  ASSUME NEW m2 \in Machine, NEW p, Len(m2.cs) = 1, NEW c, c = m2.T[m2.cs[1].L],
         FrameOK(m2.cs, c, << 1 >>, p, 1), LastOK(m2.cs, c, << 1 >>, p, 1),
         \A X \in Threads : SizeOK(m2.T[X]),
         \A X \in Threads : X # m2.cs[1].L => IdleOK(X, m2.T[X], p)
  PROVE  Sound(m2, p)
<1>1. << 1 >> \in Seq(Level) /\ Len(<< 1 >>) = 1 /\ \A i \in 1..1 : i = 1
  BY DEF Level
<1>2. Threaded(m2.cs)
  <2>1. \A i \in 1..1 : \A l \in i + 1..i : FALSE
    OBVIOUS
  <2> QED BY <2>1, <1>1 DEF Threaded
<1>3. \A i, j \in 1..1 : << 1 >>[i] <= << 1 >>[j]
  BY <1>1
<1>4. 1 \in 1..1
  OBVIOUS
<1>5. Good(m2, << 1 >>, p)
  <2>1. \A i, j \in 1..Len(m2.cs) : i <= j /\ m2.cs[i].L = m2.cs[j].L => << 1 >>[i] <= << 1 >>[j]
    BY <1>3
  <2>2. \A i \in 1..Len(m2.cs) : FrameOK(m2.cs, m2.T[m2.cs[i].L], << 1 >>, p, i)
    BY <1>1
  <2>3. \A i \in 1..Len(m2.cs) : LastOK(m2.cs, m2.T[m2.cs[i].L], << 1 >>, p, i)
    BY <1>1
  <2>4. \A X \in Threads : (\A i \in 1..Len(m2.cs) : m2.cs[i].L # X) => IdleOK(X, m2.T[X], p)
    BY <1>4
  <2> QED BY <1>1, <1>2, <2>1, <2>2, <2>3, <2>4 DEF Good
<1> QED BY <1>1, <1>5 DEF Sound

\* lua_close begins.
LEMMA CloseSafe ==
  ASSUME NEW m, Safe(m, "run"), Len(m.cs) = 1, NEW X, X = [m.T EXCEPT ![MainThread] =
                                [Reset(@) EXCEPT !.errfunc = 0, !.errorJmp = 1]]
  PROVE  Safe([cs |-> <<CloseLoop>>, T |-> X], "close")
<1> DEFINE L  == MainThread
           t  == m.T[L]
           c  == [Reset(t) EXCEPT !.errfunc = 0, !.errorJmp = 1]
           f  == CloseLoop
           s  == <<f>>
           m2 == [cs |-> s, T |-> [m.T EXCEPT ![L] = c]]
           h2 == << 1 >>
<1>1. PICK h \in Seq(Level) : m \in Machine /\ Good(m, h, "run")
  BY DEF Safe, Sound
<1>2. m.cs # <<>> /\ Len(m.cs) = 1
  OBVIOUS
<1>3. FrameOK(m.cs, m.T[m.cs[1].L], h, "run", 1) /\ m.T \in [Threads -> lua_State]
  BY <1>1, <1>2, TopOK
<1>4. m.cs[1].L = L /\ m.cs[1].k = "cfun"
  BY <1>3 DEF FrameOK
<1>5. t.status = OK /\ t.ended = FALSE
  BY <1>1, <1>2, <1>4, TopRuns
<1>6. t \in lua_State /\ SizeOK(t) /\ L \in Threads
  BY <1>1, <1>2, <1>4, TopOK
<1>7. /\ \A Y \in Threads : SizeOK(m.T[Y])
      /\ \A Y \in Threads : Y # L => IdleOK(Y, m.T[Y], "run")
  <2>1. \A i \in 1..Len(m.cs) : i = 1
    BY <1>2
  <2> QED BY <2>1, <1>1, <1>4 DEF Good
<1>8. /\ s \in Seq(Frame) /\ Len(s) = 1 /\ s[1] = f /\ f.k = "close" /\ f.L = L
  <2>1. f \in Frame /\ f.k = "close" /\ f.L = L
    BY DEF CloseLoop, Frame
  <2> HIDE DEF f
  <2> QED BY <2>1
<1>9. X = [m.T EXCEPT ![L] = c]
  BY <1>3, <1>6
<1>10. t = m.T[L] /\ c = [Reset(t) EXCEPT !.errfunc = 0, !.errorJmp = 1]
  OBVIOUS
<1> HIDE DEF L, t, c, f, s
<1>11. /\ c \in lua_State /\ c.status = OK /\ c.errorJmp = 1 /\ c.errfunc = 0 /\ c.ended = FALSE
       /\ c.ci = <<"C">> /\ c.size_ci = t.size_ci /\ c.top = t.top /\ c.nCcalls = 0
       /\ c.baseCcalls = 0 /\ Len(c.ci) = 1
  <2>1. <<"C">> \in Seq({"lua", "C"}) /\ Len(<<"C">>) = 1
    OBVIOUS
  <2>2. c = [[t EXCEPT !.ci = <<"C">>, !.nCcalls = 0, !.baseCcalls = 0]
               EXCEPT !.errfunc = 0, !.errorJmp = 1]
    BY <1>10 DEF Reset
  <2> QED BY <2>1, <2>2, <1>5, <1>6 DEF lua_State
<1>12. /\ m2.cs = s /\ m2.T[L] = c /\ \A Y \in Threads \ {L} : m2.T[Y] = m.T[Y]
       /\ m2 \in Machine
  BY <1>3, <1>6, <1>8, <1>11 DEF Machine
<1> HIDE DEF m2
<1>13. Depth(s, 1) = 0
  <2>1. Depth(s, 0) = 0
    BY FS_EmptySet DEF Depth
  <2>2. s[1].k \notin Counted
    BY <1>8 DEF Counted
  <2>3. Depth(s, 1) = Depth(s, 1 - 1) + 0
    BY <2>2, DepthStep
  <2> QED BY <2>1, <2>3
<1>14. FrameOK(s, c, << 1 >>, "close", 1)
  <2>1. LevelOK(s, c, << 1 >>, 1) /\ SavedOK(s, << 1 >>, "close", 1)
    BY <1>8 DEF LevelOK, SavedOK
  <2> QED BY <2>1, <1>8, <1>11, <1>13 DEF FrameOK, L
<1>15. LastOK(s, c, << 1 >>, "close", 1)
  <2>1. LandingAt(s, 1, 1)
    BY <1>8 DEF LandingAt, Landing
  <2>2. HandlerAt(s, 1, 0)
    BY DEF HandlerAt
  <2>3. HookAt(s, 1, c.allowhook, "close")
    BY <1>8 DEF HookAt, Guarded
  <2> QED BY <2>1, <2>2, <2>3, <1>8, <1>11, <1>13 DEF LastOK
<1>16. SizeOK(c)
  BY <1>6, <1>11, StateType DEF SizeOK
<1>17. Sound(m2, "close")
  <2>1. \A Y \in Threads : SizeOK(m2.T[Y])
    BY <1>7, <1>12, <1>16
  <2>2. ASSUME NEW Y \in Threads, Y # L PROVE IdleOK(Y, m2.T[Y], "close")
    <3>1. IdleOK(Y, m.T[Y], "run") /\ m2.T[Y] = m.T[Y]
      BY <2>2, <1>7, <1>12
    <3> QED BY <3>1 DEF IdleOK
  <2>3. Len(m2.cs) = 1 /\ m2.cs[1].L = L /\ c = m2.T[m2.cs[1].L] /\ m2.cs = s
    BY <1>8, <1>12
  <2> QED BY <2>1, <2>2, <2>3, <1>12, <1>14, <1>15, OneFrame
<1>18. Bounded(m2.cs)
  <2>1. \A i \in 1..Len(s) : Depth(s, i) = 0
    BY <1>8, <1>13
  <2> QED BY <2>1, <1>12, LimitType DEF Bounded, Limit
<1> QED BY <1>9, <1>17, <1>18 DEF Safe, m2, s, f

\* lua_close ends.
LEMMA ClosedSafe ==
  ASSUME NEW m, NEW p, Safe(m, p), m.cs # <<>>, m.cs[Len(m.cs)].k = "close",
         NEW X, X = [m.T EXCEPT ![MainThread].errorJmp = 0]
  PROVE  Safe([cs |-> <<>>, T |-> X], "closed")
<1> DEFINE n  == Len(m.cs)
           L  == MainThread
           t  == m.T[L]
           c  == [t EXCEPT !.errorJmp = 0]
           m2 == [cs |-> <<>>, T |-> X]
<1>1. PICK h \in Seq(Level) : m \in Machine /\ Good(m, h, p)
  BY DEF Safe, Sound
<1>2. /\ n \in Nat \ {0} /\ FrameOK(m.cs, m.T[m.cs[n].L], h, p, n) /\ m.cs \in Seq(Frame)
      /\ m.T \in [Threads -> lua_State] /\ LastOK(m.cs, m.T[m.cs[n].L], h, p, n)
  BY <1>1, TopOK
<1>25. n = Len(m.cs) /\ m.cs[n].k = "close"
  OBVIOUS
<1> HIDE DEF n
<1>3. n = 1
  <2> SUFFICES ASSUME n # 1 PROVE FALSE
    OBVIOUS
  <2>1. n > 1 /\ n - 1 \in 1..n
    BY <1>2
  <2>2. m.cs[n].k \in Above(m.cs[n - 1]) /\ m.cs[n - 1] \in Frame
    BY <2>1, <1>2, <1>25 DEF FrameOK
  <2> QED BY <2>2, <1>25, AboveType
<1>4. m.cs[1].L = L /\ L \in Threads /\ t \in lua_State
  <2>1. m.cs[1].L = L
    BY <1>2, <1>3 DEF FrameOK
  <2> QED BY <2>1, <1>2 DEF Threads
<1>5. t.status = OK
  BY <1>2, <1>25, <1>3, <1>4 DEF LastOK
<1>6. t.errfunc = 0
  <2>1. LandingAt(m.cs, 1, t.errorJmp) /\ HandlerAt(m.cs, 1, t.errfunc)
    BY <1>2, <1>3, <1>4 DEF LastOK
  <2>2. \A j \in 1..1 : m.cs[j].k # "pcall"
    BY <1>25, <1>3
  <2> QED BY <2>1, <2>2 DEF HandlerAt
<1>7. X = [m.T EXCEPT ![L] = c] /\ t = m.T[L] /\ c = [t EXCEPT !.errorJmp = 0]
  BY <1>2, <1>4
<1> HIDE DEF t, c, L
<1>8. /\ c \in lua_State /\ c.status = OK /\ c.errorJmp = 0 /\ c.errfunc = 0
      /\ c.ci = t.ci /\ c.size_ci = t.size_ci /\ c.top = t.top
  BY <1>4, <1>5, <1>6, <1>7 DEF lua_State
<1>9. X \in [Threads -> lua_State] /\ X[L] = c /\ \A Y \in Threads \ {L} : X[Y] = m.T[Y]
  <2>1. X = [m.T EXCEPT ![L] = c] /\ m.T \in [Threads -> lua_State] /\ L \in Threads
        /\ c \in lua_State
    BY <1>2, <1>4, <1>7, <1>8
  <2> HIDE DEF c, L
  <2> QED BY <2>1
<1>10. /\ \A Y \in Threads : SizeOK(m.T[Y])
       /\ \A Y \in Threads : Y # L => IdleOK(Y, m.T[Y], p)
  <2>1. \A i \in 1..Len(m.cs) : i = 1
    BY <1>25, <1>3
  <2> QED BY <2>1, <1>1, <1>4 DEF Good
<1>11. \A Y \in Threads : SizeOK(X[Y])
  <2>1. SizeOK(c)
    BY <1>4, <1>7, <1>8, <1>10 DEF SizeOK
  <2> QED BY <2>1, <1>9, <1>10
<1>12. ASSUME NEW Y \in Threads PROVE IdleOK(Y, X[Y], "closed")
  <2>1. CASE Y = L
    BY <2>1, <1>8, <1>9 DEF IdleOK, OK, YIELD, L
  <2>2. CASE Y # L
    <3>1. IdleOK(Y, m.T[Y], p) /\ X[Y] = m.T[Y]
      BY <2>2, <1>9, <1>10
    <3> QED BY <3>1 DEF IdleOK
  <2> QED BY <2>1, <2>2
<1>13. m2 \in Machine /\ m2.cs = <<>> /\ m2.T = X
  <2>1. <<>> \in Seq(Frame)
    OBVIOUS
  <2> QED BY <2>1, <1>9 DEF Machine
<1> HIDE DEF m2
<1>14. <<>> \in Seq(Level) /\ Len(<<>>) = 0 /\ 1..0 = {}
  OBVIOUS
<1>15. Good(m2, <<>>, "closed")
  BY <1>11, <1>12, <1>13, <1>14 DEF Good, Threaded
<1>16. Bounded(m2.cs)
  BY <1>13, <1>14 DEF Bounded
<1> QED BY <1>13, <1>14, <1>15, <1>16 DEF Safe, Sound, m2
=============================================================================
