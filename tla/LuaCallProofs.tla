--------------------------- MODULE LuaCallProofs ---------------------------
(***************************************************************************)
(* Facts about the C stack of LuaCall: what the operators of its invariant *)
(* depend on, and when a machine in which frames and fields agree stays    *)
(* one after its last frames, and the fields of their thread, change. Then *)
(* the functions of ldo.c keep the invariant of LuaCallInv: errors, which  *)
(* cut the C stack and restore what the frame they land on has saved, and  *)
(* calls, which may overflow either stack and raise such an error.         *)
(***************************************************************************)
EXTENDS LuaCallInv, FiniteSetTheorems, TLAPS

Machine == [cs : Seq(Frame), T : [Threads -> lua_State]]

\* Every frame has a kind and works for a thread.
LEMMA FrameType ==
  ASSUME NEW f \in Frame
  PROVE  /\ f.L \in Threads
         /\ f.k \in {"exec", "cfun", "call", "pcall", "resume", "hook", "gctm", "raise", "close"}
         /\ f.k = "exec" => f.base \in Nat
         /\ f.k = "pcall" => /\ f.prev \in Nat /\ f.nCcalls \in Nat /\ f.ci \in Nat
                            /\ f.allowhook \in BOOLEAN /\ f.errfunc \in Nat
         /\ f.k = "resume" => f.from \in Threads /\ f.wrap \in BOOLEAN /\ f.prev \in Nat
         /\ f.k = "gctm" => f.oldah \in BOOLEAN
         /\ f.k = "raise" => f.handled \in BOOLEAN
BY DEF Frame, Threads

-----------------------------------------------------------------------------
(* The operators of the invariant look at the frames up to their index.    *)

\* A depth is a number.
LEMMA DepthType == \A cs : \A i \in Nat : Depth(cs, i) \in Nat
<1> SUFFICES ASSUME NEW cs, NEW i \in Nat PROVE Depth(cs, i) \in Nat
  OBVIOUS
<1>1. IsFiniteSet(1..i)
  BY FS_Interval
<1>2. {j \in 1..i : cs[j].k \in Counted} \in SUBSET (1..i)
  OBVIOUS
<1> QED BY <1>1, <1>2, FS_Subset, FS_CardinalityType DEF Depth

\* A frame adds one to the depth if it is counted.
LEMMA DepthStep ==
  ASSUME NEW cs, NEW i \in Nat \ {0}
  PROVE  Depth(cs, i) = Depth(cs, i - 1) + IF cs[i].k \in Counted THEN 1 ELSE 0
<1> DEFINE D(n) == {j \in 1..n : cs[j].k \in Counted}
<1>1. IsFiniteSet(D(i - 1))
  <2>1. IsFiniteSet(1..i - 1)
    BY FS_Interval
  <2> QED BY <2>1, FS_Subset
<1>2. i \notin D(i - 1)
  OBVIOUS
<1>3. CASE cs[i].k \in Counted
  <2>1. D(i) = D(i - 1) \cup {i}
    BY <1>3
  <2> QED BY <1>1, <1>2, <1>3, <2>1, FS_AddElement DEF Depth
<1>4. CASE cs[i].k \notin Counted
  <2>1. D(i) = D(i - 1)
    BY <1>4
  <2>2. Depth(cs, i) = Cardinality(D(i)) /\ Depth(cs, i - 1) = Cardinality(D(i - 1))
    BY DEF Depth
  <2>3. Depth(cs, i - 1) \in Nat
    BY DepthType
  <2> HIDE DEF D
  <2> QED BY <1>4, <2>1, <2>2, <2>3
<1> QED BY <1>3, <1>4

\* The depth grows with the stack.
LEMMA DepthGrows ==
  ASSUME NEW cs, NEW i \in Nat, NEW j \in Nat, i <= j
  PROVE  Depth(cs, i) <= Depth(cs, j)
<1> DEFINE D(n) == {l \in 1..n : cs[l].k \in Counted}
<1>1. IsFiniteSet(D(j))
  <2>1. IsFiniteSet(1..j)
    BY FS_Interval
  <2> QED BY <2>1, FS_Subset
<1>2. D(i) \in SUBSET D(j)
  OBVIOUS
<1> HIDE DEF D
<1>3. Cardinality(D(i)) <= Cardinality(D(j))
  BY <1>1, <1>2, FS_Subset
<1> QED BY <1>3 DEF Depth, D

\* Without a counted frame in between, the depth is the same.
LEMMA DepthFlat ==
  ASSUME NEW cs, NEW i \in Nat, NEW j \in Nat, i <= j,
         \A l \in i + 1..j : cs[l].k \notin Counted
  PROVE  Depth(cs, i) = Depth(cs, j)
<1>1. {l \in 1..i : cs[l].k \in Counted} = {l \in 1..j : cs[l].k \in Counted}
  OBVIOUS
<1> QED BY <1>1 DEF Depth

\* Stacks that agree up to i agree on what is said of i.
LEMMA Local ==
  ASSUME NEW cs, NEW cs2, NEW i \in Nat, \A j \in 1..i : cs2[j] = cs[j]
  PROVE  /\ Depth(cs2, i) = Depth(cs, i)
         /\ \A j : LandingAt(cs2, i, j) <=> LandingAt(cs, i, j)
         /\ \A ef : HandlerAt(cs2, i, ef) <=> HandlerAt(cs, i, ef)
         /\ i # 0 => (Guarded(cs2, i) <=> Guarded(cs, i))
         /\ i # 0 => \A ah, p : HookAt(cs2, i, ah, p) <=> HookAt(cs, i, ah, p)
<1>1. Depth(cs2, i) = Depth(cs, i)
  <2>1. {j \in 1..i : cs2[j].k \in Counted} = {j \in 1..i : cs[j].k \in Counted}
    OBVIOUS
  <2> QED BY <2>1 DEF Depth
<1>2. ASSUME NEW j PROVE LandingAt(cs2, i, j) <=> LandingAt(cs, i, j)
  BY DEF LandingAt
<1>3. ASSUME NEW ef PROVE HandlerAt(cs2, i, ef) <=> HandlerAt(cs, i, ef)
  BY DEF HandlerAt
<1>4. i # 0 => (Guarded(cs2, i) <=> Guarded(cs, i))
  BY DEF Guarded
<1>5. ASSUME i # 0, NEW ah, NEW p PROVE HookAt(cs2, i, ah, p) <=> HookAt(cs, i, ah, p)
  BY <1>4, <1>5 DEF HookAt
<1> QED BY <1>1, <1>2, <1>3, <1>4, <1>5

\* What a frame promises depends on the frames below it, and on what its thread
\* does not change while it is there.
LEMMA FrameLocal ==
  ASSUME NEW cs, NEW cs2, NEW h, NEW h2, NEW t, NEW t2, NEW p,
         NEW i \in Nat \ {0}, \A j \in 1..i : cs2[j] = cs[j] /\ h2[j] = h[j],
         h \in Seq(Level), i <= Len(h),
         t2.baseCcalls = t.baseCcalls, t2.ended = t.ended,
         \A q \in 1..h[i] : t2.ci[q] = t.ci[q],
         FrameOK(cs, t, h, p, i)
  PROVE  FrameOK(cs2, t2, h2, p, i)
<1>1. cs2[i] = cs[i] /\ h2[i] = h[i] /\ (i > 1 => cs2[i - 1] = cs[i - 1] /\ h2[i - 1] = h[i - 1])
  OBVIOUS
<1>2. Depth(cs2, i) = Depth(cs, i)
  BY Local
<1>3. h[i] \in Level /\ (i > 1 => h[i - 1] \in Level)
  OBVIOUS
<1>4. LevelOK(cs2, t2, h2, i)
  <2>1. ASSUME i > 1, cs[i].k = "exec", NEW q \in cs[i].base + 1..h[i] PROVE t2.ci[q] = "lua"
    <3>1. cs[i].base = h[i - 1] /\ t.ci[q] = "lua"
      BY <2>1 DEF FrameOK, LevelOK
    <3>2. q \in 1..h[i]
      BY <3>1, <2>1, <1>3 DEF Level
    <3> QED BY <3>1, <3>2
  <2>2. ASSUME i > 1, cs[i].k = "cfun" PROVE t2.ci[h[i]] = "C"
    BY <2>2, <1>3 DEF FrameOK, LevelOK, Level
  <2> QED BY <2>1, <2>2, <1>1 DEF FrameOK, LevelOK
<1>5. SavedOK(cs2, h2, p, i)
  <2>1. CASE i = 1
    <3>1. cs[1].k \in {"cfun", "close"}
      BY <2>1 DEF FrameOK
    <3> QED BY <3>1, <2>1, <1>1 DEF SavedOK
  <2>2. CASE i > 1
    <3>1. i - 1 \in Nat /\ i - 1 # 0
      BY <2>2
    <3>2. \A j \in 1..i - 1 : cs2[j] = cs[j]
      OBVIOUS
    <3> HIDE DEF LandingAt, HandlerAt, HookAt, Guarded, Depth
    <3>3. /\ Depth(cs2, i - 1) = Depth(cs, i - 1)
          /\ \A j : LandingAt(cs2, i - 1, j) <=> LandingAt(cs, i - 1, j)
          /\ \A ef : HandlerAt(cs2, i - 1, ef) <=> HandlerAt(cs, i - 1, ef)
          /\ Guarded(cs2, i - 1) <=> Guarded(cs, i - 1)
          /\ \A ah, x : HookAt(cs2, i - 1, ah, x) <=> HookAt(cs, i - 1, ah, x)
      BY <3>1, <3>2, Local
    <3> QED BY <3>3, <1>1, <2>2 DEF FrameOK, SavedOK
  <2> QED BY <2>1, <2>2
<1> QED BY <1>1, <1>2, <1>4, <1>5 DEF FrameOK

\* What the last frame of a thread asks of it depends on the frames up to it, but
\* a coroutine can only have yielded when its frame is the last of all.
LEMMA LastLocal ==
  ASSUME NEW cs, NEW cs2, NEW h, NEW h2, NEW t, NEW p,
         NEW i \in Nat \ {0}, \A j \in 1..i : cs2[j] = cs[j] /\ h2[j] = h[j],
         i = Len(cs2) \/ i # Len(cs) \/ cs[i].k # "resume",
         LastOK(cs, t, h, p, i)
  PROVE  LastOK(cs2, t, h2, p, i)
<1>1. cs2[i] = cs[i] /\ h2[i] = h[i]
  OBVIOUS
<1>2. /\ Depth(cs2, i) = Depth(cs, i)
      /\ \A j : LandingAt(cs2, i, j) <=> LandingAt(cs, i, j)
      /\ \A ef : HandlerAt(cs2, i, ef) <=> HandlerAt(cs, i, ef)
      /\ \A ah, x : HookAt(cs2, i, ah, x) <=> HookAt(cs, i, ah, x)
  BY Local
<1> QED BY <1>1, <1>2 DEF LastOK

-----------------------------------------------------------------------------
(* Steps within the running thread.                                        *)

\* cs2 is cs after the frames above n, all of thread L, have gone and at most one
\* of L has come.
ReplacesTop(cs, cs2, n, L) ==
  /\ n \in 0..Len(cs) /\ Len(cs) # 0 /\ cs[Len(cs)].L = L
  /\ \A i \in n + 1..Len(cs) : i > 1 => cs[i].k # "resume"
  /\ Len(cs2) \in {n, n + 1} /\ Len(cs2) # 0
  /\ \A i \in 1..n : cs2[i] = cs[i]
  /\ Len(cs2) = n + 1 => cs2[n + 1].L = L /\ (n # 0 => cs2[n + 1].k # "resume")

\* The frames that go are of thread L, and so is the one below them.
LEMMA TopThread ==
  ASSUME NEW cs, NEW cs2, NEW n, NEW L, Len(cs) \in Nat, Len(cs2) \in Nat,
         ReplacesTop(cs, cs2, n, L), Threaded(cs)
  PROVE  /\ \A i \in n..Len(cs) : i # 0 => cs[i].L = L
         /\ cs2[Len(cs2)].L = L
         /\ \A i \in 1..n : cs[i].L = L <=> \A l \in i + 1..n : cs[l].k # "resume"
<1> DEFINE N == Len(cs)
<1>1. N \in Nat \ {0} /\ n \in 0..N /\ cs[N].L = L
  BY DEF ReplacesTop
<1>2. ASSUME NEW i \in n..N, i # 0 PROVE cs[i].L = L
  <2>1. \A l \in i + 1..N : cs[l].k # "resume"
    BY <1>1, <1>2 DEF ReplacesTop
  <2>2. i \in 1..N /\ N \in 1..N /\ i <= N
    BY <1>1, <1>2
  <2> QED BY <1>1, <2>1, <2>2 DEF Threaded
<1>3. ASSUME NEW i \in 1..n
      PROVE  cs[i].L = L <=> \A l \in i + 1..n : cs[l].k # "resume"
  <2>1. cs[n].L = L /\ i \in 1..N /\ n \in 1..N /\ i <= n
    BY <1>1, <1>2
  <2> QED BY <2>1 DEF Threaded
<1>4. cs2[Len(cs2)].L = L
  <2>1. CASE Len(cs2) = n + 1
    BY <2>1 DEF ReplacesTop
  <2>2. CASE Len(cs2) = n
    BY <2>2, <1>1, <1>2 DEF ReplacesTop
  <2> QED BY <2>1, <2>2 DEF ReplacesTop
<1> QED BY <1>2, <1>3, <1>4

\* The frames of a thread stay next to each other.
LEMMA StaysThreaded ==
  ASSUME NEW cs, NEW cs2, NEW n, NEW L, Len(cs) \in Nat, Len(cs2) \in Nat,
         ReplacesTop(cs, cs2, n, L), Threaded(cs)
  PROVE  Threaded(cs2)
<1>1. /\ n \in Nat /\ n <= Len(cs) /\ Len(cs2) \in {n, n + 1}
      /\ \A i \in 1..n : cs2[i] = cs[i]
  BY DEF ReplacesTop
<1> SUFFICES ASSUME NEW i \in 1..Len(cs2), NEW j \in 1..Len(cs2), i <= j
    PROVE cs2[i].L = cs2[j].L <=> \A l \in i + 1..j : cs2[l].k # "resume"
  BY <1>1 DEF Threaded
<1>2. \A l \in i + 1..n : cs2[l] = cs[l]
  BY <1>1
<1>3. CASE j <= n
  <2>1. cs[i].L = cs[j].L <=> \A l \in i + 1..j : cs[l].k # "resume"
    BY <1>1, <1>3 DEF Threaded
  <2>2. \A l \in i + 1..j : cs2[l] = cs[l]
    BY <1>1, <1>2, <1>3
  <2> QED BY <2>1, <2>2, <1>1, <1>3
<1>4. CASE j = n + 1 /\ i = n + 1
  BY <1>1, <1>4
<1>5. CASE j = n + 1 /\ i <= n
  <2>1. cs2[j].L = L /\ cs2[j].k # "resume" /\ cs2[i] = cs[i]
    BY <1>1, <1>5 DEF ReplacesTop
  <2>2. cs[i].L = L <=> \A l \in i + 1..n : cs[l].k # "resume"
    BY <1>5, <1>1, TopThread
  <2>3. i + 1..j = (i + 1..n) \cup {j}
    BY <1>5, <1>1
  <2> QED BY <2>1, <2>2, <2>3, <1>2
<1> QED BY <1>1, <1>3, <1>4, <1>5

\* A step of the running thread L: from m with levels h to m2 with levels h2.
Steps(m, h, m2, h2, n, L) ==
  /\ ReplacesTop(m.cs, m2.cs, n, L)
  /\ Len(h2) = Len(m2.cs) /\ \A i \in 1..n : h2[i] = h[i]
  /\ Len(m2.cs) = n + 1 /\ n # 0 => h2[n] <= h2[n + 1]
  /\ \A X \in Threads \ {L} : m2.T[X] = m.T[X]
  /\ m2.T[L].baseCcalls = m.T[L].baseCcalls /\ m2.T[L].ended = m.T[L].ended
  /\ n # 0 => \A q \in 1..h[n] : m2.T[L].ci[q] = m.T[L].ci[q]

Increasing(cs, h) == \A i, j \in 1..Len(cs) : i <= j /\ cs[i].L = cs[j].L => h[i] <= h[j]

\* Levels grow with the stack of a thread.
LEMMA StaysIncreasing ==
  ASSUME NEW cs, NEW cs2, NEW n, NEW L, Len(cs) \in Nat, Len(cs2) \in Nat,
         NEW h \in Seq(Level), NEW h2 \in Seq(Level),
         ReplacesTop(cs, cs2, n, L), Threaded(cs), Increasing(cs, h),
         Len(h) = Len(cs), Len(h2) = Len(cs2), \A i \in 1..n : h2[i] = h[i],
         Len(cs2) = n + 1 /\ n # 0 => h2[n] <= h2[n + 1]
  PROVE  Increasing(cs2, h2)
<1>1. /\ n \in Nat /\ n <= Len(cs) /\ Len(cs2) \in {n, n + 1}
      /\ \A i \in 1..n : cs2[i] = cs[i]
  BY DEF ReplacesTop
<1> SUFFICES ASSUME NEW i \in 1..Len(cs2), NEW j \in 1..Len(cs2), i <= j, cs2[i].L = cs2[j].L
    PROVE  h2[i] <= h2[j]
  BY <1>1 DEF Increasing
<1>2. CASE j <= n
  BY <1>1, <1>2 DEF Increasing
<1>3. CASE i = n + 1 /\ j = n + 1
  BY <1>1, <1>3 DEF Level
<1>4. CASE i <= n /\ j = n + 1
  <2>1. cs[i].L = L /\ cs[n].L = L
    <3>1. cs2[j].L = L
      BY <1>4, <1>1 DEF ReplacesTop
    <3>2. cs[n].L = L
      <4>1. n \in n..Len(cs) /\ n # 0
        BY <1>4, <1>1
      <4>2. \A l \in n..Len(cs) : l # 0 => cs[l].L = L
        BY TopThread
      <4> QED BY <4>1, <4>2
    <3> QED BY <3>1, <3>2, <1>1, <1>4
  <2>2. h[i] <= h[n]
    BY <2>1, <1>1, <1>4 DEF Increasing
  <2>3. h2[i] = h[i] /\ h2[n] = h[n] /\ h2[n] <= h2[j]
    BY <1>4, <1>1
  <2>4. h2[i] \in Nat /\ h2[n] \in Nat /\ h2[j] \in Nat
    BY <1>4, <1>1 DEF Level
  <2> QED BY <2>2, <2>3, <2>4
<1> QED BY <1>1, <1>2, <1>3, <1>4

\* What remains to be shown of a step is about the new last frame only.
LEMMA Change ==
  ASSUME NEW m \in Machine, NEW m2 \in Machine, NEW h \in Seq(Level), NEW h2 \in Seq(Level),
         NEW p, NEW n, NEW L \in Threads,
         Good(m, h, p), Steps(m, h, m2, h2, n, L),
         Len(m2.cs) = n + 1 => FrameOK(m2.cs, m2.T[L], h2, p, n + 1),
         LastOK(m2.cs, m2.T[L], h2, p, Len(m2.cs)), SizeOK(m2.T[L])
  PROVE  Good(m2, h2, p)
<1> DEFINE cs == m.cs
           cs2 == m2.cs
           N == Len(cs)
<1>1. cs \in Seq(Frame) /\ cs2 \in Seq(Frame) /\ Len(cs) = Len(h)
  BY DEF Machine, Good
<1>15. Len(cs) \in Nat /\ Len(cs2) \in Nat /\ \A i \in 1..N : cs[i].L \in Threads
  <2>1. \A i \in 1..N : cs[i] \in Frame
    BY <1>1
  <2> QED BY <1>1, <2>1, FrameType
<1>2. ReplacesTop(cs, cs2, n, L) /\ Threaded(cs) /\ Increasing(cs, h)
  BY DEF Steps, Good, Increasing
<1>3. /\ n \in 0..N /\ N \in Nat \ {0}
      /\ Len(cs2) \in {n, n + 1} /\ Len(cs2) # 0
      /\ \A i \in 1..n : cs2[i] = cs[i] /\ h2[i] = h[i]
  BY <1>1, <1>2, <1>15 DEF ReplacesTop, Steps
<1>4. /\ \A i \in n..N : i # 0 => cs[i].L = L
      /\ cs2[Len(cs2)].L = L
      /\ \A i \in 1..n : cs[i].L = L <=> \A l \in i + 1..n : cs[l].k # "resume"
  BY <1>2, <1>15, TopThread
<1>5. /\ \A X \in Threads \ {L} : m2.T[X] = m.T[X]
      /\ m2.T[L].baseCcalls = m.T[L].baseCcalls /\ m2.T[L].ended = m.T[L].ended
      /\ n # 0 => \A q \in 1..h[n] : m2.T[L].ci[q] = m.T[L].ci[q]
      /\ Len(h2) = Len(cs2)
      /\ Len(cs2) = n + 1 /\ n # 0 => h2[n] <= h2[n + 1]
  BY DEF Steps
<1>6. /\ \A i \in 1..N : FrameOK(cs, m.T[cs[i].L], h, p, i)
      /\ \A i \in 1..N :
           i = N \/ cs[i + 1].k = "resume" => LastOK(cs, m.T[cs[i].L], h, p, i)
      /\ \A X \in Threads : SizeOK(m.T[X])
      /\ \A X \in Threads : (\A i \in 1..N : cs[i].L # X) => IdleOK(X, m.T[X], p)
  BY <1>3 DEF Good
<1> HIDE DEF cs, cs2, N
<1>8. Threaded(cs2)
  BY <1>2, <1>15, StaysThreaded
<1>9. Increasing(cs2, h2)
  BY <1>1, <1>2, <1>3, <1>5, <1>15, StaysIncreasing
<1>10. ASSUME NEW i \in 1..n PROVE FrameOK(cs2, m2.T[cs2[i].L], h2, p, i)
  <2>1. FrameOK(cs, m.T[cs[i].L], h, p, i) /\ cs[i].L \in Threads /\ cs2[i] = cs[i]
    <3>1. i \in 1..N
      BY <1>3
    <3> QED BY <3>1, <1>3, <1>6, <1>15
  <2>2. i \in Nat \ {0} /\ i <= Len(h) /\ \A j \in 1..i : cs2[j] = cs[j] /\ h2[j] = h[j]
    BY <1>1, <1>3 DEF N
  <2>3. CASE cs[i].L # L
    <3>1. m2.T[cs2[i].L] = m.T[cs[i].L]
      BY <2>1, <2>3, <1>5
    <3> QED BY <3>1, <2>1, <2>2, FrameLocal
  <2>4. CASE cs[i].L = L
    <3>1. h[i] <= h[n] /\ h[i] \in Nat /\ h[n] \in Nat
      <4>1. n \in 1..N /\ i \in 1..N /\ i <= n /\ n \in n..N /\ n # 0
        BY <1>3
      <4>2. cs[n].L = L
        BY <4>1, <1>4
      <4>3. h[i] <= h[n]
        BY <4>1, <4>2, <2>4, <1>2 DEF Increasing, N
      <4>4. h[i] \in Level /\ h[n] \in Level
        BY <4>1, <1>1 DEF N
      <4> QED BY <4>3, <4>4 DEF Level
    <3>2. \A q \in 1..h[i] : m2.T[L].ci[q] = m.T[L].ci[q]
      BY <3>1, <1>3, <1>5
    <3>3. cs2[i].L = L
      BY <2>1, <2>4
    <3>4. FrameOK(cs, m.T[L], h, p, i)
      BY <2>1, <2>4
    <3>5. FrameOK(cs2, m2.T[L], h2, p, i)
      BY <3>2, <3>4, <2>2, <1>5, FrameLocal
    <3> QED BY <3>3, <3>5
  <2> QED BY <2>3, <2>4
<1>11. ASSUME NEW i \in 1..Len(cs2) PROVE FrameOK(cs2, m2.T[cs2[i].L], h2, p, i)
  <2>1. CASE i <= n
    BY <2>1, <1>3, <1>10
  <2>2. CASE i > n
    <3>1. i = n + 1 /\ i = Len(cs2) /\ cs2[i].L = L
      BY <2>2, <1>3, <1>4
    <3> QED BY <3>1 DEF cs2
  <2> QED BY <2>1, <2>2, <1>3
<1>12. ASSUME NEW i \in 1..Len(cs2), i = Len(cs2) \/ cs2[i + 1].k = "resume"
       PROVE LastOK(cs2, m2.T[cs2[i].L], h2, p, i)
  <2>1. CASE i = Len(cs2)
    BY <2>1, <1>4 DEF cs2
  <2>2. CASE i # Len(cs2)
    <3>1. i + 1 <= n
      <4>1. CASE i + 1 = n + 1 /\ n # 0
        BY <4>1, <2>2, <1>2, <1>3, <1>12 DEF ReplacesTop
      <4> QED BY <4>1, <2>2, <1>3
    <3>2. cs2[i] = cs[i] /\ cs[i + 1].k = "resume" /\ i \in 1..N /\ i \in 1..n /\ i # N
      BY <3>1, <2>2, <1>3, <1>12
    <3>3. cs[i].L # L /\ cs[i].L \in Threads
      BY <3>1, <3>2, <1>4, <1>15
    <3>4. m2.T[cs2[i].L] = m.T[cs[i].L]
      BY <3>2, <3>3, <1>5
    <3>5. LastOK(cs, m.T[cs[i].L], h, p, i)
      BY <3>2, <1>6
    <3>6. \A j \in 1..i : cs2[j] = cs[j] /\ h2[j] = h[j]
      BY <3>2, <1>3
    <3> QED BY <3>2, <3>4, <3>5, <3>6, LastLocal DEF N
  <2> QED BY <2>1, <2>2
<1>13. \A X \in Threads : SizeOK(m2.T[X])
  BY <1>5, <1>6
<1>14. ASSUME NEW X \in Threads, \A i \in 1..Len(cs2) : cs2[i].L # X
       PROVE  IdleOK(X, m2.T[X], p)
  <2>1. X # L
    BY <1>3, <1>4, <1>14
  <2>2. ASSUME NEW i \in 1..N, cs[i].L = X PROVE FALSE
    <3>1. CASE i <= n
      BY <3>1, <2>2, <1>3, <1>14
    <3>2. CASE i > n
      BY <3>2, <2>1, <2>2, <1>3, <1>4
    <3> QED BY <3>1, <3>2, <1>3
  <2> QED BY <2>1, <2>2, <1>5, <1>6
<1> QED BY <1>3, <1>5, <1>8, <1>9, <1>11, <1>12, <1>13, <1>14 DEF Good, cs2, Increasing

-----------------------------------------------------------------------------
(* A frame comes.                                                          *)

\* The machine m after frame f has come and the thread L has become t.
Pushed(m, f, L, t) == [cs |-> Append(m.cs, f), T |-> [m.T EXCEPT ![L] = t]]

\* What a frame f may save of its thread, which is t0.
Saves(f, t0) ==
  /\ f.k = "pcall" => /\ f.prev = t0.errorJmp /\ f.nCcalls = t0.nCcalls
                      /\ f.errfunc = t0.errfunc /\ f.ci = Len(t0.ci)
                      /\ f.allowhook = t0.allowhook
  /\ f.k = "hook" => t0.allowhook = TRUE
  /\ f.k = "gctm" => f.oldah = t0.allowhook

\* What frame f, which is to be the n-th, makes of the fields of its thread t0.
Sets(f, n, t0, t) ==
  /\ t.nCcalls = t0.nCcalls + IF f.k \in Counted THEN 1 ELSE 0
  /\ t.errorJmp = IF f.k \in Landing THEN n ELSE t0.errorJmp
  /\ t.errfunc \in IF f.k = "pcall" THEN {0, f.ci} ELSE {t0.errfunc}
  /\ t.allowhook = IF f.k \in {"hook", "gctm"} THEN FALSE ELSE t0.allowhook
  /\ t.baseCcalls = t0.baseCcalls /\ t.ended = t0.ended /\ t.status = OK
  /\ \A q \in 1..Len(t0.ci) : f.k # "exec" => t.ci[q] = t0.ci[q]
  /\ f.k = "cfun" => Len(t.ci) = Len(t0.ci) + 1 /\ t.ci[Len(t.ci)] = "C"
  /\ f.k \notin {"exec", "cfun"} => Len(t.ci) = Len(t0.ci)

\* What an execution that starts above level x makes of the call records of its
\* thread t0: it keeps those up to its base, which is that level, and adds its own.
Enters(f, x, t0, t) ==
  f.k = "exec" => /\ f.base = x /\ f.base < Len(t.ci)
                  /\ \A q \in 1..Len(t.ci) :
                       t.ci[q] = IF q <= f.base THEN t0.ci[q] ELSE "lua"

\* The operators of the invariant at a new last frame.
LEMMA AtNewFrame ==
  ASSUME NEW cs \in Seq(Frame), NEW f \in Frame, cs # <<>>, f.k # "resume",
         f.L = cs[Len(cs)].L
  PROVE  LET n   == Len(cs)
             cs2 == Append(cs, f)
         IN  /\ Depth(cs2, n + 1) = Depth(cs, n) + IF f.k \in Counted THEN 1 ELSE 0
             /\ \A j : LandingAt(cs, n, j) =>
                       LandingAt(cs2, n + 1, IF f.k \in Landing THEN n + 1 ELSE j)
             /\ \A ef : HandlerAt(cs, n, ef) /\ f.k # "pcall" => HandlerAt(cs2, n + 1, ef)
             /\ \A ef : f.k = "pcall" /\ ef \in {0, f.ci} => HandlerAt(cs2, n + 1, ef)
             /\ \A ah, p : HookAt(cs, n, ah, p) /\ f.k \notin {"hook", "gctm"} =>
                           HookAt(cs2, n + 1, ah, p)
             /\ f.k \in {"hook", "gctm"} => Guarded(cs2, n + 1)
<1> DEFINE n == Len(cs)
           cs2 == Append(cs, f)
<1>1. n \in Nat \ {0} /\ cs2[n + 1] = f /\ \A i \in 1..n : cs2[i] = cs[i]
  OBVIOUS
<1>2. f.L = cs[n].L
  OBVIOUS
<1> HIDE DEF n, cs2
<1>3. Depth(cs2, n + 1) = Depth(cs, n) + IF f.k \in Counted THEN 1 ELSE 0
  <2>1. Depth(cs2, n) = Depth(cs, n)
    BY <1>1, Local
  <2>2. n + 1 \in Nat \ {0} /\ (n + 1) - 1 = n
    BY <1>1
  <2> QED BY <2>1, <2>2, <1>1, DepthStep
<1>4. ASSUME NEW j, LandingAt(cs, n, j)
      PROVE  LandingAt(cs2, n + 1, IF f.k \in Landing THEN n + 1 ELSE j)
  BY <1>1, <1>4 DEF LandingAt
<1>5. ASSUME NEW ef, HandlerAt(cs, n, ef), f.k # "pcall" PROVE HandlerAt(cs2, n + 1, ef)
  BY <1>1, <1>5 DEF HandlerAt
<1>6. ASSUME NEW ef, f.k = "pcall", ef \in {0, f.ci} PROVE HandlerAt(cs2, n + 1, ef)
  BY <1>1, <1>6 DEF HandlerAt
<1>7. f.k \notin {"hook", "gctm"} => (Guarded(cs2, n + 1) <=> Guarded(cs, n))
  BY <1>1, <1>2 DEF Guarded
<1>8. f.k \in {"hook", "gctm"} => Guarded(cs2, n + 1)
  BY <1>1 DEF Guarded
<1> QED BY <1>3, <1>4, <1>5, <1>6, <1>7, <1>8 DEF HookAt, n, cs2

\* A frame may come if the frame below can call it, it saves what there is, and its
\* thread becomes what the frame calls for.
LEMMA PushGood ==
  ASSUME NEW m \in Machine, NEW h \in Seq(Level), NEW p, Good(m, h, p),
         NEW f \in Frame, NEW t \in lua_State, m.cs # <<>>,
         f.L = m.cs[Len(m.cs)].L, f.k \in Above(m.cs[Len(m.cs)]), f.k # "resume",
         Saves(f, m.T[f.L]), Sets(f, Len(m.cs) + 1, m.T[f.L], t), SizeOK(t),
         t.ended => f.k = "raise" /\ ~f.handled,
         m.T[f.L].status = OK \/ f.k = "exec",
         Enters(f, h[Len(h)], m.T[f.L], t)
  PROVE  /\ Pushed(m, f, f.L, t) \in Machine
         /\ \E h2 \in Seq(Level) : Good(Pushed(m, f, f.L, t), h2, p)
<1> DEFINE L == f.L
           n == Len(m.cs)
           t0 == m.T[L]
           cs2 == Append(m.cs, f)
           m2 == Pushed(m, f, L, t)
           h2 == Append(h, Len(t.ci))
<1>1. /\ m.cs \in Seq(Frame) /\ m.T \in [Threads -> lua_State] /\ n \in Nat \ {0}
      /\ Len(h) = n /\ L \in Threads /\ L = m.cs[n].L
  BY FrameType DEF Machine, Good
<1>2. t.ci \in Seq({"lua", "C"}) /\ t0.ci \in Seq({"lua", "C"}) /\ t0 \in lua_State
  BY <1>1 DEF lua_State
<1>3. Len(t.ci) \in Level
  BY <1>2 DEF SizeOK, Level
<1>4. /\ m2.cs = cs2 /\ m2.T[L] = t /\ \A X \in Threads \ {L} : m2.T[X] = m.T[X]
      /\ m2 \in Machine
  BY <1>1 DEF Pushed, Machine
<1>5. /\ cs2 \in Seq(Frame) /\ Len(cs2) = n + 1 /\ cs2[n + 1] = f
      /\ \A i \in 1..n : cs2[i] = m.cs[i]
      /\ h2 \in Seq(Level) /\ Len(h2) = n + 1 /\ h2[n + 1] = Len(t.ci)
      /\ \A i \in 1..n : h2[i] = h[i]
  BY <1>1, <1>3
<1>6. h[n] \in Level
  BY <1>1
<1>7. LastOK(m.cs, t0, h, p, n)
  BY <1>1 DEF Good
<1>8. FrameOK(m.cs, t0, h, p, n)
  BY <1>1 DEF Good
<1>85. Len(t0.ci) \in Nat /\ Len(t.ci) \in Nat
  <2> HIDE DEF n, t0, cs2, m2, h2, L
  <2>1. Len(t0.ci) \in Nat
    BY <1>2
  <2>2. Len(t.ci) \in Nat
    BY <1>2
  <2> QED BY <2>1, <2>2
<1>9. /\ f.k # "exec" => h[n] = Len(t0.ci)
      /\ h[n] <= Len(t.ci)
      /\ \A q \in 1..h[n] : t.ci[q] = t0.ci[q]
  <2>1. CASE f.k = "exec"
    <3>1. /\ f.base = h[n] /\ f.base < Len(t.ci)
          /\ \A q \in 1..Len(t.ci) : t.ci[q] = IF q <= f.base THEN t0.ci[q] ELSE "lua"
      BY <2>1, <1>1 DEF Enters
    <3> HIDE DEF n, t0, cs2, m2, h2, L
    <3>15. h[n] \in Nat /\ h[n] < Len(t.ci)
      BY <3>1, <1>6 DEF Level
    <3>2. h[n] <= Len(t.ci)
      BY <3>15, <1>85
    <3>3. \A q \in 1..h[n] : t.ci[q] = t0.ci[q]
      <4> SUFFICES ASSUME NEW q \in 1..h[n] PROVE t.ci[q] = t0.ci[q]
        OBVIOUS
      <4>1. q \in 1..Len(t.ci) /\ q <= h[n]
        BY <3>15, <1>85
      <4> QED BY <4>1, <3>1
    <3> QED BY <3>2, <3>3, <2>1
  <2>2. CASE f.k # "exec"
    <3>1. h[n] = Len(t0.ci)
      BY <2>2, <1>1, <1>7 DEF LastOK, OK, YIELD
    <3>2. Len(t.ci) \in {Len(t0.ci), Len(t0.ci) + 1}
      BY <2>2 DEF Sets
    <3>4. \A q \in 1..Len(t0.ci) : t.ci[q] = t0.ci[q]
      BY <2>2 DEF Sets
    <3> HIDE DEF n, t0, cs2, m2, h2, L
    <3>5. h[n] <= Len(t.ci)
      BY <3>1, <3>2, <1>85
    <3>6. \A q \in 1..h[n] : t.ci[q] = t0.ci[q]
      BY <3>1, <3>4
    <3> QED BY <3>1, <3>5, <3>6
  <2> QED BY <2>1, <2>2
<1> HIDE DEF n, t0, cs2, m2, h2, L
<1>10. Steps(m, h, m2, h2, n, L)
  <2>1. ReplacesTop(m.cs, cs2, n, L)
    BY <1>1, <1>5 DEF ReplacesTop, L, n
  <2>2. t.baseCcalls = t0.baseCcalls /\ t.ended = t0.ended
    BY DEF Sets, t0, L
  <2>3. Len(h2) = Len(m2.cs) /\ \A i \in 1..n : h2[i] = h[i]
    BY <1>4, <1>5
  <2>4. h2[n] <= h2[n + 1]
    BY <1>1, <1>5, <1>9
  <2>5. ReplacesTop(m.cs, m2.cs, n, L)
    BY <2>1, <1>4
  <2>6. m2.T[L].baseCcalls = m.T[L].baseCcalls /\ m2.T[L].ended = m.T[L].ended
    BY <2>2, <1>4 DEF t0
  <2>7. \A q \in 1..h[n] : m2.T[L].ci[q] = m.T[L].ci[q]
    BY <1>4, <1>9 DEF t0
  <2> QED BY <2>3, <2>4, <2>5, <2>6, <2>7, <1>4 DEF Steps
<1>11. /\ Depth(cs2, n + 1) = Depth(m.cs, n) + IF f.k \in Counted THEN 1 ELSE 0
       /\ \A j : LandingAt(m.cs, n, j) =>
                 LandingAt(cs2, n + 1, IF f.k \in Landing THEN n + 1 ELSE j)
       /\ \A ef : HandlerAt(m.cs, n, ef) /\ f.k # "pcall" => HandlerAt(cs2, n + 1, ef)
       /\ \A ef : f.k = "pcall" /\ ef \in {0, f.ci} => HandlerAt(cs2, n + 1, ef)
       /\ \A ah, x : HookAt(m.cs, n, ah, x) /\ f.k \notin {"hook", "gctm"} =>
                     HookAt(cs2, n + 1, ah, x)
       /\ f.k \in {"hook", "gctm"} => Guarded(cs2, n + 1)
  BY <1>1, AtNewFrame DEF n, cs2, L
<1>12. LastOK(cs2, t, h2, p, n + 1)
  <2>1. /\ t.nCcalls = t0.nCcalls + IF f.k \in Counted THEN 1 ELSE 0
        /\ t.errorJmp = IF f.k \in Landing THEN n + 1 ELSE t0.errorJmp
        /\ t.errfunc \in IF f.k = "pcall" THEN {0, f.ci} ELSE {t0.errfunc}
        /\ t.allowhook = IF f.k \in {"hook", "gctm"} THEN FALSE ELSE t0.allowhook
        /\ t.status = OK /\ t.ended = t0.ended
    BY DEF Sets, t0, L, n
  <2>2. /\ t0.nCcalls = Depth(m.cs, n) /\ LandingAt(m.cs, n, t0.errorJmp)
        /\ HandlerAt(m.cs, n, t0.errfunc) /\ (HookAt(m.cs, n, t0.allowhook, p) \/ t0.ended)
    BY <1>7 DEF LastOK
  <2>3. t.nCcalls = Depth(cs2, n + 1)
    BY <2>1, <2>2, <1>11
  <2>4. LandingAt(cs2, n + 1, t.errorJmp)
    BY <2>1, <2>2, <1>11
  <2>5. HandlerAt(cs2, n + 1, t.errfunc)
    BY <2>1, <2>2, <1>11
  <2>6. HookAt(cs2, n + 1, t.allowhook, p) \/ t.ended
    <3>1. CASE f.k \in {"hook", "gctm"}
      <4>1. t.allowhook = FALSE
        BY <2>1, <3>1
      <4>2. Guarded(cs2, n + 1)
        BY <3>1, <1>11
      <4> QED BY <4>1, <4>2 DEF HookAt
    <3>2. CASE f.k \notin {"hook", "gctm"}
      <4>1. t.allowhook = t0.allowhook
        BY <2>1, <3>2
      <4> QED BY <4>1, <3>2, <2>1, <2>2, <1>11
    <3> QED BY <3>1, <3>2
  <2> QED BY <2>1, <2>3, <2>4, <2>5, <2>6, <1>5 DEF LastOK
<1>13. LevelOK(cs2, t, h2, n + 1)
  <2>1. n + 1 > 1 /\ (n + 1) - 1 = n /\ h2[n] = h[n] /\ cs2[n + 1] = f /\ h2[n + 1] = Len(t.ci)
    BY <1>1, <1>5
  <2>2. CASE f.k = "exec"
    <3>0. /\ f.base = h[n] /\ f.base < Len(t.ci)
          /\ \A q \in 1..Len(t.ci) : q > f.base => t.ci[q] = "lua"
      BY <2>2, <1>1, <1>6, <1>85 DEF Enters, Level, n
    <3>1. f.base = h[n] /\ f.base < Len(t.ci)
      BY <3>0
    <3>2. \A q \in f.base + 1..Len(t.ci) : t.ci[q] = "lua"
      BY <3>0, <1>6, <1>85 DEF Level
    <3> QED BY <3>1, <3>2, <2>1, <2>2 DEF LevelOK
  <2>3. CASE f.k # "exec"
    <3>1. /\ h[n] = Len(t0.ci)
          /\ f.k = "cfun" => Len(t.ci) = Len(t0.ci) + 1 /\ t.ci[Len(t.ci)] = "C"
          /\ f.k # "cfun" => Len(t.ci) = Len(t0.ci)
      BY <2>3, <1>9 DEF Sets, t0, L
    <3> QED BY <3>1, <2>1, <2>3 DEF LevelOK
  <2> QED BY <2>2, <2>3
<1>14. SavedOK(cs2, h2, p, n + 1)
  <2>1. (n + 1) - 1 = n /\ n + 1 > 1 /\ cs2[n + 1] = f /\ n # 0 /\ h2[n + 1] = Len(t.ci)
    BY <1>1, <1>5
  <2>2. /\ Depth(cs2, n) = Depth(m.cs, n)
        /\ \A j : LandingAt(cs2, n, j) <=> LandingAt(m.cs, n, j)
        /\ \A ef : HandlerAt(cs2, n, ef) <=> HandlerAt(m.cs, n, ef)
        /\ Guarded(cs2, n) <=> Guarded(m.cs, n)
        /\ \A ah, x : HookAt(cs2, n, ah, x) <=> HookAt(m.cs, n, ah, x)
    <3>1. n \in Nat /\ n # 0 /\ \A i \in 1..n : cs2[i] = m.cs[i]
      BY <1>1, <1>5
    <3> QED BY <3>1, Local
  <2>3. /\ t0.nCcalls = Depth(m.cs, n) /\ LandingAt(m.cs, n, t0.errorJmp)
        /\ HandlerAt(m.cs, n, t0.errfunc) /\ (HookAt(m.cs, n, t0.allowhook, p) \/ t0.ended)
    BY <1>7 DEF LastOK
  <2>4. t.ended = t0.ended
    BY DEF Sets, t0, L
  <2>5. CASE f.k = "pcall"
    <3>1. /\ f.prev = t0.errorJmp /\ f.nCcalls = t0.nCcalls /\ f.errfunc = t0.errfunc
          /\ f.ci = Len(t0.ci) /\ f.allowhook = t0.allowhook /\ Len(t.ci) = Len(t0.ci)
      BY <2>5 DEF Saves, Sets, t0, L
    <3>2. ~t0.ended
      BY <2>4, <2>5
    <3> QED BY <3>1, <3>2, <2>1, <2>2, <2>3, <2>5 DEF SavedOK
  <2>6. CASE f.k = "hook"
    <3>1. t0.allowhook = TRUE
      BY <2>6 DEF Saves, t0, L
    <3>2. ~t0.ended
      BY <2>4, <2>6
    <3>3. ~Guarded(m.cs, n)
      BY <3>1, <3>2, <2>3 DEF HookAt
    <3> QED BY <3>3, <2>1, <2>2, <2>6 DEF SavedOK
  <2>7. CASE f.k = "gctm"
    <3>1. f.oldah = t0.allowhook
      BY <2>7 DEF Saves, t0, L
    <3>2. ~t0.ended
      BY <2>4, <2>7
    <3> QED BY <3>1, <3>2, <2>1, <2>2, <2>3, <2>7 DEF SavedOK
  <2>8. CASE f.k \notin {"pcall", "hook", "gctm"}
    BY <2>1, <2>8 DEF SavedOK
  <2> QED BY <2>5, <2>6, <2>7, <2>8
<1>15. FrameOK(cs2, t, h2, p, n + 1)
  <2>1. n + 1 > 1 /\ n + 1 # 1 /\ (n + 1) - 1 = n /\ cs2[n + 1] = f /\ cs2[n] = m.cs[n]
    BY <1>1, <1>5
  <2>2. f.k \in Above(m.cs[n])
    BY DEF n
  <2>3. t.baseCcalls <= Depth(cs2, n + 1)
    <3>1. t.baseCcalls = t0.baseCcalls /\ t0.baseCcalls <= Depth(m.cs, n)
      BY <1>8 DEF FrameOK, Sets, t0, L
    <3>2. Depth(m.cs, n) \in Nat /\ t0.baseCcalls \in Nat
      BY <1>1, <1>2, DepthType DEF lua_State
    <3> QED BY <3>1, <3>2, <1>11
  <2> HIDE DEF Above
  <2> QED BY <2>1, <2>2, <2>3, <1>13, <1>14 DEF FrameOK
<1>16. Good(m2, h2, p)
  BY <1>1, <1>4, <1>5, <1>10, <1>12, <1>15, Change
<1> QED BY <1>4, <1>5, <1>16 DEF m2, L

-----------------------------------------------------------------------------
(* Frames go.                                                              *)

\* The machine m after the frames above n have gone and the thread L has become t.
CutTo(m, n, L, t) == [cs |-> SubSeq(m.cs, 1, n), T |-> [m.T EXCEPT ![L] = t]]

\* What thread fields t are for a stack that ends at frame n with level x.
Fits(cs, t, x, p, n) ==
  /\ t.nCcalls = Depth(cs, n)
  /\ LandingAt(cs, n, t.errorJmp)
  /\ HandlerAt(cs, n, t.errfunc)
  /\ HookAt(cs, n, t.allowhook, p) \/ t.ended
  /\ \/ t.status = OK /\ Len(t.ci) = x
     \/ t.status = YIELD /\ cs[n].k = "resume" /\ Parked(t.ci) /\ ~t.ended

\* The members of a stack.
LEMMA ElementOf ==
  ASSUME NEW S, NEW s \in Seq(S), NEW i \in 1..Len(s)
  PROVE  s[i] \in S
OBVIOUS

\* The first frames of a stack, as a stack.
LEMMA Prefix ==
  ASSUME NEW S, NEW s \in Seq(S), NEW n \in 0..Len(s)
  PROVE  /\ SubSeq(s, 1, n) \in Seq(S) /\ Len(SubSeq(s, 1, n)) = n
         /\ \A i \in 1..n : SubSeq(s, 1, n)[i] = s[i]
OBVIOUS

\* Frames of the running thread may go, if its fields become those of the frame
\* that is then the last.
LEMMA CutGood ==
  ASSUME NEW m \in Machine, NEW h \in Seq(Level), NEW p, Good(m, h, p),
         NEW n \in 1..Len(m.cs), NEW t \in lua_State, NEW L \in Threads,
         L = m.cs[Len(m.cs)].L,
         \A i \in n + 1..Len(m.cs) : m.cs[i].k # "resume",
         t.baseCcalls = m.T[L].baseCcalls, t.ended = m.T[L].ended,
         \A q \in 1..h[n] : t.ci[q] = m.T[L].ci[q],
         Fits(m.cs, t, h[n], p, n), SizeOK(t)
  PROVE  /\ CutTo(m, n, L, t) \in Machine
         /\ \E h2 \in Seq(Level) : Good(CutTo(m, n, L, t), h2, p)
<1> DEFINE m2 == CutTo(m, n, L, t)
           h2 == SubSeq(h, 1, n)
           cs2 == SubSeq(m.cs, 1, n)
<1>1. m.cs \in Seq(Frame) /\ m.T \in [Threads -> lua_State] /\ Len(h) = Len(m.cs)
  BY DEF Machine, Good
<1>2. /\ cs2 \in Seq(Frame) /\ Len(cs2) = n /\ \A i \in 1..n : cs2[i] = m.cs[i]
      /\ h2 \in Seq(Level) /\ Len(h2) = n /\ \A i \in 1..n : h2[i] = h[i]
  <2>1. n \in 0..Len(m.cs) /\ n \in 0..Len(h)
    BY <1>1
  <2> QED BY <1>1, <2>1, Prefix
<1>3. /\ m2.cs = cs2 /\ m2.T[L] = t /\ \A X \in Threads \ {L} : m2.T[X] = m.T[X]
      /\ m2 \in Machine
  BY <1>1, <1>2 DEF CutTo, Machine
<1>4. n \in Nat \ {0} /\ n <= Len(m.cs) /\ Len(m.cs) \in Nat \ {0}
  BY <1>1
<1> HIDE DEF m2, h2, cs2
<1>5. ReplacesTop(m.cs, m2.cs, n, L)
  BY <1>2, <1>3, <1>4 DEF ReplacesTop
<1>6. Steps(m, h, m2, h2, n, L)
  <2>1. Len(m2.cs) = n /\ Len(h2) = n /\ n # n + 1
    BY <1>2, <1>3, <1>4
  <2>2. /\ m2.T[L].baseCcalls = m.T[L].baseCcalls /\ m2.T[L].ended = m.T[L].ended
        /\ \A q \in 1..h[n] : m2.T[L].ci[q] = m.T[L].ci[q]
    BY <1>3
  <2> QED BY <2>1, <2>2, <1>2, <1>3, <1>5 DEF Steps
<1>7. LastOK(m2.cs, m2.T[L], h2, p, Len(m2.cs))
  <2>1. /\ Depth(cs2, n) = Depth(m.cs, n)
        /\ \A j : LandingAt(cs2, n, j) <=> LandingAt(m.cs, n, j)
        /\ \A ef : HandlerAt(cs2, n, ef) <=> HandlerAt(m.cs, n, ef)
        /\ \A ah, x : HookAt(cs2, n, ah, x) <=> HookAt(m.cs, n, ah, x)
    BY <1>2, <1>4, Local
  <2>2. cs2[n] = m.cs[n] /\ h2[n] = h[n] /\ n = Len(cs2)
    BY <1>2, <1>4
  <2> QED BY <2>1, <2>2, <1>3 DEF LastOK, Fits
<1>8. Len(m2.cs) # n + 1
  BY <1>2, <1>3, <1>4
<1>9. Good(m2, h2, p)
  BY <1>2, <1>3, <1>6, <1>7, <1>8, Change
<1> QED BY <1>2, <1>3, <1>9 DEF m2

\* The frames of a coroutine may all go, if it becomes an idle thread.
LEMMA LeaveGood ==
  ASSUME NEW m \in Machine, NEW h \in Seq(Level), NEW p, Good(m, h, p),
         NEW j \in 2..Len(m.cs), NEW t \in lua_State, NEW L \in Threads,
         L = m.cs[j].L, m.cs[j].k = "resume",
         \A i \in j + 1..Len(m.cs) : m.cs[i].k # "resume",
         IdleOK(L, t, p), SizeOK(t)
  PROVE  /\ CutTo(m, j - 1, L, t) \in Machine
         /\ \E h2 \in Seq(Level) : Good(CutTo(m, j - 1, L, t), h2, p)
<1> DEFINE n == j - 1
           m2 == CutTo(m, n, L, t)
           h2 == SubSeq(h, 1, n)
           cs2 == SubSeq(m.cs, 1, n)
           N == Len(m.cs)
<1>1. m.cs \in Seq(Frame) /\ m.T \in [Threads -> lua_State] /\ Len(h) = N
  BY DEF Machine, Good
<1>2. /\ cs2 \in Seq(Frame) /\ Len(cs2) = n /\ \A i \in 1..n : cs2[i] = m.cs[i]
      /\ h2 \in Seq(Level) /\ Len(h2) = n /\ \A i \in 1..n : h2[i] = h[i]
  <2>1. n \in 0..Len(m.cs) /\ n \in 0..Len(h)
    BY <1>1
  <2> QED BY <1>1, <2>1, Prefix
<1>3. /\ m2.cs = cs2 /\ m2.T[L] = t /\ \A X \in Threads \ {L} : m2.T[X] = m.T[X]
      /\ m2 \in Machine
  BY <1>1, <1>2 DEF CutTo, Machine
<1>4. n \in Nat \ {0} /\ n < N /\ N \in Nat /\ j = n + 1
  BY <1>1
<1>5. /\ Threaded(m.cs) /\ Increasing(m.cs, h)
      /\ \A i \in 1..N : FrameOK(m.cs, m.T[m.cs[i].L], h, p, i)
      /\ \A i \in 1..N :
           i = N \/ m.cs[i + 1].k = "resume" => LastOK(m.cs, m.T[m.cs[i].L], h, p, i)
      /\ \A X \in Threads : SizeOK(m.T[X])
      /\ \A X \in Threads : (\A i \in 1..N : m.cs[i].L # X) => IdleOK(X, m.T[X], p)
  BY DEF Good, Increasing
<1>6. \A i \in 1..N : m.cs[i].L \in Threads
  <2>1. \A i \in 1..N : m.cs[i] \in Frame
    BY <1>1
  <2> QED BY <2>1, FrameType
<1> HIDE DEF m2, h2, cs2, N, n
<1>7. \A i \in 1..n : m.cs[i].L # L
  <2> SUFFICES ASSUME NEW i \in 1..n PROVE m.cs[i].L # L
    OBVIOUS
  <2>1. i \in 1..N /\ j \in 1..N /\ i <= j /\ j \in i + 1..j
    BY <1>4
  <2> QED BY <2>1, <1>5 DEF Threaded, N
<1>8. \A i \in j..N : m.cs[i].L = L
  <2> SUFFICES ASSUME NEW i \in j..N PROVE m.cs[i].L = L
    OBVIOUS
  <2>1. i \in 1..N /\ j \in 1..N /\ j <= i
    BY <1>4
  <2>2. \A l \in j + 1..i : m.cs[l].k # "resume"
    BY <1>4 DEF N
  <2> QED BY <2>1, <2>2, <1>5 DEF Threaded, N
<1>9. Threaded(cs2)
  <2> SUFFICES ASSUME NEW i \in 1..n, NEW l \in 1..n, i <= l
      PROVE cs2[i].L = cs2[l].L <=> \A q \in i + 1..l : cs2[q].k # "resume"
    BY <1>2 DEF Threaded
  <2>1. i \in 1..N /\ l \in 1..N
    BY <1>4
  <2>2. m.cs[i].L = m.cs[l].L <=> \A q \in i + 1..l : m.cs[q].k # "resume"
    BY <2>1, <1>5 DEF Threaded, N
  <2>3. \A q \in i + 1..l : cs2[q] = m.cs[q]
    BY <1>2, <1>4
  <2> QED BY <2>2, <2>3, <1>2
<1>10. Increasing(cs2, h2)
  BY <1>2, <1>4, <1>5 DEF Increasing, N
<1>11. ASSUME NEW i \in 1..n PROVE FrameOK(cs2, m2.T[cs2[i].L], h2, p, i)
  <2>1. i \in 1..N /\ i \in Nat \ {0} /\ i <= Len(h) /\ \A l \in 1..i : cs2[l] = m.cs[l] /\ h2[l] = h[l]
    <3>1. i \in 1..N /\ i \in Nat \ {0} /\ i <= Len(h)
      BY <1>1, <1>4
    <3>2. \A l \in 1..i : l \in 1..n
      BY <1>4
    <3> QED BY <3>1, <3>2, <1>2
  <2>2. m2.T[cs2[i].L] = m.T[m.cs[i].L]
    BY <2>1, <1>2, <1>3, <1>6, <1>7
  <2>3. FrameOK(m.cs, m.T[m.cs[i].L], h, p, i)
    BY <2>1, <1>5
  <2> QED BY <2>1, <2>2, <2>3, FrameLocal
<1>12. ASSUME NEW i \in 1..n, i = n \/ cs2[i + 1].k = "resume"
       PROVE LastOK(cs2, m2.T[cs2[i].L], h2, p, i)
  <2>1. /\ i \in 1..N /\ i \in Nat \ {0} /\ i # N
        /\ \A l \in 1..i : cs2[l] = m.cs[l] /\ h2[l] = h[l]
    <3>1. i \in 1..N /\ i \in Nat \ {0} /\ i # N
      BY <1>4
    <3>2. \A l \in 1..i : l \in 1..n
      BY <1>4
    <3> QED BY <3>1, <3>2, <1>2
  <2>2. m2.T[cs2[i].L] = m.T[m.cs[i].L]
    BY <2>1, <1>2, <1>3, <1>6, <1>7
  <2>3. m.cs[i + 1].k = "resume"
    <3>1. CASE i = n
      BY <3>1, <1>4
    <3>2. CASE i # n
      <4>1. i + 1 \in 1..n
        BY <3>2, <1>4
      <4> QED BY <4>1, <3>2, <1>2, <1>12
    <3> QED BY <3>1, <3>2
  <2>4. LastOK(m.cs, m.T[m.cs[i].L], h, p, i)
    BY <2>1, <2>3, <1>5
  <2> QED BY <2>1, <2>2, <2>4, LastLocal DEF N
<1>13. \A X \in Threads : SizeOK(m2.T[X])
  BY <1>3, <1>5
<1>14. ASSUME NEW X \in Threads, \A i \in 1..n : cs2[i].L # X PROVE IdleOK(X, m2.T[X], p)
  <2>1. CASE X = L
    BY <2>1, <1>3
  <2>2. CASE X # L
    <3>1. ASSUME NEW i \in 1..N PROVE m.cs[i].L # X
      <4>1. CASE i \in 1..n
        BY <4>1, <1>2, <1>14
      <4>2. CASE i \in j..N
        BY <4>2, <2>2, <1>8
      <4> QED BY <4>1, <4>2, <1>4
    <3> QED BY <3>1, <2>2, <1>3, <1>5
  <2> QED BY <2>1, <2>2
<1>15. Good(m2, h2, p)
  BY <1>2, <1>3, <1>9, <1>10, <1>11, <1>12, <1>13, <1>14 DEF Good, Increasing
<1> QED BY <1>2, <1>3, <1>15 DEF m2, n

-----------------------------------------------------------------------------
(* A coroutine begins to run, and fields that no frame looks at change.    *)

\* A C function may resume a coroutine that has no frame.
LEMMA ResumeGood ==
  ASSUME NEW m \in Machine, NEW h \in Seq(Level), NEW p, Good(m, h, p),
         NEW f \in Frame, NEW t \in lua_State, m.cs # <<>>,
         m.cs[Len(m.cs)].k = "cfun", f.k = "resume", f.from = m.cs[Len(m.cs)].L, f.prev = 0,
         f.L # MainThread, \A i \in 1..Len(m.cs) : m.cs[i].L # f.L, Len(m.cs) # 1,
         m.T[f.L].status \in {OK, YIELD}, NEW x \in {m.T[f.L].top, "none"},
         t = [m.T[f.L] EXCEPT !.nCcalls = m.T[f.from].nCcalls + 1,
                              !.baseCcalls = m.T[f.from].nCcalls + 1,
                              !.errorJmp = Len(m.cs) + 1, !.top = x]
  PROVE  /\ Pushed(m, f, f.L, t) \in Machine
         /\ Good(Pushed(m, f, f.L, t), Append(h, 1), p)
<1> DEFINE L == f.L
           n == Len(m.cs)
           t0 == m.T[L]
           cs2 == Append(m.cs, f)
           m2 == Pushed(m, f, L, t)
           h2 == Append(h, 1)
<1>1. /\ m.cs \in Seq(Frame) /\ m.T \in [Threads -> lua_State] /\ n \in Nat \ {0}
      /\ Len(h) = n /\ L \in Threads /\ f.from \in Threads
  BY FrameType DEF Machine, Good
<1>24. t \in lua_State
  <2>1. m.T[f.from].nCcalls + 1 \in Nat /\ m.T[L] \in lua_State /\ n + 1 \in Nat
        /\ x \in {"none", "function", "values"}
    BY <1>1 DEF lua_State
  <2> QED BY <2>1 DEF lua_State
<1>2. /\ m2.cs = cs2 /\ m2.T[L] = t /\ \A X \in Threads \ {L} : m2.T[X] = m.T[X]
      /\ m2 \in Machine
  <2>1. m2.cs = cs2 /\ m2.T = [m.T EXCEPT ![L] = t]
    BY DEF Pushed
  <2>2. [m.T EXCEPT ![L] = t] \in [Threads -> lua_State] /\ [m.T EXCEPT ![L] = t][L] = t
    BY <1>1, <1>24
  <2>3. cs2 \in Seq(Frame)
    BY <1>1
  <2> QED BY <2>1, <2>2, <2>3, <1>1 DEF Pushed, Machine
<1>3. 1 \in Level
  BY DEF Level
<1>4. /\ cs2 \in Seq(Frame) /\ Len(cs2) = n + 1 /\ cs2[n + 1] = f
      /\ \A i \in 1..n : cs2[i] = m.cs[i]
      /\ h2 \in Seq(Level) /\ Len(h2) = n + 1 /\ h2[n + 1] = 1
      /\ \A i \in 1..n : h2[i] = h[i]
  BY <1>1, <1>3
<1>5. /\ Threaded(m.cs) /\ Increasing(m.cs, h)
      /\ \A i \in 1..n : FrameOK(m.cs, m.T[m.cs[i].L], h, p, i)
      /\ \A i \in 1..n :
           i = n \/ m.cs[i + 1].k = "resume" => LastOK(m.cs, m.T[m.cs[i].L], h, p, i)
      /\ \A X \in Threads : SizeOK(m.T[X])
      /\ \A X \in Threads : (\A i \in 1..n : m.cs[i].L # X) => IdleOK(X, m.T[X], p)
  BY DEF Good, Increasing
<1>6. \A i \in 1..n : m.cs[i].L \in Threads /\ m.cs[i].L # L
  <2>1. \A i \in 1..n : m.cs[i] \in Frame
    BY <1>1
  <2> QED BY <2>1, FrameType
<1>7. /\ t.nCcalls = m.T[f.from].nCcalls + 1 /\ t.baseCcalls = m.T[f.from].nCcalls + 1
      /\ t.errorJmp = n + 1 /\ t.errfunc = t0.errfunc /\ t.allowhook = t0.allowhook
      /\ t.ended = t0.ended /\ t.status = t0.status /\ t.ci = t0.ci
      /\ t.size_ci = t0.size_ci /\ t.top \in {t0.top, "none"}
  BY <1>1 DEF lua_State
<1>8. m.cs[n].k = "cfun" /\ f.from = m.cs[n].L /\ t0.status \in {OK, YIELD} /\ n # 1
  OBVIOUS
<1> HIDE DEF L, n, t0, cs2, m2, h2
<1>9. IdleOK(L, t0, p)
  BY <1>1, <1>5, <1>6 DEF t0
<1>10. /\ t.errfunc = 0 /\ (t.allowhook = FALSE => t.ended \/ p # "run")
       /\ t.status = YIELD => Parked(t.ci) /\ ~t.ended
       /\ t.status = OK => Len(t.ci) = 1
       /\ t.status \in {OK, YIELD}
  <2>1. L # MainThread
    BY DEF L
  <2> QED BY <2>1, <1>7, <1>8, <1>9 DEF IdleOK
<1>11. /\ Depth(cs2, n) = Depth(m.cs, n) /\ Depth(cs2, n + 1) = Depth(m.cs, n) + 1
  <2>1. Depth(cs2, n) = Depth(m.cs, n)
    BY <1>1, <1>4, Local
  <2>2. n + 1 \in Nat \ {0} /\ (n + 1) - 1 = n /\ cs2[n + 1].k \in Counted
    BY <1>1, <1>4 DEF Counted
  <2> QED BY <2>1, <2>2, DepthStep
<1>12. m.T[f.from].nCcalls = Depth(m.cs, n)
  <2>1. n \in 1..n
    BY <1>1
  <2>2. LastOK(m.cs, m.T[m.cs[n].L], h, p, n)
    BY <2>1, <1>5
  <2>3. m.T[m.cs[n].L].nCcalls = Depth(m.cs, n)
    BY <2>2 DEF LastOK
  <2> QED BY <2>3, <1>8
<1>13. Threaded(cs2)
  <2>0. Len(cs2) = n + 1
    BY <1>4
  <2> SUFFICES ASSUME NEW i \in 1..n + 1, NEW l \in 1..n + 1, i <= l
      PROVE cs2[i].L = cs2[l].L <=> \A q \in i + 1..l : cs2[q].k # "resume"
    BY <2>0 DEF Threaded
  <2>1. CASE l <= n
    <3>1. i \in 1..n /\ l \in 1..n /\ \A q \in i + 1..l : q \in 1..n
      BY <1>1, <2>1
    <3>2. m.cs[i].L = m.cs[l].L <=> \A q \in i + 1..l : m.cs[q].k # "resume"
      BY <3>1, <1>5 DEF Threaded, n
    <3> QED BY <3>1, <3>2, <1>4
  <2>2. CASE l = n + 1 /\ i <= n
    <3>1. cs2[i].L # L /\ cs2[l].L = L /\ cs2[l].k = "resume" /\ l \in i + 1..l
      BY <2>2, <1>1, <1>4, <1>6 DEF L
    <3> QED BY <3>1
  <2>3. CASE l = n + 1 /\ i = n + 1
    BY <2>3, <1>1
  <2>4. l <= n \/ (l = n + 1 /\ i <= n) \/ (l = n + 1 /\ i = n + 1)
    BY <1>1
  <2> QED BY <2>1, <2>2, <2>3, <2>4
<1>14. Increasing(cs2, h2)
  <2> SUFFICES ASSUME NEW i \in 1..n + 1, NEW l \in 1..n + 1, i <= l, cs2[i].L = cs2[l].L
      PROVE h2[i] <= h2[l]
    BY <1>4 DEF Increasing
  <2>1. CASE l <= n
    <3>1. i \in 1..n /\ l \in 1..n
      BY <1>1, <2>1
    <3> QED BY <3>1, <1>4, <1>5 DEF Increasing, n
  <2>2. CASE l = n + 1 /\ i <= n
    BY <2>2, <1>1, <1>4, <1>6 DEF L
  <2>3. CASE l = n + 1 /\ i = n + 1
    BY <2>3, <1>1, <1>4
  <2>4. l <= n \/ (l = n + 1 /\ i <= n) \/ (l = n + 1 /\ i = n + 1)
    BY <1>1
  <2> QED BY <2>1, <2>2, <2>3, <2>4
<1>15. FrameOK(cs2, t, h2, p, n + 1)
  <2>1. n + 1 > 2 /\ n + 1 # 1 /\ (n + 1) - 1 = n /\ cs2[n + 1] = f /\ cs2[n] = m.cs[n]
        /\ f.k = "resume" /\ h2[n + 1] = 1 /\ f.from = m.cs[n].L /\ f.prev = 0
    BY <1>1, <1>4, <1>8
  <2>2. f.k \in Above(m.cs[n])
    BY <2>1, <1>8 DEF Above
  <2>3. t.baseCcalls = Depth(cs2, n + 1)
    BY <1>7, <1>11, <1>12
  <2>4. LevelOK(cs2, t, h2, n + 1)
    BY <2>1 DEF LevelOK
  <2>5. SavedOK(cs2, h2, p, n + 1)
    BY <2>1 DEF SavedOK
  <2>6. t.baseCcalls <= Depth(cs2, n + 1)
    <3>1. Depth(cs2, n + 1) \in Nat
      BY <1>1, DepthType
    <3> QED BY <2>3, <3>1
  <2> HIDE DEF Above
  <2> QED BY <2>1, <2>2, <2>3, <2>4, <2>5, <2>6 DEF FrameOK
<1>16. LastOK(cs2, t, h2, p, n + 1)
  <2>1. LandingAt(cs2, n + 1, n + 1)
    BY <1>1, <1>4 DEF LandingAt, Landing
  <2>2. HandlerAt(cs2, n + 1, 0)
    BY DEF HandlerAt
  <2>3. ~Guarded(cs2, n + 1)
    <3> SUFFICES ASSUME NEW i \in 1..n + 1, cs2[i].L = cs2[n + 1].L PROVE cs2[i].k = "resume"
      BY DEF Guarded
    <3>1. i = n + 1
      BY <1>1, <1>4, <1>6 DEF L
    <3> QED BY <3>1, <1>4
  <2>4. HookAt(cs2, n + 1, t.allowhook, p) \/ t.ended
    BY <2>3, <1>10 DEF HookAt
  <2>5. t.nCcalls = Depth(cs2, n + 1) /\ t.errorJmp = n + 1 /\ t.errfunc = 0
    BY <1>7, <1>10, <1>11, <1>12
  <2>6. cs2[n + 1].k = "resume" /\ Len(cs2) = n + 1 /\ h2[n + 1] = 1
    BY <1>4
  <2> HIDE DEF Parked
  <2> QED BY <2>1, <2>2, <2>4, <2>5, <2>6, <1>10 DEF LastOK
<1>17. ASSUME NEW i \in 1..n PROVE FrameOK(cs2, m2.T[cs2[i].L], h2, p, i)
  <2>1. i \in Nat \ {0} /\ i <= Len(h) /\ \A l \in 1..i : cs2[l] = m.cs[l] /\ h2[l] = h[l]
    <3>1. \A l \in 1..i : l \in 1..n
      BY <1>1
    <3> QED BY <3>1, <1>1, <1>4
  <2>2. m2.T[cs2[i].L] = m.T[m.cs[i].L]
    <3>1. cs2[i] = m.cs[i]
      BY <1>4
    <3>2. m.cs[i].L \in Threads \ {L}
      BY <1>6
    <3> QED BY <3>1, <3>2, <1>2
  <2>3. FrameOK(m.cs, m.T[m.cs[i].L], h, p, i)
    BY <1>5
  <2>4. cs2[i] = m.cs[i] /\ h \in Seq(Level)
    BY <2>1
  <2> DEFINE z == m.T[m.cs[i].L]
             y == m2.T[cs2[i].L]
  <2>5. y = z /\ FrameOK(m.cs, z, h, p, i)
    BY <2>2, <2>3
  <2> HIDE DEF z, y
  <2>6. FrameOK(cs2, y, h2, p, i)
    BY <2>1, <2>4, <2>5, FrameLocal
  <2> QED BY <2>6 DEF y
<1>18. ASSUME NEW i \in 1..n, i = n \/ cs2[i + 1].k = "resume"
       PROVE LastOK(cs2, m2.T[cs2[i].L], h2, p, i)
  <2>1. i \in Nat \ {0} /\ \A l \in 1..i : cs2[l] = m.cs[l] /\ h2[l] = h[l]
    <3>1. \A l \in 1..i : l \in 1..n
      BY <1>1
    <3> QED BY <3>1, <1>1, <1>4
  <2>2. m2.T[cs2[i].L] = m.T[m.cs[i].L]
    <3>1. cs2[i] = m.cs[i]
      BY <1>4
    <3>2. m.cs[i].L \in Threads \ {L}
      BY <1>6
    <3> QED BY <3>1, <3>2, <1>2
  <2>3. i = n \/ m.cs[i + 1].k = "resume"
    <3>1. CASE i # n
      <4>1. i + 1 \in 1..n
        BY <3>1, <1>1
      <4> QED BY <4>1, <3>1, <1>4, <1>18
    <3> QED BY <3>1
  <2>4. LastOK(m.cs, m.T[m.cs[i].L], h, p, i)
    BY <2>3, <1>5
  <2>5. i # Len(m.cs) \/ m.cs[i].k # "resume"
    BY <1>8 DEF n
  <2> QED BY <2>1, <2>2, <2>4, <2>5, LastLocal
<1>19. \A X \in Threads : SizeOK(m2.T[X])
  <2>1. SizeOK(t)
    <3>1. SizeOK(t0)
      BY <1>1, <1>5 DEF t0
    <3> QED BY <3>1, <1>7 DEF SizeOK
  <2> QED BY <2>1, <1>2, <1>5
<1>20. ASSUME NEW X \in Threads, \A i \in 1..n + 1 : cs2[i].L # X PROVE IdleOK(X, m2.T[X], p)
  <2>1. X # L
    BY <1>1, <1>4, <1>20 DEF L
  <2>2. \A i \in 1..n : m.cs[i].L # X
    BY <1>1, <1>4, <1>20
  <2> QED BY <2>1, <2>2, <1>2, <1>5
<1>21. ASSUME NEW i \in 1..n + 1 PROVE FrameOK(cs2, m2.T[cs2[i].L], h2, p, i)
  <2>1. CASE i = n + 1
    BY <2>1, <1>2, <1>4, <1>15 DEF L
  <2>2. CASE i # n + 1
    <3>1. i \in 1..n
      BY <2>2, <1>1
    <3> QED BY <3>1, <1>17
  <2> QED BY <2>1, <2>2
<1>22. ASSUME NEW i \in 1..n + 1, i = n + 1 \/ cs2[i + 1].k = "resume"
       PROVE LastOK(cs2, m2.T[cs2[i].L], h2, p, i)
  <2>1. CASE i = n + 1
    BY <2>1, <1>2, <1>4, <1>16 DEF L
  <2>2. CASE i # n + 1
    <3>1. i \in 1..n
      BY <2>2, <1>1
    <3> QED BY <3>1, <2>2, <1>18, <1>22
  <2> QED BY <2>1, <2>2
<1>23. Good(m2, h2, p)
  BY <1>2, <1>4, <1>13, <1>14, <1>19, <1>20, <1>21, <1>22 DEF Good, Increasing
<1> QED BY <1>2, <1>23 DEF m2, h2, L

\* The fields of an idle thread may change to those of another idle thread.
LEMMA IdleGood ==
  ASSUME NEW m \in Machine, NEW h, NEW p, Good(m, h, p), NEW L \in Threads,
         \A i \in 1..Len(m.cs) : m.cs[i].L # L,
         NEW t \in lua_State, IdleOK(L, t, p), SizeOK(t)
  PROVE  LET m2 == [m EXCEPT !.T = [m.T EXCEPT ![L] = t]]
         IN  m2 \in Machine /\ Good(m2, h, p)
<1> DEFINE m2 == [m EXCEPT !.T = [m.T EXCEPT ![L] = t]]
<1>1. /\ m2.cs = m.cs /\ m2.T[L] = t /\ \A X \in Threads \ {L} : m2.T[X] = m.T[X]
      /\ m2 \in Machine /\ m.cs \in Seq(Frame)
  BY DEF Machine
<1>2. \A i \in 1..Len(m.cs) : m.cs[i].L \in Threads \ {L}
  <2>1. \A i \in 1..Len(m.cs) : m.cs[i] \in Frame
    BY <1>1
  <2> QED BY <2>1, FrameType
<1> HIDE DEF m2
<1>3. \A i \in 1..Len(m.cs) : m2.T[m.cs[i].L] = m.T[m.cs[i].L]
  BY <1>1, <1>2
<1>4. Good(m2, h, p)
  BY <1>1, <1>3 DEF Good
<1> QED BY <1>1, <1>4 DEF m2

\* The size of a CallInfo array is looked at by no frame.
LEMMA SizeGood ==
  ASSUME NEW m \in Machine, NEW h \in Seq(Level), NEW p, Good(m, h, p), NEW L \in Threads,
         NEW x \in Nat, SizeOK([m.T[L] EXCEPT !.size_ci = x])
  PROVE  LET m2 == [m EXCEPT !.T[L].size_ci = x]
         IN  m2 \in Machine /\ Good(m2, h, p)
<1> DEFINE m2 == [m EXCEPT !.T[L].size_ci = x]
           t == [m.T[L] EXCEPT !.size_ci = x]
<1>1. m.cs \in Seq(Frame) /\ m.T \in [Threads -> lua_State] /\ Len(h) = Len(m.cs)
  BY DEF Machine, Good
<1>2. t \in lua_State
  BY <1>1 DEF lua_State
<1>3. /\ m2.cs = m.cs /\ m2.T = [m.T EXCEPT ![L] = t] /\ m2 \in Machine
  BY <1>1, <1>2 DEF Machine
<1>4. m2.T[L] = t /\ \A X \in Threads \ {L} : m2.T[X] = m.T[X]
  BY <1>1, <1>3
<1>5. ASSUME NEW X \in Threads
      PROVE  /\ m2.T[X].status = m.T[X].status /\ m2.T[X].nCcalls = m.T[X].nCcalls
             /\ m2.T[X].baseCcalls = m.T[X].baseCcalls /\ m2.T[X].ci = m.T[X].ci
             /\ m2.T[X].allowhook = m.T[X].allowhook /\ m2.T[X].errfunc = m.T[X].errfunc
             /\ m2.T[X].errorJmp = m.T[X].errorJmp /\ m2.T[X].top = m.T[X].top
             /\ m2.T[X].ended = m.T[X].ended
  <2>1. CASE X = L
    <3>1. m.T[L] \in lua_State
      BY <1>1
    <3> HIDE DEF m2
    <3>2. m2.T[X] = t
      BY <1>4, <2>1
    <3> QED BY <2>1, <3>1, <3>2 DEF lua_State
  <2>2. CASE X # L
    <3>1. m2.T[X] = m.T[X]
      BY <1>4, <2>2
    <3> HIDE DEF m2
    <3> QED BY <3>1
  <2> QED BY <2>1, <2>2
<1>6. \A i \in 1..Len(m.cs) : m.cs[i].L \in Threads
  <2>1. \A i \in 1..Len(m.cs) : m.cs[i] \in Frame
    BY <1>1
  <2> QED BY <2>1, FrameType
<1>7. SizeOK(t)
  OBVIOUS
<1> HIDE DEF m2, t
<1>8. ASSUME NEW i \in 1..Len(m.cs), FrameOK(m.cs, m.T[m.cs[i].L], h, p, i)
      PROVE  FrameOK(m.cs, m2.T[m.cs[i].L], h, p, i)
  BY <1>1, <1>5, <1>6, <1>8, FrameLocal
<1>9. ASSUME NEW i \in 1..Len(m.cs), LastOK(m.cs, m.T[m.cs[i].L], h, p, i)
      PROVE  LastOK(m.cs, m2.T[m.cs[i].L], h, p, i)
  BY <1>5, <1>6, <1>9 DEF LastOK
<1>10. ASSUME NEW X \in Threads, IdleOK(X, m.T[X], p) PROVE IdleOK(X, m2.T[X], p)
  BY <1>5, <1>10 DEF IdleOK
<1>11. \A X \in Threads : SizeOK(m2.T[X])
  BY <1>4, <1>7 DEF Good
<1>12. Good(m2, h, p)
  BY <1>3, <1>8, <1>9, <1>10, <1>11 DEF Good
<1> QED BY <1>3, <1>12 DEF m2

-----------------------------------------------------------------------------
(* Machines in which frames and fields agree.                              *)

Sound(m, p) == m \in Machine /\ \E h \in Seq(Level) : Good(m, h, p)

\* No depth of the stack is greater than b.
Within(cs, b) == \A i \in 1..Len(cs) : Depth(cs, i) <= b

\* What the frame that runs can do depends on its thread being able to run.
CanRun(m, L) == m.cs # <<>> /\ m.cs[Len(m.cs)].L = L /\ m.T[L].status = OK

\* The last frame is one of its thread, whose fields are those it calls for.
LEMMA TopOK ==
  ASSUME NEW m \in Machine, NEW h \in Seq(Level), NEW p, Good(m, h, p), m.cs # <<>>
  PROVE  LET n == Len(m.cs)
             L == m.cs[n].L
         IN  /\ m.cs \in Seq(Frame) /\ n \in Nat \ {0} /\ L \in Threads /\ m.cs[n] \in Frame
             /\ m.T \in [Threads -> lua_State] /\ m.T[L] \in lua_State
             /\ Len(h) = n /\ h[n] \in Level
             /\ LastOK(m.cs, m.T[L], h, p, n) /\ FrameOK(m.cs, m.T[L], h, p, n)
             /\ SizeOK(m.T[L])
<1> DEFINE n == Len(m.cs)
           L == m.cs[n].L
<1>1. m.cs \in Seq(Frame) /\ m.T \in [Threads -> lua_State] /\ n \in Nat \ {0} /\ Len(h) = n
  BY DEF Machine, Good
<1>2. m.cs[n] \in Frame /\ h[n] \in Level
  BY <1>1
<1>3. L \in Threads
  BY <1>2, FrameType
<1> HIDE DEF n, L
<1>4. LastOK(m.cs, m.T[L], h, p, n) /\ FrameOK(m.cs, m.T[L], h, p, n) /\ SizeOK(m.T[L])
  BY <1>1, <1>3 DEF Good, n, L
<1> QED BY <1>1, <1>2, <1>3, <1>4 DEF n, L

\* The fields of a thread, one by one.
LEMMA StateType ==
  ASSUME NEW t \in lua_State
  PROVE  /\ t.status \in {OK, YIELD, ERRRUN, ERRERR} /\ t.nCcalls \in Nat /\ t.baseCcalls \in Nat
         /\ t.ci \in Seq({"lua", "C"}) /\ t.size_ci \in Nat /\ t.allowhook \in BOOLEAN
         /\ t.errfunc \in Nat /\ t.errorJmp \in Nat /\ t.top \in {"none", "function", "values"}
         /\ t.ended \in BOOLEAN
BY DEF lua_State

\* A thread that runs anything but a lua_resume or an error can run.
LEMMA TopRuns ==
  ASSUME NEW m \in Machine, NEW h \in Seq(Level), NEW p, Good(m, h, p), m.cs # <<>>,
         m.cs[Len(m.cs)].k \notin {"resume", "raise"}
  PROVE  LET t == m.T[m.cs[Len(m.cs)].L]
         IN  t.status = OK /\ t.ended = FALSE /\ h[Len(m.cs)] = Len(t.ci)
<1> DEFINE n == Len(m.cs)
           t == m.T[m.cs[n].L]
<1>1. LastOK(m.cs, t, h, p, n) /\ FrameOK(m.cs, t, h, p, n) /\ t \in lua_State
  BY TopOK
<1> HIDE DEF n, t
<1>2. m.cs[n].k \notin {"resume", "raise"}
  BY DEF n
<1>3. t.status = OK /\ h[n] = Len(t.ci)
  BY <1>1, <1>2 DEF LastOK
<1>4. ~t.ended
  BY <1>1, <1>2 DEF FrameOK
<1>5. t.ended \in BOOLEAN
  BY <1>1, StateType
<1>6. t.ended = FALSE
  BY <1>4, <1>5
<1> QED BY <1>3, <1>6 DEF n, t

\* A frame that is not counted leaves the depth as it was.
LEMMA WithinPush ==
  ASSUME NEW cs \in Seq(Frame), NEW f \in Frame, NEW b \in Nat, cs # <<>>,
         f.k \notin Counted, Within(cs, b)
  PROVE  Within(Append(cs, f), b)
<1> DEFINE n == Len(cs)
           cs2 == Append(cs, f)
<1>1. n \in Nat \ {0} /\ Len(cs2) = n + 1 /\ cs2[n + 1] = f /\ \A i \in 1..n : cs2[i] = cs[i]
  OBVIOUS
<1> HIDE DEF n, cs2
<1>2. ASSUME NEW i \in 1..n PROVE Depth(cs2, i) = Depth(cs, i)
  <2>1. i \in Nat /\ \A l \in 1..i : cs2[l] = cs[l]
    BY <1>1
  <2> QED BY <2>1, Local
<1>3. Depth(cs2, n + 1) = Depth(cs2, n)
  <2>1. n + 1 \in Nat \ {0} /\ (n + 1) - 1 = n
    BY <1>1
  <2>2. Depth(cs2, n) \in Nat
    BY <1>1, DepthType
  <2> QED BY <2>1, <2>2, <1>1, DepthStep
<1>4. ASSUME NEW i \in 1..n + 1 PROVE Depth(cs2, i) <= b
  <2>1. CASE i = n + 1
    <3>1. n \in 1..n
      BY <1>1
    <3>2. Depth(cs, n) <= b
      BY <3>1 DEF Within, n
    <3> QED BY <2>1, <3>1, <3>2, <1>2, <1>3
  <2>2. CASE i # n + 1
    <3>1. i \in 1..n
      BY <2>2, <1>1
    <3> QED BY <3>1, <1>2 DEF Within, n
  <2> QED BY <2>1, <2>2
<1> QED BY <1>1, <1>4 DEF Within, cs2

\* The first frames of a stack are no deeper.
LEMMA WithinPrefix ==
  ASSUME NEW cs \in Seq(Frame), NEW n \in 0..Len(cs), NEW b,
         \A i \in 1..n : Depth(cs, i) <= b
  PROVE  Within(SubSeq(cs, 1, n), b)
<1> DEFINE cs2 == SubSeq(cs, 1, n)
<1>1. Len(cs2) = n /\ \A i \in 1..n : cs2[i] = cs[i]
  BY Prefix
<1>2. n \in Nat
  OBVIOUS
<1> HIDE DEF cs2
<1>3. ASSUME NEW i \in 1..n PROVE Depth(cs2, i) <= b
  <2>1. i \in Nat /\ \A l \in 1..i : cs2[l] = cs[l]
    BY <1>1, <1>2
  <2> QED BY <2>1, Local
<1> QED BY <1>1, <1>3 DEF Within, cs2

-----------------------------------------------------------------------------
(* The functions of ldo.c.                                                 *)

\* Every push is one of the lemmas' pushes.
LEMMA PushIs ==
  ASSUME NEW m \in Machine, NEW f, NEW L \in Threads
  PROVE  Push(m, f) = Pushed(m, f, L, m.T[L])
<1>1. m.T = [m.T EXCEPT ![L] = m.T[L]]
  BY DEF Machine
<1>2. Push(m, f) = [cs |-> Append(m.cs, f), T |-> m.T]
  BY DEF Push, Machine
<1> QED BY <1>1, <1>2 DEF Pushed

\* luaG_errormsg may begin.
LEMMA RaiseGood ==
  ASSUME NEW m, NEW p, NEW L, Sound(m, p), CanRun(m, L),
         m.cs[Len(m.cs)].k \in {"exec", "cfun", "call", "resume"}
  PROVE  /\ Sound(Raise(m, L), p)
         /\ \A b \in Nat : Within(m.cs, b) => Within(Raise(m, L).cs, b)
<1> DEFINE f == RaiseOf(L, FALSE)
           t == m.T[L]
           n == Len(m.cs)
<1>1. PICK h \in Seq(Level) : m \in Machine /\ Good(m, h, p)
  BY DEF Sound
<1>2. /\ m.cs # <<>> /\ L = m.cs[n].L /\ t.status = OK
      /\ m.cs \in Seq(Frame) /\ L \in Threads /\ t \in lua_State /\ SizeOK(t)
      /\ LastOK(m.cs, t, h, p, n)
  BY <1>1, TopOK DEF CanRun
<1>3. /\ f \in Frame /\ f.k = "raise" /\ f.L = L /\ f.handled = FALSE
  BY <1>2 DEF RaiseOf, Frame
<1>4. f.k \in Above(m.cs[n])
  BY <1>3 DEF Above
<1>5. Raise(m, L) = Pushed(m, f, L, t)
  BY <1>1, <1>2, PushIs DEF Raise
<1> HIDE DEF f, t, n
<1>6. Saves(f, t) /\ Sets(f, n + 1, t, t)
  <2>1. t.nCcalls \in Nat
    BY <1>2, StateType
  <2>2. Saves(f, t)
    BY <1>3 DEF Saves
  <2>3. t.nCcalls = t.nCcalls + 0
    BY <2>1
  <2> QED BY <2>2, <2>3, <1>2, <1>3 DEF Sets, Counted, Landing
<1>7. Sound(Pushed(m, f, L, t), p)
  <2>1. /\ f.L = L /\ m.T[L] = t /\ n = Len(m.cs) /\ SizeOK(t) /\ m.T[L].status = OK
    BY <1>2, <1>3 DEF t, n
  <2>15. Enters(f, h[Len(h)], m.T[f.L], t)
    BY <1>3 DEF Enters
  <2>2. /\ Pushed(m, f, f.L, t) \in Machine
        /\ \E h2 \in Seq(Level) : Good(Pushed(m, f, f.L, t), h2, p)
    BY <2>1, <2>15, <1>1, <1>2, <1>3, <1>4, <1>6, PushGood
  <2> QED BY <2>1, <2>2 DEF Sound
<1>8. ASSUME NEW b \in Nat, Within(m.cs, b) PROVE Within(Append(m.cs, f), b)
  BY <1>2, <1>3, <1>8, WithinPush DEF Counted
<1> QED BY <1>5, <1>7, <1>8 DEF Pushed

\* What the calls of a frame say of the frame.
LEMMA AboveType ==
  ASSUME NEW f \in Frame, NEW k, k \in Above(f)
  PROVE  /\ k # "close"
         /\ k = "resume" => f.k = "cfun"
         /\ k = "raise" => f.k \in {"exec", "cfun", "call", "resume"}
         /\ k = "call" => f.k \in {"exec", "cfun", "pcall", "hook", "gctm", "raise"}
         /\ k = "hook" => f.k = "exec"
         /\ k = "pcall" => f.k = "cfun"
         /\ k = "exec" => f.k \in {"call", "resume"}
         /\ k = "cfun" => f.k \in {"exec", "call"}
         /\ k = "gctm" => f.k \in {"exec", "cfun", "close"}
BY FrameType DEF Above

\* Where an error of the running thread goes.
LEMMA Landed ==
  ASSUME NEW m \in Machine, NEW h \in Seq(Level), NEW p, Good(m, h, p), m.cs # <<>>
  PROVE  LET n == Len(m.cs)
             t == m.T[m.cs[n].L]
             j == t.errorJmp
         IN  /\ j \in 0..n
             /\ j = 0 => \A i \in 1..n : m.cs[i].k \notin Landing
             /\ j # 0 => /\ m.cs[j].k \in Landing /\ m.cs[j].L = m.cs[n].L
                         /\ FrameOK(m.cs, t, h, p, j)
                         /\ h[j] <= h[n]
                         /\ m.cs[j].k # "pcall" => t.errfunc = 0
                         /\ m.cs[j].k # "resume" => t.status = OK /\ Len(t.ci) = h[n]
             /\ j = 0 => t.errfunc = 0 /\ t.status = OK
             /\ \A i \in j + 1..n : m.cs[i].k \notin Landing
<1> DEFINE n == Len(m.cs)
           L == m.cs[n].L
           t == m.T[L]
           j == t.errorJmp
<1>1. /\ n \in Nat \ {0} /\ LastOK(m.cs, t, h, p, n) /\ Len(h) = n
  BY TopOK
<1>2. /\ Threaded(m.cs) /\ Increasing(m.cs, h)
      /\ \A i \in 1..n : FrameOK(m.cs, m.T[m.cs[i].L], h, p, i)
  BY DEF Good, Increasing
<1>3. m.cs[n].L = L /\ n = Len(m.cs) /\ t = m.T[L]
  OBVIOUS
<1> HIDE DEF n, L, t, j
<1>4. LandingAt(m.cs, n, j) /\ HandlerAt(m.cs, n, t.errfunc)
  BY <1>1 DEF LastOK, j
<1>5. /\ j \in 0..n /\ \A i \in j + 1..n : m.cs[i].k \notin Landing
      /\ j # 0 => m.cs[j].k \in Landing
  BY <1>4 DEF LandingAt
<1>6. ASSUME j # 0 PROVE m.cs[j].L = L /\ h[j] <= h[n] /\ FrameOK(m.cs, t, h, p, j)
  <2>1. j \in 1..n /\ n \in 1..n /\ j <= n
    BY <1>1, <1>5, <1>6
  <2>2. \A i \in j + 1..n : m.cs[i].k # "resume"
    BY <1>5 DEF Landing
  <2>3. m.cs[j].L = m.cs[n].L
    BY <2>1, <2>2, <1>2, <1>3 DEF Threaded
  <2>4. h[j] <= h[n]
    BY <2>1, <2>3, <1>2, <1>3 DEF Increasing
  <2> QED BY <2>1, <2>3, <2>4, <1>2, <1>3
<1>7. ASSUME j = 0 \/ m.cs[j].k # "pcall" PROVE t.errfunc = 0
  <2> SUFFICES ASSUME t.errfunc # 0 PROVE FALSE
    OBVIOUS
  <2>1. PICK i \in 1..n : m.cs[i].k = "pcall" /\ \A l \in i + 1..n : m.cs[l].k \notin {"pcall", "resume"}
    BY <1>4 DEF HandlerAt
  <2>2. m.cs[i].k \in Landing
    BY <2>1 DEF Landing
  <2>3. j # 0 /\ i < j
    BY <2>1, <2>2, <1>1, <1>5, <1>7
  <2>4. j \in i + 1..n /\ m.cs[j].k \in {"resume", "close"}
    BY <2>1, <2>3, <1>1, <1>5, <1>7 DEF Landing
  <2>5. m.cs[j].k = "close"
    BY <2>1, <2>4
  <2>6. FrameOK(m.cs, t, h, p, j) /\ j > 1 /\ j - 1 \in 1..n
    BY <2>3, <1>1, <1>5, <1>6
  <2>7. "close" \in Above(m.cs[j - 1])
    BY <2>5, <2>6 DEF FrameOK
  <2>8. m.cs[j - 1] \in Frame
    BY <2>6, <1>3 DEF Machine
  <2> QED BY <2>7, <2>8, AboveType
<1>8. ASSUME j = 0 \/ m.cs[j].k # "resume" PROVE t.status = OK /\ Len(t.ci) = h[n]
  <2>1. m.cs[n].k # "resume"
    <3>1. CASE j = n
      BY <3>1, <1>1, <1>8
    <3>2. CASE j # n
      BY <3>2, <1>1, <1>5 DEF Landing
    <3> QED BY <3>1, <3>2
  <2> QED BY <2>1, <1>1 DEF LastOK
<1>9. j = 0 => \A i \in 1..n : m.cs[i].k \notin Landing
  BY <1>5
<1> QED BY <1>5, <1>6, <1>7, <1>8, <1>9 DEF n, L, t, j

\* luaD_pcall catches an error.
LEMMA CaughtGood ==
  ASSUME NEW m \in Machine, NEW h \in Seq(Level), NEW p, Good(m, h, p), m.cs # <<>>,
         NEW L, L = m.cs[Len(m.cs)].L, m.T[L].errorJmp # 0,
         m.cs[m.T[L].errorJmp].k = "pcall"
  PROVE  LET j == m.T[L].errorJmp
         IN  /\ j \in 2..Len(m.cs)
             /\ Sound(CutTo(m, j - 1, L, Caught(m.T[L], m.cs[j])), p)
<1> DEFINE n == Len(m.cs)
           t == m.T[L]
           j == t.errorJmp
           f == m.cs[j]
           c == Caught(t, f)
<1>1. /\ n \in Nat \ {0} /\ L \in Threads /\ t \in lua_State /\ SizeOK(t) /\ Len(h) = n
      /\ m.cs \in Seq(Frame)
  BY TopOK
<1>2. /\ j \in 1..n /\ f.k = "pcall" /\ f.L = L /\ FrameOK(m.cs, t, h, p, j)
      /\ h[j] <= h[n] /\ t.status = OK /\ Len(t.ci) = h[n]
      /\ \A i \in j + 1..n : m.cs[i].k \notin Landing
  <2>1. L = m.cs[n].L /\ j # 0 /\ f.k = "pcall"
    OBVIOUS
  <2>2. LET x == m.T[m.cs[n].L]
            l == x.errorJmp
        IN  /\ l \in 0..n
            /\ l # 0 => /\ m.cs[l].L = m.cs[n].L /\ FrameOK(m.cs, x, h, p, l) /\ h[l] <= h[n]
                        /\ m.cs[l].k # "resume" => x.status = OK /\ Len(x.ci) = h[n]
            /\ \A i \in l + 1..n : m.cs[i].k \notin Landing
    BY Landed
  <2> HIDE DEF n
  <2>3. m.T[m.cs[n].L] = t /\ m.T[m.cs[n].L].errorJmp = j
    BY <2>1
  <2> HIDE DEF t, j
  <2> QED BY <1>1, <2>1, <2>2, <2>3 DEF f
<1>35. n = Len(m.cs) /\ f = m.cs[j]
  OBVIOUS
<1>3. f \in Frame
  <2> HIDE DEF n, t, f, j, c
  <2> QED BY <1>1, <1>2, <1>35
<1> HIDE DEF n, t, f, j
<1>4. f.prev \in Nat /\ f.nCcalls \in Nat /\ f.ci \in Nat /\ f.allowhook \in BOOLEAN /\ f.errfunc \in Nat
  BY <1>2, <1>3, FrameType
<1>5. j > 1 /\ j - 1 \in 1..n
  <2>1. j # 1
    BY <1>2, <1>35 DEF FrameOK
  <2> QED BY <2>1, <1>1, <1>2
<1>6. /\ f.ci = h[j] /\ f.nCcalls = Depth(m.cs, j - 1) /\ h[j] = h[j - 1]
      /\ LandingAt(m.cs, j - 1, f.prev) /\ HandlerAt(m.cs, j - 1, f.errfunc)
      /\ HookAt(m.cs, j - 1, f.allowhook, p)
  BY <1>2, <1>5, <1>35 DEF FrameOK, SavedOK, LevelOK
<1>7. f.ci \in 1..Len(t.ci) /\ h[j - 1] \in Nat
  <2>1. h[j - 1] \in Level
    BY <1>1, <1>5
  <2>2. Len(t.ci) \in Nat
    BY <1>1, StateType
  <2> QED BY <2>1, <2>2, <1>2, <1>6 DEF Level
<1>8. /\ SubSeq(t.ci, 1, f.ci) \in Seq({"lua", "C"}) /\ Len(SubSeq(t.ci, 1, f.ci)) = f.ci
      /\ \A q \in 1..f.ci : SubSeq(t.ci, 1, f.ci)[q] = t.ci[q]
  <2>1. t.ci \in Seq({"lua", "C"}) /\ f.ci \in 0..Len(t.ci)
    BY <1>1, <1>7, StateType
  <2> QED BY <2>1, Prefix
<1>9. /\ c \in lua_State /\ c.nCcalls = f.nCcalls /\ c.ci = SubSeq(t.ci, 1, f.ci)
      /\ c.allowhook = f.allowhook /\ c.errfunc = f.errfunc /\ c.errorJmp = f.prev
      /\ c.status = t.status /\ c.baseCcalls = t.baseCcalls /\ c.ended = t.ended /\ c.top = t.top
      /\ c.size_ci \in {t.size_ci, MAXCALLS}
      /\ c.size_ci # t.size_ci => Len(c.ci) < MAXCALLS
  <2> DEFINE d == [t EXCEPT !.nCcalls = f.nCcalls, !.ci = SubSeq(t.ci, 1, f.ci),
                            !.allowhook = f.allowhook, !.errfunc = f.errfunc, !.errorJmp = f.prev]
  <2>1. d \in lua_State
    BY <1>1, <1>4, <1>8 DEF lua_State
  <2>2. /\ d.nCcalls = f.nCcalls /\ d.ci = SubSeq(t.ci, 1, f.ci)
        /\ d.allowhook = f.allowhook /\ d.errfunc = f.errfunc /\ d.errorJmp = f.prev
        /\ d.status = t.status /\ d.baseCcalls = t.baseCcalls /\ d.ended = t.ended
        /\ d.top = t.top /\ d.size_ci = t.size_ci
    BY <1>1 DEF lua_State
  <2>3. c = restore_stack_limit(d)
    BY DEF Caught, CallsRestored, HookRestored, ErrfuncRestored, Previous
  <2> HIDE DEF d, c
  <2>4. MAXCALLS \in Nat
    BY LimitsAssumption
  <2>5. CASE d.size_ci > MAXCALLS /\ Len(d.ci) < MAXCALLS
    <3>1. c = [d EXCEPT !.size_ci = MAXCALLS]
      BY <2>3, <2>5 DEF restore_stack_limit
    <3>2. /\ c \in lua_State /\ c.nCcalls = d.nCcalls /\ c.ci = d.ci
          /\ c.allowhook = d.allowhook /\ c.errfunc = d.errfunc /\ c.errorJmp = d.errorJmp
          /\ c.status = d.status /\ c.baseCcalls = d.baseCcalls /\ c.ended = d.ended /\ c.top = d.top
          /\ c.size_ci = MAXCALLS
      BY <3>1, <2>1, <2>4 DEF lua_State
    <3> QED BY <3>2, <2>2, <2>5
  <2>6. CASE ~(d.size_ci > MAXCALLS /\ Len(d.ci) < MAXCALLS)
    <3>1. c = d
      BY <2>3, <2>6 DEF restore_stack_limit
    <3> QED BY <3>1, <2>1, <2>2
  <2> QED BY <2>5, <2>6
<1> HIDE DEF c
<1>10. SizeOK(c)
  <2>1. MAXCALLS \in Nat \ {0}
    BY LimitsAssumption
  <2>2. t.size_ci \in Nat /\ Len(t.ci) \in Nat
    BY <1>1, StateType
  <2>3. Len(c.ci) = f.ci
    BY <1>8, <1>9
  <2>4. Len(c.ci) \in 1..c.size_ci /\ c.size_ci <= 2 * MAXCALLS
    BY <2>1, <2>2, <2>3, <1>1, <1>7, <1>9 DEF SizeOK
  <2> QED BY <2>4, <1>1, <1>9 DEF SizeOK
<1>11. Fits(m.cs, c, h[j - 1], p, j - 1)
  BY <1>2, <1>6, <1>8, <1>9 DEF Fits
<1>12. \A i \in (j - 1) + 1..n : m.cs[i].k # "resume"
  <2>1. ASSUME NEW i \in (j - 1) + 1..n PROVE m.cs[i].k # "resume"
    <3>1. i = j \/ i \in j + 1..n
      BY <1>1, <1>2
    <3> QED BY <3>1, <1>2, <1>35 DEF Landing
  <2> QED BY <2>1
<1>13. \A q \in 1..h[j - 1] : c.ci[q] = t.ci[q]
  BY <1>6, <1>8, <1>9
<1>14. Sound(CutTo(m, j - 1, L, c), p)
  BY <1>1, <1>5, <1>9, <1>10, <1>11, <1>12, <1>13, CutGood DEF Sound, n, t
<1>15. j \in 2..n
  BY <1>1, <1>2, <1>5
<1> QED BY <1>14, <1>15 DEF n, t, j, f, c

\* lua_resume catches an error: its coroutine is dead, and luaB_auxwrap propagates
\* the error.
LEMMA KilledGood ==
  ASSUME NEW m \in Machine, NEW h \in Seq(Level), NEW p, Good(m, h, p), m.cs # <<>>,
         NEW L, L = m.cs[Len(m.cs)].L, NEW code \in {ERRRUN, ERRERR},
         m.T[L].errorJmp # 0, m.cs[m.T[L].errorJmp].k = "resume"
  PROVE  LET j    == m.T[L].errorJmp
             f    == m.cs[j]
             dead == CutTo(m, j - 1, L, Killed(m.T[L], f, code))
         IN  /\ j \in 2..Len(m.cs)
             /\ Sound(dead, p) /\ CanRun(dead, f.from) /\ dead.cs[Len(dead.cs)].k = "cfun"
<1> DEFINE n == Len(m.cs)
           t == m.T[L]
           j == t.errorJmp
           f == m.cs[j]
           c == Killed(t, f, code)
           dead == CutTo(m, j - 1, L, c)
<1>1. /\ n \in Nat \ {0} /\ L \in Threads /\ t \in lua_State /\ SizeOK(t) /\ Len(h) = n
      /\ m.cs \in Seq(Frame) /\ LastOK(m.cs, t, h, p, n) /\ m.T \in [Threads -> lua_State]
  BY TopOK
<1>2. /\ j \in 1..n /\ f.k = "resume" /\ f.L = L /\ FrameOK(m.cs, t, h, p, j)
      /\ t.errfunc = 0
      /\ \A i \in j + 1..n : m.cs[i].k \notin Landing
  <2>1. L = m.cs[n].L /\ j # 0 /\ f.k = "resume"
    OBVIOUS
  <2>2. LET x == m.T[m.cs[n].L]
            l == x.errorJmp
        IN  /\ l \in 0..n
            /\ l # 0 => /\ m.cs[l].L = m.cs[n].L /\ FrameOK(m.cs, x, h, p, l)
                        /\ m.cs[l].k # "pcall" => x.errfunc = 0
            /\ \A i \in l + 1..n : m.cs[i].k \notin Landing
    BY Landed
  <2> HIDE DEF n
  <2>3. m.T[m.cs[n].L] = t /\ m.T[m.cs[n].L].errorJmp = j
    BY <2>1
  <2> HIDE DEF t, j
  <2> QED BY <1>1, <2>1, <2>2, <2>3 DEF f
<1>3. n = Len(m.cs) /\ f = m.cs[j] /\ t = m.T[L] /\ c = Killed(t, f, code) /\ L = m.cs[n].L
  OBVIOUS
<1> HIDE DEF n, t, j, f, c
<1>4. j > 1 /\ j - 1 \in 1..n /\ j \in 2..n
  <2>1. j # 1
    BY <1>2, <1>3 DEF FrameOK
  <2> QED BY <2>1, <1>1, <1>2
<1>5. f.k \in Above(m.cs[j - 1]) /\ f.from = m.cs[j - 1].L /\ f.prev = 0
  BY <1>2, <1>3, <1>4 DEF FrameOK, SavedOK
<1>6. m.cs[j - 1].k = "cfun"
  <2>1. m.cs[j - 1] \in Frame
    <3>1. j - 1 \in 1..Len(m.cs)
      BY <1>3, <1>4
    <3> QED BY <3>1, <1>1, ElementOf
  <2> QED BY <2>1, <1>2, <1>5, AboveType
<1>7. t.nCcalls \in Nat \ {0}
  <2>0. m.cs[j].k \in Counted /\ j \in Nat \ {0}
    <3>1. m.cs[j].k \in Counted
      BY <1>2, <1>3 DEF Counted
    <3>2. j \in Nat \ {0}
      BY <1>1, <1>2
    <3> QED BY <3>1, <3>2
  <2>1. Depth(m.cs, j) = Depth(m.cs, j - 1) + 1
    BY <2>0, DepthStep
  <2>2. Depth(m.cs, j) <= Depth(m.cs, n)
    BY <1>1, <1>2, DepthGrows
  <2>3. Depth(m.cs, j - 1) \in Nat /\ Depth(m.cs, j) \in Nat /\ Depth(m.cs, n) \in Nat
    BY <1>1, <1>4, DepthType
  <2> QED BY <2>1, <2>2, <2>3, <1>1 DEF LastOK
<1>8. /\ c \in lua_State /\ c.status = code /\ c.errorJmp = 0 /\ c.errfunc = 0 /\ c.ended = TRUE
      /\ c.ci = t.ci /\ c.size_ci = t.size_ci /\ c.top = "none"
  <2>1. c = [t EXCEPT !.status = code, !.nCcalls = t.nCcalls - 1, !.errorJmp = 0,
                      !.top = "none", !.ended = TRUE]
    BY <1>3, <1>5 DEF Killed, Previous
  <2>2. t.nCcalls - 1 \in Nat
    BY <1>7
  <2> QED BY <2>1, <2>2, <1>1, <1>2 DEF lua_State
<1>9. IdleOK(L, c, p)
  BY <1>8 DEF IdleOK, OK, YIELD, ERRRUN, ERRERR
<1>10. SizeOK(c)
  BY <1>1, <1>8 DEF SizeOK
<1>11. \A i \in j + 1..n : m.cs[i].k # "resume"
  BY <1>2 DEF Landing
<1>12. Sound(dead, p)
  BY <1>1, <1>2, <1>3, <1>4, <1>8, <1>9, <1>10, <1>11, LeaveGood DEF Sound
<1>13. dead \in Machine /\ \E g \in Seq(Level) : Good(dead, g, p)
  BY <1>12 DEF Sound
<1>14. Len(dead.cs) = j - 1 /\ dead.cs[j - 1] = m.cs[j - 1]
  <2>1. dead.cs = SubSeq(m.cs, 1, j - 1)
    BY DEF CutTo
  <2>2. j - 1 \in 0..Len(m.cs) /\ j - 1 \in 1..j - 1
    BY <1>3, <1>4
  <2> QED BY <1>1, <2>1, <2>2, Prefix
<1> HIDE DEF dead
<1>15. dead.cs # <<>>
  BY <1>14, <1>4
<1>16. dead.T[f.from].status = OK
  BY <1>5, <1>6, <1>13, <1>14, <1>15, TopRuns
<1>17. CanRun(dead, f.from)
  BY <1>5, <1>14, <1>15, <1>16 DEF CanRun
<1> QED BY <1>4, <1>6, <1>12, <1>14, <1>17 DEF n, t, j, f, c, dead

\* lua_close goes on with the next finalizer.
LEMMA ResetGood ==
  ASSUME NEW m \in Machine, NEW h \in Seq(Level), NEW p, Good(m, h, p), m.cs # <<>>,
         NEW L, L = m.cs[Len(m.cs)].L, m.T[L].errorJmp # 0,
         m.cs[m.T[L].errorJmp].k = "close"
  PROVE  LET j == m.T[L].errorJmp
             f == m.cs[j]
         IN  j = 1 /\ Sound([cs |-> <<f>>, T |-> [m.T EXCEPT ![L] = Reset(m.T[L])]], p)
<1> DEFINE n == Len(m.cs)
           t == m.T[L]
           j == t.errorJmp
           f == m.cs[j]
           c == Reset(t)
           cs2 == <<f>>
           m2 == [cs |-> cs2, T |-> [m.T EXCEPT ![L] = c]]
           h2 == << 1 >>
<1>1. /\ n \in Nat \ {0} /\ L \in Threads /\ t \in lua_State /\ SizeOK(t) /\ Len(h) = n
      /\ m.cs \in Seq(Frame) /\ LastOK(m.cs, t, h, p, n) /\ m.T \in [Threads -> lua_State]
  BY TopOK
<1>2. /\ j \in 1..n /\ f.k = "close" /\ f.L = L /\ FrameOK(m.cs, t, h, p, j)
      /\ t.errfunc = 0 /\ t.status = OK
      /\ \A i \in j + 1..n : m.cs[i].k \notin Landing
  <2>1. L = m.cs[n].L /\ j # 0 /\ f.k = "close"
    OBVIOUS
  <2>2. LET x == m.T[m.cs[n].L]
            l == x.errorJmp
        IN  /\ l \in 0..n
            /\ l # 0 => /\ m.cs[l].L = m.cs[n].L /\ FrameOK(m.cs, x, h, p, l)
                        /\ m.cs[l].k # "pcall" => x.errfunc = 0
                        /\ m.cs[l].k # "resume" => x.status = OK
            /\ \A i \in l + 1..n : m.cs[i].k \notin Landing
    BY Landed
  <2> HIDE DEF n
  <2>3. m.T[m.cs[n].L] = t /\ m.T[m.cs[n].L].errorJmp = j
    BY <2>1
  <2> HIDE DEF t, j
  <2> QED BY <1>1, <2>1, <2>2, <2>3 DEF f
<1>3. /\ n = Len(m.cs) /\ f = m.cs[j] /\ t = m.T[L] /\ c = Reset(t) /\ L = m.cs[n].L
      /\ t.errorJmp = j
  OBVIOUS
<1> HIDE DEF n, t, j, f, c
<1>4. j = 1
  <2> SUFFICES ASSUME j # 1 PROVE FALSE
    OBVIOUS
  <2>1. j > 1 /\ j - 1 \in 1..n
    BY <1>1, <1>2
  <2>2. f.k \in Above(m.cs[j - 1])
    BY <2>1, <1>2, <1>3 DEF FrameOK
  <2>3. m.cs[j - 1] \in Frame
    <3>1. j - 1 \in 1..Len(m.cs)
      BY <2>1, <1>3
    <3> QED BY <3>1, <1>1, ElementOf
  <2> QED BY <2>2, <2>3, <1>2, AboveType
<1>5. /\ L = MainThread /\ p # "run" /\ t.baseCcalls = Depth(m.cs, 1) /\ ~t.ended
  BY <1>2, <1>3, <1>4 DEF FrameOK
<1>6. /\ cs2 \in Seq(Frame) /\ Len(cs2) = 1 /\ cs2[1] = f
      /\ h2 \in Seq(Level) /\ Len(h2) = 1 /\ h2[1] = 1
  <2>1. m.cs[j] \in Frame
    BY <1>1, <1>2, <1>3, ElementOf
  <2>2. f \in Frame
    BY <2>1, <1>3
  <2>3. 1 \in Level
    BY DEF Level
  <2> QED BY <2>2, <2>3
<1>7. /\ c \in lua_State /\ c.status = OK /\ c.errorJmp = 1 /\ c.errfunc = 0 /\ c.ended = t.ended
      /\ c.ci = <<"C">> /\ c.size_ci = t.size_ci /\ c.top = t.top /\ c.nCcalls = 0 /\ c.baseCcalls = 0
      /\ Len(c.ci) = 1
  <2>1. <<"C">> \in Seq({"lua", "C"}) /\ Len(<<"C">>) = 1
    OBVIOUS
  <2>2. c = [t EXCEPT !.ci = <<"C">>, !.nCcalls = 0, !.baseCcalls = 0]
    BY <1>3 DEF Reset
  <2>3. t.status = OK /\ t.errorJmp = 1 /\ t.errfunc = 0
    BY <1>2, <1>3, <1>4
  <2> QED BY <2>1, <2>2, <2>3, <1>1 DEF lua_State
<1>8. /\ m2.cs = cs2 /\ m2.T[L] = c /\ \A X \in Threads \ {L} : m2.T[X] = m.T[X]
      /\ m2 \in Machine
  BY <1>1, <1>6, <1>7 DEF Machine
<1> HIDE DEF cs2, h2, m2
<1>9. Depth(cs2, 1) = 0 /\ Depth(m.cs, 1) = 0
  <2>1. Depth(cs2, 0) = 0 /\ Depth(m.cs, 0) = 0
    BY FS_EmptySet DEF Depth
  <2>2. cs2[1].k \notin Counted /\ m.cs[1].k \notin Counted
    BY <1>2, <1>3, <1>4, <1>6 DEF Counted
  <2>3. Depth(cs2, 1) = Depth(cs2, 1 - 1) + 0 /\ Depth(m.cs, 1) = Depth(m.cs, 1 - 1) + 0
    BY <2>2, DepthStep
  <2> QED BY <2>1, <2>3
<1>10. Steps(m, h, m2, h2, 0, L)
  <2>1. ReplacesTop(m.cs, m2.cs, 0, L)
    <3>1. \A i \in 0 + 1..n : i > 1 => m.cs[i].k # "resume"
      BY <1>2, <1>4 DEF Landing
    <3>2. 0 \in 0..n /\ n # 0 /\ m.cs[n].L = L /\ 0 + 1 = 1
      BY <1>1, <1>3
    <3>3. Len(m2.cs) = 1 /\ m2.cs[1].L = L
      BY <1>2, <1>6, <1>8
    <3> QED BY <3>1, <3>2, <3>3, <1>3 DEF ReplacesTop
  <2>2. m2.T[L].baseCcalls = m.T[L].baseCcalls /\ m2.T[L].ended = m.T[L].ended
    BY <1>3, <1>5, <1>7, <1>8, <1>9
  <2>3. Len(h2) = Len(m2.cs) /\ \A i \in 1..0 : h2[i] = h[i]
    BY <1>6, <1>8
  <2> QED BY <2>1, <2>2, <2>3, <1>8 DEF Steps
<1>11. FrameOK(cs2, c, h2, p, 0 + 1)
  BY <1>2, <1>5, <1>6, <1>7, <1>9 DEF FrameOK, LevelOK, SavedOK
<1>12. LastOK(cs2, c, h2, p, 1)
  <2>1. LandingAt(cs2, 1, 1)
    BY <1>2, <1>6 DEF LandingAt, Landing
  <2>2. HandlerAt(cs2, 1, 0)
    BY DEF HandlerAt
  <2>3. HookAt(cs2, 1, c.allowhook, p)
    BY <1>2, <1>5, <1>6 DEF HookAt, Guarded
  <2> QED BY <2>1, <2>2, <2>3, <1>6, <1>7, <1>9 DEF LastOK
<1>13. SizeOK(c)
  BY <1>1, <1>7, StateType DEF SizeOK
<1>14. Good(m2, h2, p)
  <2>1. Len(m2.cs) = 1 /\ 0 + 1 = 1 /\ m2.T[L] = c /\ m2.cs = cs2
    BY <1>6, <1>8
  <2>2. Len(m2.cs) = 0 + 1 => FrameOK(m2.cs, m2.T[L], h2, p, 0 + 1)
    BY <2>1, <1>11
  <2>3. LastOK(m2.cs, m2.T[L], h2, p, Len(m2.cs)) /\ SizeOK(m2.T[L])
    BY <2>1, <1>12, <1>13
  <2> QED BY <2>2, <2>3, <1>1, <1>6, <1>8, <1>10, Change
<1> QED BY <1>4, <1>6, <1>8, <1>14 DEF Sound, n, t, j, f, c, m2, cs2

\* The panic: without a frame that catches the error, no frame is left.
LEMMA PanicGood ==
  ASSUME NEW m \in Machine, NEW h \in Seq(Level), NEW p, Good(m, h, p), m.cs # <<>>,
         NEW L, L = m.cs[Len(m.cs)].L, m.T[L].errorJmp = 0
  PROVE  Sound([m EXCEPT !.cs = <<>>], p)
<1> DEFINE n == Len(m.cs)
           t == m.T[L]
           m2 == [m EXCEPT !.cs = <<>>]
<1>1. /\ n \in Nat \ {0} /\ L \in Threads /\ L = m.cs[n].L
      /\ m.cs \in Seq(Frame) /\ m.T \in [Threads -> lua_State]
  BY TopOK
<1>2. /\ \A i \in 1..n : m.cs[i].k \notin Landing
      /\ t.errfunc = 0 /\ t.errorJmp = 0 /\ t.status = OK
  <2>1. L = m.cs[n].L /\ t.errorJmp = 0
    OBVIOUS
  <2>2. LET x == m.T[m.cs[n].L]
            l == x.errorJmp
        IN  l = 0 => x.errfunc = 0 /\ x.status = OK /\ \A i \in 1..n : m.cs[i].k \notin Landing
    BY Landed
  <2> HIDE DEF n
  <2> QED BY <2>1, <2>2
<1>3. /\ Threaded(m.cs) /\ FrameOK(m.cs, m.T[m.cs[1].L], h, p, 1)
      /\ \A X \in Threads : SizeOK(m.T[X])
      /\ \A X \in Threads : (\A i \in 1..n : m.cs[i].L # X) => IdleOK(X, m.T[X], p)
  BY <1>1 DEF Good
<1>4. t = m.T[L] /\ n = Len(m.cs)
  OBVIOUS
<1> HIDE DEF n, t
<1>5. \A i \in 1..n : m.cs[i].L = MainThread
  <2> SUFFICES ASSUME NEW i \in 1..n PROVE m.cs[i].L = MainThread
    OBVIOUS
  <2>1. m.cs[1].L = MainThread
    BY <1>3 DEF FrameOK
  <2>2. 1 \in 1..n /\ 1 <= i
    BY <1>1
  <2>3. \A l \in 1 + 1..i : m.cs[l].k # "resume"
    BY <1>1, <1>2 DEF Landing
  <2> QED BY <2>1, <2>2, <2>3, <1>3, <1>4 DEF Threaded
<1>6. L = MainThread
  BY <1>1, <1>5
<1>7. \A X \in Threads : IdleOK(X, m.T[X], p)
  <2> SUFFICES ASSUME NEW X \in Threads PROVE IdleOK(X, m.T[X], p)
    OBVIOUS
  <2>1. CASE X = MainThread
    BY <2>1, <1>2, <1>4, <1>6 DEF IdleOK, OK, YIELD
  <2>2. CASE X # MainThread
    BY <2>2, <1>3, <1>5
  <2> QED BY <2>1, <2>2
<1>8. m2 \in Machine /\ m2.cs = <<>> /\ m2.T = m.T
  <2>1. <<>> \in Seq(Frame)
    OBVIOUS
  <2> QED BY <2>1 DEF Machine
<1> HIDE DEF m2
<1>9. <<>> \in Seq(Level) /\ Len(<<>>) = 0
  OBVIOUS
<1>10. Good(m2, <<>>, p)
  <2>1. Len(m2.cs) = 0 /\ 1..0 = {}
    BY <1>8, <1>9
  <2> QED BY <2>1, <1>3, <1>7, <1>8, <1>9 DEF Good, Threaded
<1> QED BY <1>8, <1>9, <1>10 DEF Sound, m2

\* luaD_throw may cut the stack whatever frame runs, and the depth of no frame
\* but the last matters for that of the frames that are left.
LEMMA ThrowGood ==
  ASSUME NEW m, NEW p, NEW L, Sound(m, p), m.cs # <<>>, L = m.cs[Len(m.cs)].L,
         NEW code \in {ERRRUN, ERRERR}
  PROVE  /\ Sound(Throw(m, L, code), p)
         /\ \A b \in Nat : (\A i \in 1..Len(m.cs) - 1 : Depth(m.cs, i) <= b) =>
                             Within(Throw(m, L, code).cs, b)
<1> DEFINE n == Len(m.cs)
           t == m.T[L]
           j == t.errorJmp
           f == m.cs[j]
           r == Throw(m, L, code)
           Below(b) == \A i \in 1..n - 1 : Depth(m.cs, i) <= b
<1>1. PICK h \in Seq(Level) : m \in Machine /\ Good(m, h, p)
  BY DEF Sound
<1>2. n \in Nat \ {0} /\ m.cs \in Seq(Frame) /\ L = m.cs[n].L
  BY <1>1, TopOK
<1>3. j \in 0..n /\ (j # 0 => f.k \in Landing)
  <2>1. LET x == m.T[m.cs[n].L]
            l == x.errorJmp
        IN  l \in 0..n /\ (l # 0 => m.cs[l].k \in Landing)
    BY <1>1, Landed
  <2> HIDE DEF n
  <2> QED BY <2>1, <1>2
<1>4. CASE j = 0
  <2>1. r = [m EXCEPT !.cs = <<>>]
    BY <1>4 DEF Throw
  <2>2. Sound(r, p)
    BY <2>1, <1>1, <1>4, PanicGood
  <2>3. r.cs = <<>> /\ Len(<<>>) = 0 /\ 1..0 = {}
    BY <2>1, <1>1 DEF Machine
  <2> HIDE DEF r
  <2>4. \A b \in Nat : Within(r.cs, b)
    BY <2>3 DEF Within
  <2> QED BY <2>2, <2>4 DEF r
<1>5. CASE j # 0 /\ f.k = "pcall"
  <2> DEFINE c == Caught(t, f)
  <2>1. r = CutTo(m, j - 1, L, c)
    BY <1>5 DEF Throw, CutTo
  <2>2. j \in 2..n /\ Sound(CutTo(m, j - 1, L, c), p)
    BY <1>1, <1>5, CaughtGood
  <2> HIDE DEF r, n, j, c
  <2>3. r.cs = SubSeq(m.cs, 1, j - 1)
    BY <2>1 DEF CutTo
  <2>4. j - 1 \in 0..n /\ \A i \in 1..j - 1 : i \in 1..n - 1
    BY <2>2, <1>2
  <2>5. ASSUME NEW b \in Nat, Below(b) PROVE Within(r.cs, b)
    BY <2>3, <2>4, <2>5, <1>2, WithinPrefix DEF n
  <2> QED BY <2>1, <2>2, <2>5 DEF r, n
<1>6. CASE j # 0 /\ f.k = "resume"
  <2> DEFINE c == Killed(t, f, code)
             dead == CutTo(m, j - 1, L, c)
  <2>1. r = IF f.wrap THEN Push(dead, RaiseOf(f.from, FALSE)) ELSE dead
    BY <1>6 DEF Throw, CutTo
  <2>2. /\ j \in 2..n /\ Sound(dead, p) /\ CanRun(dead, f.from)
        /\ dead.cs[Len(dead.cs)].k = "cfun"
    BY <1>1, <1>6, KilledGood
  <2>3. dead.cs = SubSeq(m.cs, 1, j - 1)
    BY DEF CutTo
  <2> HIDE DEF r, n, j, dead, f
  <2>4. j - 1 \in 0..n /\ \A i \in 1..j - 1 : i \in 1..n - 1
    BY <2>2, <1>2
  <2>5. ASSUME NEW b \in Nat, Below(b) PROVE Within(dead.cs, b)
    BY <2>3, <2>4, <2>5, <1>2, WithinPrefix DEF n
  <2>6. /\ Sound(Raise(dead, f.from), p)
        /\ \A b \in Nat : Within(dead.cs, b) => Within(Raise(dead, f.from).cs, b)
    BY <2>2, RaiseGood
  <2>7. CASE f.wrap
    BY <2>1, <2>5, <2>6, <2>7 DEF Raise, r, n
  <2>8. CASE ~f.wrap
    BY <2>1, <2>2, <2>5, <2>8 DEF r, n
  <2> QED BY <2>7, <2>8
<1>7. CASE j # 0 /\ f.k = "close"
  <2>1. j = 1 /\ Sound([cs |-> <<f>>, T |-> [m.T EXCEPT ![L] = Reset(t)]], p)
    BY <1>1, <1>7, ResetGood
  <2>2. r = [cs |-> Append(SubSeq(m.cs, 1, j - 1), f), T |-> [m.T EXCEPT ![L] = Reset(t)]]
    BY <1>7 DEF Throw
  <2>3. Append(SubSeq(m.cs, 1, 1 - 1), f) = <<f>>
    <3>1. SubSeq(m.cs, 1, 0) = <<>>
      <4>1. 0 \in 0..Len(m.cs)
        BY <1>2
      <4>2. Len(SubSeq(m.cs, 1, 0)) = 0 /\ SubSeq(m.cs, 1, 0) \in Seq(Frame)
        BY <4>1, <1>2, Prefix
      <4> QED BY <4>2
    <3>2. Append(<<>>, f) = <<f>>
      OBVIOUS
    <3>3. 1 - 1 = 0
      OBVIOUS
    <3> HIDE DEF f
    <3> QED BY <3>1, <3>2, <3>3
  <2>4. r = [cs |-> <<f>>, T |-> [m.T EXCEPT ![L] = Reset(t)]]
    BY <2>1, <2>2, <2>3
  <2>5. r.cs = <<f>> /\ Len(<<f>>) = 1 /\ <<f>>[1] = f
    BY <2>4
  <2>6. Depth(<<f>>, 1) = 0
    <3>1. <<f>>[1].k \notin Counted
      BY <1>7 DEF Counted
    <3>2. Depth(<<f>>, 1) = Depth(<<f>>, 1 - 1) + 0
      BY <3>1, DepthStep
    <3>3. Depth(<<f>>, 0) = 0
      BY FS_EmptySet DEF Depth
    <3> QED BY <3>2, <3>3
  <2> HIDE DEF r, f, Below
  <2>7. ASSUME NEW b \in Nat PROVE Within(r.cs, b)
    <3>1. \A i \in 1..1 : i = 1
      OBVIOUS
    <3> QED BY <3>1, <2>5, <2>6 DEF Within
  <2> QED BY <2>1, <2>4, <2>7 DEF r
<1>8. j = 0 \/ (j # 0 /\ f.k = "pcall") \/ (j # 0 /\ f.k = "resume") \/ (j # 0 /\ f.k = "close")
  BY <1>3 DEF Landing
<1> QED BY <1>4, <1>5, <1>6, <1>7, <1>8

-----------------------------------------------------------------------------
(* Functions are entered.                                                  *)

\* t is t0 when the luaV_execute of frame f has entered or left functions of its own.
LuaLevels(f, t0, t) ==
  /\ t.nCcalls = t0.nCcalls /\ t.baseCcalls = t0.baseCcalls /\ t.allowhook = t0.allowhook
  /\ t.errfunc = t0.errfunc /\ t.errorJmp = t0.errorJmp /\ t.ended = t0.ended
  /\ t.status = t0.status
  /\ f.base < Len(t.ci)
  /\ \A q \in 1..Len(t.ci) : t.ci[q] = IF q <= f.base THEN t0.ci[q] ELSE "lua"

LEMMA LevelGood ==
  ASSUME NEW m \in Machine, NEW h \in Seq(Level), NEW p, Good(m, h, p), m.cs # <<>>,
         NEW L, L = m.cs[Len(m.cs)].L, m.cs[Len(m.cs)].k = "exec",
         NEW t \in lua_State, SizeOK(t), LuaLevels(m.cs[Len(m.cs)], m.T[L], t)
  PROVE  Sound([cs |-> m.cs, T |-> [m.T EXCEPT ![L] = t]], p)
<1> DEFINE N == Len(m.cs)
           f == m.cs[N]
           t0 == m.T[L]
           m2 == [cs |-> m.cs, T |-> [m.T EXCEPT ![L] = t]]
           h2 == [h EXCEPT ![N] = Len(t.ci)]
<1>1. /\ N \in Nat \ {0} /\ L \in Threads /\ t0 \in lua_State /\ Len(h) = N
      /\ m.cs \in Seq(Frame) /\ LastOK(m.cs, t0, h, p, N) /\ FrameOK(m.cs, t0, h, p, N)
      /\ m.T \in [Threads -> lua_State]
  BY TopOK
<1>2. /\ N = Len(m.cs) /\ f = m.cs[N] /\ t0 = m.T[L] /\ L = f.L /\ f.k = "exec"
      /\ f.base < Len(t.ci)
  BY DEF LuaLevels
<1>25. \A q \in 1..Len(t.ci) : t.ci[q] = IF q <= f.base THEN t0.ci[q] ELSE "lua"
  BY DEF LuaLevels
<1>3. /\ t.nCcalls = t0.nCcalls /\ t.baseCcalls = t0.baseCcalls /\ t.allowhook = t0.allowhook
      /\ t.errfunc = t0.errfunc /\ t.errorJmp = t0.errorJmp /\ t.ended = t0.ended
      /\ t.status = t0.status
  BY DEF LuaLevels
<1>4. /\ m2.cs = m.cs /\ m2.T[L] = t /\ (\A X \in Threads \ {L} : m2.T[X] = m.T[X])
      /\ m2 \in Machine
  BY <1>1 DEF Machine
<1> HIDE DEF N, f, t0, m2
<1>5. Len(t.ci) \in Level
  <2> HIDE DEF h2
  <2>1. Len(t.ci) \in 1..t.size_ci /\ t.size_ci <= 2 * MAXCALLS
    BY DEF SizeOK
  <2>2. t.size_ci \in Nat
    BY StateType
  <2> QED BY <2>1, <2>2 DEF Level
<1>6. /\ h2 \in Seq(Level) /\ Len(h2) = N /\ h2[N] = Len(t.ci)
      /\ \A i \in 1..N - 1 : h2[i] = h[i]
  <2>1. N \in 1..Len(h)
    BY <1>1
  <2> QED BY <2>1, <1>1, <1>5
<1> HIDE DEF h2
<1>7. N > 1 /\ N - 1 \in 1..N /\ (N - 1) + 1 = N
  <2>1. N # 1
    BY <1>1, <1>2 DEF FrameOK
  <2> QED BY <2>1, <1>1
<1>8. f.base = h[N - 1] /\ h[N - 1] \in Level
  <2>1. f.base = h[N - 1]
    BY <1>1, <1>2, <1>7 DEF FrameOK, LevelOK
  <2> QED BY <2>1, <1>1, <1>7
<1>9. Steps(m, h, m2, h2, N - 1, L)
  <2>1. ReplacesTop(m.cs, m2.cs, N - 1, L)
    <3>1. \A i \in (N - 1) + 1..N : m.cs[i].k # "resume"
      <4>1. \A i \in (N - 1) + 1..N : i = N
        BY <1>1, <1>7
      <4>2. m.cs[N].k = "exec"
        BY <1>2
      <4> QED BY <4>1, <4>2
    <3>2. N - 1 \in 0..N /\ N # 0 /\ N \in {N - 1, (N - 1) + 1}
      BY <1>1, <1>7
    <3>3. m.cs[N].L = L /\ m.cs[N].k # "resume" /\ m2.cs = m.cs /\ Len(m.cs) = N
      BY <1>2, <1>4
    <3> QED BY <3>1, <3>2, <3>3, <1>7 DEF ReplacesTop
  <2>2. h2[N - 1] <= h2[N]
    <3>1. h2[N - 1] = h[N - 1]
      BY <1>1, <1>6, <1>7
    <3>2. h2[N] = Len(t.ci) /\ f.base < Len(t.ci) /\ f.base = h[N - 1]
      BY <1>2, <1>6, <1>8
    <3>3. h[N - 1] \in Nat /\ Len(t.ci) \in Nat
      BY <1>5, <1>8 DEF Level
    <3> QED BY <3>1, <3>2, <3>3
  <2>3. \A q \in 1..h[N - 1] : m2.T[L].ci[q] = m.T[L].ci[q]
    <3>1. f.base \in Nat /\ Len(t.ci) \in Nat /\ f.base < Len(t.ci)
      BY <1>2, <1>5, <1>8 DEF Level
    <3>2. \A q \in 1..f.base : q \in 1..Len(t.ci) /\ q <= f.base
      BY <3>1
    <3>3. \A q \in 1..f.base : t.ci[q] = t0.ci[q]
      BY <3>2, <1>25
    <3> QED BY <3>3, <1>2, <1>4, <1>8
  <2>4. m2.T[L].baseCcalls = m.T[L].baseCcalls /\ m2.T[L].ended = m.T[L].ended
    BY <1>2, <1>3, <1>4
  <2> QED BY <2>1, <2>2, <2>3, <2>4, <1>2, <1>4, <1>6, <1>7 DEF Steps
<1>10. FrameOK(m.cs, t, h2, p, N)
  <2>1. /\ f.k \in Above(m.cs[N - 1]) /\ ~t.ended /\ t.baseCcalls <= Depth(m.cs, N)
    BY <1>1, <1>2, <1>3, <1>7 DEF FrameOK
  <2>2. LevelOK(m.cs, t, h2, N)
    <3>1. h2[N - 1] = h[N - 1]
      BY <1>1, <1>6, <1>7
    <3>2. \A q \in f.base + 1..Len(t.ci) : t.ci[q] = "lua"
      <4>1. \A q \in f.base + 1..Len(t.ci) : q \in 1..Len(t.ci) /\ ~(q <= f.base)
        BY <1>5, <1>8 DEF Level
      <4> QED BY <4>1, <1>25
    <3>3. m.cs[N] = f /\ f.k = "exec" /\ f.base < h2[N] /\ f.base = h2[N - 1] /\ h2[N] = Len(t.ci)
          /\ N # 1
      BY <3>1, <1>2, <1>6, <1>7, <1>8
    <3> QED BY <3>2, <3>3 DEF LevelOK
  <2>3. SavedOK(m.cs, h2, p, N)
    BY <1>2 DEF SavedOK
  <2>4. m.cs[N] = f /\ f.k = "exec" /\ N # 1
    BY <1>2, <1>7
  <2> HIDE DEF Above
  <2> QED BY <2>1, <2>2, <2>3, <2>4 DEF FrameOK
<1>11. LastOK(m.cs, t, h2, p, N)
  BY <1>1, <1>2, <1>3, <1>6 DEF LastOK
<1>12. Good(m2, h2, p)
  <2> DEFINE k == N - 1
  <2>1. k + 1 = N /\ Steps(m, h, m2, h2, k, L)
    BY <1>7, <1>9
  <2> HIDE DEF k
  <2>15. Len(m2.cs) = k + 1 => FrameOK(m2.cs, m2.T[L], h2, p, k + 1)
    BY <2>1, <1>4, <1>10
  <2>2. LastOK(m2.cs, m2.T[L], h2, p, Len(m2.cs)) /\ SizeOK(m2.T[L])
    BY <1>2, <1>4, <1>11
  <2>3. m2 \in Machine /\ h2 \in Seq(Level) /\ L \in Threads
    BY <1>1, <1>4, <1>6
  <2> QED BY <2>1, <2>15, <2>2, <2>3, Change
<1> QED BY <1>4, <1>6, <1>12 DEF Sound, m2

\* growCI has room for one more entry.
Room(t) == IF Len(t.ci) = t.size_ci THEN [t EXCEPT !.size_ci = 2 * t.size_ci] ELSE t

LEMMA RoomGood ==
  ASSUME NEW m \in Machine, NEW h \in Seq(Level), NEW p, Good(m, h, p), NEW L \in Threads,
         ~(Len(m.T[L].ci) = m.T[L].size_ci /\ m.T[L].size_ci > MAXCALLS)
  PROVE  LET t    == m.T[L]
             room == Room(t)
             grow == [m EXCEPT !.T[L] = room]
         IN  /\ grow \in Machine /\ Good(grow, h, p) /\ grow.cs = m.cs /\ grow.T[L] = room
             /\ room \in lua_State /\ Len(t.ci) < room.size_ci /\ room.size_ci <= 2 * MAXCALLS
             /\ room.ci = t.ci /\ room.ended = t.ended /\ room.status = t.status
<1> DEFINE t == m.T[L]
           grow == [m EXCEPT !.T[L] = Room(t)]
<1>1. t \in lua_State /\ SizeOK(t) /\ m.T \in [Threads -> lua_State] /\ t = m.T[L]
  BY DEF Good, Machine
<1>2. MAXCALLS \in Nat \ {0} /\ t.size_ci \in Nat /\ Len(t.ci) \in Nat
  BY <1>1, LimitsAssumption, StateType
<1>25. ~(Len(t.ci) = t.size_ci /\ t.size_ci > MAXCALLS)
  OBVIOUS
<1>3. grow.cs = m.cs /\ grow.T[L] = Room(t)
  BY <1>1 DEF Machine
<1> HIDE DEF t
<1>4. CASE Len(t.ci) = t.size_ci
  <2> DEFINE x == 2 * t.size_ci
             big == [t EXCEPT !.size_ci = x]
  <2>1. Room(t) = big
    BY <1>4 DEF Room
  <2>3. x \in Nat /\ Len(t.ci) < x /\ x <= 2 * MAXCALLS
    BY <1>1, <1>2, <1>25, <1>4 DEF SizeOK
  <2> HIDE DEF x
  <2>2. big \in lua_State /\ big.size_ci = x /\ big.ci = t.ci /\ big.ended = t.ended
        /\ big.status = t.status /\ big.top = t.top
    BY <1>1, <2>3 DEF lua_State
  <2>4. SizeOK(big)
    <3>1. Len(t.ci) \in 1..t.size_ci
      BY <1>1 DEF SizeOK
    <3>2. Len(t.ci) \in 1..x
      BY <3>1, <2>2, <2>3, <1>2
    <3> QED BY <3>2, <2>2, <2>3, <1>1 DEF SizeOK
  <2>5. [m EXCEPT !.T[L].size_ci = x] = [m EXCEPT !.T[L] = big]
    BY <1>1
  <2>6. [m EXCEPT !.T[L] = big] \in Machine /\ Good([m EXCEPT !.T[L] = big], h, p)
    BY <2>2, <2>3, <2>4, <2>5, <1>1, SizeGood
  <2> HIDE DEF big
  <2> QED BY <2>1, <2>2, <2>3, <2>6, <1>3 DEF t
<1>5. CASE Len(t.ci) # t.size_ci
  <2>1. Room(t) = t
    BY <1>5 DEF Room
  <2>2. [m EXCEPT !.T[L] = t] = m
    BY <1>1 DEF Machine
  <2>3. Len(t.ci) < t.size_ci /\ t.size_ci <= 2 * MAXCALLS
    BY <1>1, <1>2, <1>5 DEF SizeOK
  <2> QED BY <2>1, <2>2, <2>3, <1>1, <1>3 DEF t
<1> QED BY <1>4, <1>5

\* Machines as records.
LEMMA MachineIs ==
  ASSUME NEW g \in Machine, NEW x, NEW f, NEW e, e = [cs |-> g.cs, T |-> x]
  PROVE  [g EXCEPT !.T = x] = e /\ Push(e, f) = [cs |-> Append(g.cs, f), T |-> x]
<1>1. [g EXCEPT !.T = x] = e
  BY DEF Machine
<1>2. [e EXCEPT !.cs = Append(g.cs, f)] = [cs |-> Append(g.cs, f), T |-> x]
  OBVIOUS
<1>3. e.cs = g.cs
  OBVIOUS
<1>4. Push(e, f) = [cs |-> Append(g.cs, f), T |-> x]
  BY <1>2, <1>3 DEF Push
<1> QED BY <1>1, <1>4

\* An index up to x + 1 is the last or not.
LEMMA OneMore ==
  ASSUME NEW b \in Nat, NEW x \in Nat, b <= x, NEW z \in 1..x + 1
  PROVE  z \in 1..x \/ (z = x + 1 /\ ~(z <= b))
OBVIOUS

\* A machine whose thread L has one more entry in its CallInfo array.
Entered(g, L, fun) == [g EXCEPT !.T[L].ci = Append(@, fun)]

EnterFields(g, L, fun, t, t1) ==
  /\ Entered(g, L, fun) = [cs |-> g.cs, T |-> [g.T EXCEPT ![L] = t1]]
  /\ \A f : Push(Entered(g, L, fun), f) = Pushed(g, f, L, t1)
  /\ t \in lua_State /\ t1 \in lua_State
  /\ t1.ci = Append(t.ci, fun) /\ Len(t1.ci) = Len(t.ci) + 1 /\ t1.ci[Len(t1.ci)] = fun
  /\ \A q \in 1..Len(t.ci) : t1.ci[q] = t.ci[q]
  /\ t1.status = t.status /\ t1.nCcalls = t.nCcalls /\ t1.baseCcalls = t.baseCcalls
  /\ t1.size_ci = t.size_ci /\ t1.allowhook = t.allowhook /\ t1.errfunc = t.errfunc
  /\ t1.errorJmp = t.errorJmp /\ t1.top = t.top /\ t1.ended = t.ended

LEMMA EnteredIs ==
  ASSUME NEW g \in Machine, NEW L \in Threads, NEW fun \in {"lua", "C"},
         NEW t1, t1 = [g.T[L] EXCEPT !.ci = Append(g.T[L].ci, fun)]
  PROVE  EnterFields(g, L, fun, g.T[L], t1)
<1> DEFINE t == g.T[L]
           c == Append(t.ci, fun)
           e == [cs |-> g.cs, T |-> [g.T EXCEPT ![L] = t1]]
<1>1. t \in lua_State /\ t.ci \in Seq({"lua", "C"}) /\ g.T \in [Threads -> lua_State]
  BY StateType DEF Machine
<1>2. /\ c \in Seq({"lua", "C"}) /\ Len(c) = Len(t.ci) + 1 /\ c[Len(c)] = fun
      /\ \A q \in 1..Len(t.ci) : c[q] = t.ci[q]
  BY <1>1
<1>3. Entered(g, L, fun) = e
  <2>1. Entered(g, L, fun) = [g EXCEPT !.T = [g.T EXCEPT ![L] = t1]]
    BY <1>1 DEF Entered, Machine
  <2>2. [g EXCEPT !.T = [g.T EXCEPT ![L] = t1]] = [cs |-> g.cs, T |-> [g.T EXCEPT ![L] = t1]]
    BY MachineIs
  <2> QED BY <2>1, <2>2
<1>35. t1 = [t EXCEPT !.ci = c]
  OBVIOUS
<1> HIDE DEF t, c
<1>4. /\ t1 \in lua_State /\ t1.ci = c
      /\ t1.status = t.status /\ t1.nCcalls = t.nCcalls /\ t1.baseCcalls = t.baseCcalls
      /\ t1.size_ci = t.size_ci /\ t1.allowhook = t.allowhook /\ t1.errfunc = t.errfunc
      /\ t1.errorJmp = t.errorJmp /\ t1.top = t.top /\ t1.ended = t.ended
  BY <1>1, <1>2, <1>35 DEF lua_State
<1>5. ASSUME NEW f PROVE Push(e, f) = Pushed(g, f, L, t1)
  <2> DEFINE x == [g.T EXCEPT ![L] = t1]
  <2>1. e = [cs |-> g.cs, T |-> x] /\ Pushed(g, f, L, t1) = [cs |-> Append(g.cs, f), T |-> x]
    BY DEF Pushed
  <2> HIDE DEF x, e
  <2>2. Push(e, f) = [cs |-> Append(g.cs, f), T |-> x]
    <3>1. e = [cs |-> g.cs, T |-> x]
      BY <2>1
    <3> QED BY <3>1, MachineIs
  <2> QED BY <2>1, <2>2
<1> HIDE DEF e
<1>6. \A f : Push(Entered(g, L, fun), f) = Pushed(g, f, L, t1)
  BY <1>3, <1>5
<1> QED BY <1>1, <1>2, <1>3, <1>4, <1>6 DEF t, c, e, EnterFields

\* growCI and luaD_precall: a function is entered, or the CallInfo array is full.
LEMMA EnterGood ==
  ASSUME NEW m, NEW p, NEW L, Sound(m, p), CanRun(m, L), ~m.T[L].ended,
         NEW fun \in {"lua", "C"}, NEW frame \in BOOLEAN,
         m.cs[Len(m.cs)].k \in {"exec", "call", "resume"},
         m.cs[Len(m.cs)].k = "exec" <=> frame = FALSE,
         m.cs[Len(m.cs)].k = "resume" => fun = "lua"
  PROVE  /\ Sound(Enter(m, L, fun, frame), p)
         /\ \A b \in Nat : Within(m.cs, b) => Within(Enter(m, L, fun, frame).cs, b)
<1> DEFINE t == m.T[L]
           n == Len(m.cs)
           room == Room(t)
           grow == [m EXCEPT !.T[L] = room]
           r == Enter(m, L, fun, frame)
           full == Len(t.ci) = t.size_ci
<1>1. PICK h \in Seq(Level) : m \in Machine /\ Good(m, h, p)
  BY DEF Sound
<1>2. /\ m.cs # <<>> /\ L = m.cs[n].L /\ t.status = OK /\ n \in Nat \ {0}
      /\ m.cs \in Seq(Frame) /\ L \in Threads /\ t \in lua_State /\ SizeOK(t)
      /\ LastOK(m.cs, t, h, p, n) /\ FrameOK(m.cs, t, h, p, n) /\ Len(h) = n /\ h[n] \in Level
  BY <1>1, TopOK DEF CanRun
<1>3. CASE full /\ t.size_ci > MAXCALLS
  <2>1. r = Throw(m, L, ERRERR)
    BY <1>3 DEF Enter
  <2>2. Sound(Throw(m, L, ERRERR), p)
    BY <1>2, ThrowGood
  <2>3. ASSUME NEW b \in Nat, Within(m.cs, b) PROVE Within(Throw(m, L, ERRERR).cs, b)
    <3>1. \A i \in 1..Len(m.cs) - 1 : Depth(m.cs, i) <= b
      BY <2>3, <1>2 DEF Within
    <3> QED BY <3>1, <1>2, ThrowGood
  <2> HIDE DEF r
  <2> QED BY <2>1, <2>2, <2>3 DEF r
<1>4. ASSUME ~(full /\ t.size_ci > MAXCALLS)
      PROVE  /\ grow \in Machine /\ Good(grow, h, p) /\ grow.cs = m.cs /\ grow.T[L] = room
             /\ room \in lua_State /\ Len(t.ci) < room.size_ci /\ room.size_ci <= 2 * MAXCALLS
             /\ room.ci = t.ci /\ room.ended = t.ended /\ room.status = t.status
             /\ CanRun(grow, L) /\ Sound(grow, p)
  <2>1. /\ grow \in Machine /\ Good(grow, h, p) /\ grow.cs = m.cs /\ grow.T[L] = room
        /\ room \in lua_State /\ Len(t.ci) < room.size_ci /\ room.size_ci <= 2 * MAXCALLS
        /\ room.ci = t.ci /\ room.ended = t.ended /\ room.status = t.status
    <3> HIDE DEF r, n, full
    <3>1. ~(Len(m.T[L].ci) = m.T[L].size_ci /\ m.T[L].size_ci > MAXCALLS)
      BY <1>4 DEF full
    <3>2. L \in Threads
      BY <1>2
    <3> QED BY <3>1, <3>2, <1>1, RoomGood
  <2> HIDE DEF grow, room, t
  <2>2. CanRun(grow, L)
    BY <2>1, <1>2 DEF CanRun
  <2>3. Sound(grow, p)
    BY <2>1 DEF Sound
  <2> QED BY <2>1, <2>2, <2>3
<1>5. CASE full /\ ~(t.size_ci > MAXCALLS) /\ room.size_ci > MAXCALLS
  <2>1. r = Raise(grow, L)
    BY <1>5 DEF Enter, Room
  <2>2. grow.cs = m.cs /\ CanRun(grow, L) /\ Sound(grow, p)
    BY <1>4, <1>5
  <2> HIDE DEF r, grow
  <2>3. /\ Sound(Raise(grow, L), p)
        /\ \A b \in Nat : Within(grow.cs, b) => Within(Raise(grow, L).cs, b)
    BY <2>2, RaiseGood
  <2> QED BY <2>1, <2>2, <2>3 DEF r
<1>6. CASE ~(full /\ t.size_ci > MAXCALLS) /\ ~(full /\ room.size_ci > MAXCALLS)
  <2> DEFINE in == Entered(grow, L, fun)
             g == grow.T[L]
             t1 == [g EXCEPT !.ci = Append(g.ci, fun)]
  <2>1. /\ fun = "C" => r = Push(in, CFun(L))
        /\ fun = "lua" /\ frame => r = Push(in, Exec(L, Len(t.ci)))
        /\ fun = "lua" /\ ~frame => r = in
    BY <1>6 DEF Enter, Room, Entered
  <2>2. /\ grow \in Machine /\ Good(grow, h, p) /\ grow.cs = m.cs /\ grow.T[L] = room
        /\ room \in lua_State /\ Len(t.ci) < room.size_ci /\ room.size_ci <= 2 * MAXCALLS
        /\ room.ci = t.ci /\ room.ended = t.ended /\ room.status = t.status
    BY <1>4, <1>6
  <2>25. g = grow.T[L] /\ t1 = [grow.T[L] EXCEPT !.ci = Append(grow.T[L].ci, fun)]
    OBVIOUS
  <2> HIDE DEF r, grow, room, t1, in, g
  <2>26. in = Entered(grow, L, fun)
    BY DEF in
  <2>27. EnterFields(grow, L, fun, g, t1)
    BY <2>2, <2>25, <1>2, EnteredIs
  <2>3. /\ in = [cs |-> grow.cs, T |-> [grow.T EXCEPT ![L] = t1]]
        /\ \A f : Push(in, f) = Pushed(grow, f, L, t1)
        /\ g \in lua_State /\ t1 \in lua_State
        /\ t1.ci = Append(g.ci, fun) /\ Len(t1.ci) = Len(g.ci) + 1 /\ t1.ci[Len(t1.ci)] = fun
        /\ \A q \in 1..Len(g.ci) : t1.ci[q] = g.ci[q]
        /\ t1.status = g.status /\ t1.nCcalls = g.nCcalls /\ t1.baseCcalls = g.baseCcalls
        /\ t1.size_ci = g.size_ci /\ t1.allowhook = g.allowhook /\ t1.errfunc = g.errfunc
        /\ t1.errorJmp = g.errorJmp /\ t1.top = g.top /\ t1.ended = g.ended
    BY <2>26, <2>27 DEF EnterFields
  <2>4. g = grow.T[L] /\ n = Len(m.cs) /\ ~t.ended
    BY <2>25
  <2> HIDE DEF t, n
  <2>5. g = room /\ g.ci = t.ci /\ Len(t.ci) \in Nat /\ g.size_ci \in Nat /\ Len(g.ci) < g.size_ci
        /\ g.size_ci <= 2 * MAXCALLS /\ ~g.ended /\ g.status = OK
    BY <2>2, <2>3, <2>4, <1>2, StateType
  <2>6. SizeOK(t1)
    <3>1. SizeOK(g)
      BY <2>2, <2>4, <1>2 DEF Good
    <3>2. Len(t1.ci) \in 1..t1.size_ci
      BY <2>3, <2>5
    <3> QED BY <3>1, <3>2, <2>3, <2>5 DEF SizeOK
  <2>7. h[n] = Len(g.ci)
    BY <2>5, <1>2 DEF LastOK, OK, YIELD
  <2>8. CASE fun = "C"
    <3> DEFINE f == CFun(L)
    <3>1. f \in Frame /\ f.k = "cfun" /\ f.L = L
      BY <1>2 DEF CFun, Frame
    <3>2. f.k \in Above(m.cs[n])
      <4>1. m.cs[n].k \in {"exec", "call"}
        BY <2>8, <2>4
      <4> QED BY <4>1, <3>1 DEF Above
    <3> HIDE DEF f
    <3>3. Saves(f, g)
      BY <3>1 DEF Saves
    <3>4. Sets(f, n + 1, g, t1)
      <4>1. t1.nCcalls = g.nCcalls + 0
        BY <2>3, StateType
      <4> QED BY <4>1, <3>1, <2>3, <2>5, <2>8 DEF Sets, Counted, Landing
    <3>5. Sound(Pushed(grow, f, L, t1), p)
      <4>0. Enters(f, h[Len(h)], grow.T[f.L], t1)
        BY <3>1 DEF Enters
      <4>1. /\ Pushed(grow, f, f.L, t1) \in Machine
            /\ \E h2 \in Seq(Level) : Good(Pushed(grow, f, f.L, t1), h2, p)
        BY <4>0, <3>1, <3>2, <3>3, <3>4, <2>2, <2>3, <2>4, <2>5, <2>6, <1>2, PushGood
      <4> QED BY <4>1, <3>1 DEF Sound
    <3>6. ASSUME NEW b \in Nat, Within(m.cs, b) PROVE Within(Append(m.cs, f), b)
      BY <1>2, <3>1, <3>6, WithinPush DEF Counted
    <3>7. r = Pushed(grow, f, L, t1)
      BY <2>1, <2>3, <2>8 DEF f
    <3>8. r.cs = Append(m.cs, f)
      BY <3>7, <2>2 DEF Pushed
    <3> QED BY <3>5, <3>6, <3>7, <3>8 DEF r
  <2>9. CASE fun = "lua" /\ frame
    <3> DEFINE f == Exec(L, Len(t.ci))
    <3>1. f \in Frame /\ f.k = "exec" /\ f.L = L /\ f.base = Len(g.ci)
      BY <1>2, <2>5 DEF Exec, Frame
    <3>2. f.k \in Above(m.cs[n])
      <4>1. m.cs[n].k \in {"call", "resume"}
        BY <2>9, <2>4
      <4> QED BY <4>1, <3>1 DEF Above
    <3> HIDE DEF f
    <3>3. Saves(f, g)
      BY <3>1 DEF Saves
    <3>4. Sets(f, n + 1, g, t1)
      <4>1. t1.nCcalls = g.nCcalls + 0
        BY <2>3, StateType
      <4> QED BY <4>1, <3>1, <2>3, <2>5 DEF Sets, Counted, Landing
    <3>45. /\ f.base = h[Len(h)] /\ f.base < Len(t1.ci)
           /\ \A q \in 1..Len(t1.ci) : t1.ci[q] = IF q <= f.base THEN g.ci[q] ELSE "lua"
      <4>1. f.base = h[Len(h)] /\ f.base < Len(t1.ci)
        BY <3>1, <2>3, <2>5, <2>7, <1>2
      <4>2. ASSUME NEW q \in 1..Len(t1.ci)
            PROVE  t1.ci[q] = IF q <= f.base THEN g.ci[q] ELSE "lua"
        <5>0. Len(t1.ci) = Len(g.ci) + 1 /\ Len(g.ci) \in Nat /\ f.base = Len(g.ci)
          BY <3>1, <2>3, <2>5
        <5>1. q \in 1..Len(g.ci) \/ (q = Len(t1.ci) /\ ~(q <= f.base))
          BY <5>0
        <5> QED BY <5>1, <3>1, <2>3, <2>5, <2>9
      <4> QED BY <4>1, <4>2
    <3>5. Sound(Pushed(grow, f, L, t1), p)
      <4>1. /\ grow \in Machine /\ Good(grow, h, p) /\ t1 \in lua_State /\ grow.cs # <<>>
            /\ f.L = grow.cs[Len(grow.cs)].L /\ f.k \in Above(grow.cs[Len(grow.cs)])
            /\ f.k # "resume" /\ Saves(f, grow.T[f.L])
            /\ Sets(f, Len(grow.cs) + 1, grow.T[f.L], t1) /\ ~t1.ended
        BY <3>1, <3>2, <3>3, <3>4, <2>2, <2>3, <2>4, <2>5, <1>2
      <4>2. \A q \in 1..Len(t1.ci) : t1.ci[q] = IF q <= f.base THEN grow.T[f.L].ci[q] ELSE "lua"
        BY <3>1, <3>45, <2>4
      <4>3. Enters(f, h[Len(h)], grow.T[f.L], t1)
        BY <4>2, <3>45 DEF Enters
      <4> QED BY <4>1, <4>3, <3>1, <2>6, PushGood DEF Sound
    <3>6. ASSUME NEW b \in Nat, Within(m.cs, b) PROVE Within(Append(m.cs, f), b)
      BY <1>2, <3>1, <3>6, WithinPush DEF Counted
    <3>7. r = Pushed(grow, f, L, t1)
      BY <2>1, <2>3, <2>9 DEF f
    <3>8. r.cs = Append(m.cs, f)
      BY <3>7, <2>2 DEF Pushed
    <3> QED BY <3>5, <3>6, <3>7, <3>8 DEF r
  <2>10. CASE fun = "lua" /\ ~frame
    <3>1. m.cs[n].k = "exec"
      BY <2>10, <2>4
    <3>2. m.cs[n].base < h[n] /\ m.cs[n].base \in Nat
      <4>1. n # 1
        BY <3>1, <1>2 DEF FrameOK
      <4>2. m.cs[n].base < h[n]
        <5>1. n > 1
          BY <4>1, <1>2
        <5>2. LevelOK(m.cs, t, h, n)
          BY <1>2 DEF FrameOK
        <5> QED BY <5>1, <5>2, <3>1 DEF LevelOK
      <4>3. m.cs[n] \in Frame
        BY <1>2, <2>4
      <4> QED BY <3>1, <4>2, <4>3, FrameType
    <3>3. \A q \in m.cs[n].base + 1..h[n] : t.ci[q] = "lua"
      <4>1. n # 1
        BY <3>1, <1>2 DEF FrameOK
      <4>2. n > 1
        BY <4>1, <1>2
      <4>3. LevelOK(m.cs, t, h, n)
        BY <1>2 DEF FrameOK
      <4> QED BY <4>2, <4>3, <3>1 DEF LevelOK
    <3>4. m.cs[n].base < Len(t1.ci)
      BY <3>2, <2>3, <2>5, <2>7
    <3>5. ASSUME NEW q \in 1..Len(t1.ci)
          PROVE  t1.ci[q] = IF q <= m.cs[n].base THEN g.ci[q] ELSE "lua"
      <4>0. /\ Len(t1.ci) = Len(g.ci) + 1 /\ Len(g.ci) \in Nat /\ h[n] = Len(g.ci)
            /\ m.cs[n].base < Len(g.ci) /\ m.cs[n].base \in Nat
        BY <3>2, <2>3, <2>5, <2>7
      <4>1. q \in 1..Len(g.ci) \/ (q = Len(t1.ci) /\ ~(q <= m.cs[n].base))
        <5>1. m.cs[n].base <= Len(g.ci) /\ q \in 1..Len(g.ci) + 1
          BY <4>0
        <5> QED BY <4>0, <5>1, OneMore
      <4>2. q \in 1..Len(g.ci) /\ ~(q <= m.cs[n].base) => q \in m.cs[n].base + 1..h[n]
        BY <3>2, <2>5, <2>7
      <4> QED BY <4>1, <4>2, <3>3, <2>3, <2>5, <2>10
    <3>6. Sound([cs |-> grow.cs, T |-> [grow.T EXCEPT ![L] = t1]], p)
      <4>1. /\ grow \in Machine /\ Good(grow, h, p) /\ t1 \in lua_State /\ grow.cs # <<>>
            /\ L = grow.cs[Len(grow.cs)].L /\ grow.cs[Len(grow.cs)].k = "exec"
            /\ grow.cs[Len(grow.cs)].base < Len(t1.ci)
        BY <3>1, <3>4, <2>2, <2>3, <2>4, <1>2
      <4>2. \A q \in 1..Len(t1.ci) :
              t1.ci[q] = IF q <= grow.cs[Len(grow.cs)].base THEN grow.T[L].ci[q] ELSE "lua"
        BY <3>5, <2>2, <2>4
      <4>3. /\ t1.status = grow.T[L].status /\ t1.nCcalls = grow.T[L].nCcalls
            /\ t1.baseCcalls = grow.T[L].baseCcalls /\ t1.allowhook = grow.T[L].allowhook
            /\ t1.errfunc = grow.T[L].errfunc /\ t1.errorJmp = grow.T[L].errorJmp
            /\ t1.ended = grow.T[L].ended
        BY <2>3, <2>4
      <4>4. LuaLevels(grow.cs[Len(grow.cs)], grow.T[L], t1)
        BY <4>1, <4>2, <4>3 DEF LuaLevels
      <4> QED BY <4>1, <4>4, <2>6, LevelGood
    <3>7. r = [cs |-> grow.cs, T |-> [grow.T EXCEPT ![L] = t1]] /\ r.cs = m.cs
      BY <2>1, <2>2, <2>3, <2>10
    <3> QED BY <3>6, <3>7 DEF r
  <2> QED BY <2>8, <2>9, <2>10
<1> QED BY <1>3, <1>5, <1>6

-----------------------------------------------------------------------------
(* Calls and protected calls.                                              *)

LEMMA PushRecord ==
  ASSUME NEW m \in Machine, NEW f
  PROVE  Push(m, f) = [cs |-> Append(m.cs, f), T |-> m.T]
<1> DEFINE c == Append(m.cs, f)
<1>1. Push(m, f) = [m EXCEPT !.cs = c]
  BY DEF Push
<1> HIDE DEF c
<1>2. [m EXCEPT !.cs = c] = [cs |-> c, T |-> m.T]
  BY DEF Machine
<1> QED BY <1>1, <1>2 DEF c

LEMMA PushDepth ==
  ASSUME NEW m \in Machine, NEW f \in Frame, NEW b \in Nat, m.cs # <<>>,
         Within(m.cs, b), Depth(Append(m.cs, f), Len(m.cs) + 1) <= b
  PROVE  Within(Append(m.cs, f), b)
<1> DEFINE n == Len(m.cs)
           cs2 == Append(m.cs, f)
<1>1. n \in Nat /\ Len(cs2) = n + 1 /\ \A i \in 1..n : cs2[i] = m.cs[i]
  BY DEF Machine
<1>2. \A i \in 1..n : Depth(m.cs, i) <= b
  BY DEF Within
<1>3. Depth(cs2, n + 1) <= b
  OBVIOUS
<1> HIDE DEF n, cs2
<1>4. ASSUME NEW i \in 1..n + 1 PROVE Depth(cs2, i) <= b
  <2>1. CASE i = n + 1
    BY <2>1, <1>3
  <2>2. CASE i # n + 1
    <3>1. i \in 1..n /\ i \in Nat /\ \A l \in 1..i : cs2[l] = m.cs[l]
      BY <2>2, <1>1
    <3> QED BY <3>1, <1>2, Local
  <2> QED BY <2>1, <2>2
<1> QED BY <1>1, <1>4 DEF Within, cs2

\* luaD_call: the C stack stays bounded.
LEMMA CallGood ==
  ASSUME NEW m, NEW p, NEW L, NEW fun \in {"lua", "C"}, Sound(m, p), CanRun(m, L),
         ~m.T[L].ended, "call" \in Above(m.cs[Len(m.cs)]), Bounded(m.cs)
  PROVE  Sound(luaD_call(m, L, fun), p) /\ Bounded(luaD_call(m, L, fun).cs)
<1> DEFINE n == Len(m.cs)
           t == m.T[L]
           f == DCall(L)
           d == t.nCcalls + 1
           t1 == [t EXCEPT !.nCcalls = d]
           called == Pushed(m, f, L, t1)
           B == MAXCCALLS + ErrorCCalls
           r == luaD_call(m, L, fun)
<1>1. PICK h \in Seq(Level) : m \in Machine /\ Good(m, h, p)
  BY DEF Sound
<1>2. /\ m.cs # <<>> /\ L = m.cs[n].L /\ t.status = OK /\ n \in Nat \ {0}
      /\ m.cs \in Seq(Frame) /\ L \in Threads /\ t \in lua_State /\ SizeOK(t)
      /\ LastOK(m.cs, t, h, p, n) /\ m.T \in [Threads -> lua_State]
  BY <1>1, TopOK DEF CanRun
<1>3. MAXCCALLS \in Nat \ {0} /\ B \in Nat /\ ErrorCCalls = 1 /\ B = MAXCCALLS + 1
  BY LimitsAssumption DEF ErrorCCalls
<1>4. /\ t1 \in lua_State /\ t1.nCcalls = d /\ t1.ended = t.ended /\ t1.status = t.status
      /\ t1.baseCcalls = t.baseCcalls /\ t1.ci = t.ci /\ t1.size_ci = t.size_ci
      /\ t1.allowhook = t.allowhook /\ t1.errfunc = t.errfunc /\ t1.errorJmp = t.errorJmp
      /\ t1.top = t.top /\ d = t.nCcalls + 1 /\ d \in Nat
  <2>1. d = t.nCcalls + 1 /\ d \in Nat
    BY <1>2, StateType
  <2> HIDE DEF t, d
  <2> QED BY <2>1, <1>2 DEF lua_State
<1>5. [Push(m, f) EXCEPT !.T[L].nCcalls = @ + 1] = called
  <2>1. Push(m, f) = [cs |-> Append(m.cs, f), T |-> m.T]
    BY <1>1, PushRecord
  <2>2. [Push(m, f) EXCEPT !.T[L].nCcalls = @ + 1] = [Push(m, f) EXCEPT !.T[L] = t1]
    BY <2>1
  <2> HIDE DEF t1, f
  <2>3. [Push(m, f) EXCEPT !.T[L] = t1] = called
    <3> DEFINE c == Append(m.cs, f)
               x == m.T
    <3>1. Push(m, f) = [cs |-> c, T |-> x]
      BY <2>1
    <3>2. Pushed(m, f, L, t1) = [cs |-> c, T |-> [x EXCEPT ![L] = t1]]
      BY DEF Pushed
    <3> HIDE DEF c, x
    <3>3. [[cs |-> c, T |-> x] EXCEPT !.T[L] = t1] = [cs |-> c, T |-> [x EXCEPT ![L] = t1]]
      OBVIOUS
    <3> QED BY <3>1, <3>2, <3>3
  <2> QED BY <2>2, <2>3
<1>6. called.T[L] = t1 /\ called.cs = Append(m.cs, f)
  BY <1>2 DEF Pushed
<1>7. r = IF d = MAXCCALLS THEN Raise(called, L)
          ELSE IF d >= MAXCCALLS + ErrorCCalls THEN Throw(called, L, ERRERR)
          ELSE Enter(called, L, fun, TRUE)
  <2> HIDE DEF called, t1
  <2>1. called.T[L].nCcalls = d
    BY <1>4, <1>6
  <2> HIDE DEF d
  <2> QED BY <2>1, <1>5 DEF luaD_call
<1>8. f \in Frame /\ f.k = "call" /\ f.L = L
  BY <1>2 DEF DCall, Frame
<1>9. t = m.T[L] /\ ~t.ended /\ n = Len(m.cs)
  OBVIOUS
<1>95. "call" \in Above(m.cs[n]) /\ Within(m.cs, B)
  BY DEF Bounded, Within
<1> HIDE DEF n, t, f, d, t1, r, called, B
<1>10. Sound(called, p)
  <2>1. Saves(f, t)
    BY <1>8 DEF Saves
  <2>2. Sets(f, n + 1, t, t1)
    BY <1>2, <1>4, <1>8 DEF Sets, Counted, Landing
  <2>3. SizeOK(t1)
    BY <1>2, <1>4 DEF SizeOK
  <2>35. Enters(f, h[Len(h)], m.T[f.L], t1)
    BY <1>8 DEF Enters
  <2>4. Pushed(m, f, f.L, t1) \in Machine /\ \E h2 \in Seq(Level) : Good(Pushed(m, f, f.L, t1), h2, p)
    BY <2>1, <2>2, <2>3, <2>35, <1>1, <1>2, <1>4, <1>8, <1>9, <1>95, PushGood
  <2> QED BY <2>4, <1>8 DEF Sound, called
<1>11. /\ called.cs # <<>> /\ Len(called.cs) = n + 1 /\ called.cs[Len(called.cs)] = f
       /\ \A i \in 1..n : called.cs[i] = m.cs[i]
  BY <1>2, <1>6, <1>8, <1>9
<1>12. CanRun(called, L) /\ ~called.T[L].ended
  BY <1>2, <1>4, <1>6, <1>8, <1>9, <1>11 DEF CanRun
<1>13. Depth(called.cs, n + 1) = d
  <2>1. PICK g \in Seq(Level) : called \in Machine /\ Good(called, g, p)
    BY <1>10 DEF Sound
  <2>2. LastOK(called.cs, called.T[L], g, p, n + 1)
    BY <2>1, <1>8, <1>11, TopOK
  <2> QED BY <2>2, <1>4, <1>6 DEF LastOK
<1>14. \A i \in 1..Len(called.cs) - 1 : Depth(called.cs, i) <= B
  <2> SUFFICES ASSUME NEW i \in 1..n PROVE Depth(called.cs, i) <= B
    BY <1>2, <1>11
  <2>1. i \in Nat /\ \A l \in 1..i : called.cs[l] = m.cs[l]
    BY <1>2, <1>11
  <2>2. Depth(m.cs, i) <= B
    BY <1>95, <1>9 DEF Within
  <2> QED BY <2>1, <2>2, Local
<1>15. d <= B => Within(called.cs, B)
  BY <1>1, <1>2, <1>3, <1>6, <1>8, <1>9, <1>95, <1>13, PushDepth
<1>16. CASE d = MAXCCALLS
  <2>1. r = Raise(called, L)
    BY <1>7, <1>16
  <2>2. Within(called.cs, B)
    BY <1>15, <1>16, <1>3
  <2>3. Sound(Raise(called, L), p) /\ Within(Raise(called, L).cs, B)
    BY <2>2, <1>3, <1>8, <1>10, <1>11, <1>12, RaiseGood
  <2> QED BY <2>1, <2>3 DEF r, Bounded, Within, B
<1>17. CASE d # MAXCCALLS /\ d >= MAXCCALLS + ErrorCCalls
  <2>1. r = Throw(called, L, ERRERR)
    BY <1>7, <1>17
  <2>2. Sound(Throw(called, L, ERRERR), p) /\ Within(Throw(called, L, ERRERR).cs, B)
    BY <1>3, <1>8, <1>10, <1>11, <1>14, ThrowGood
  <2> QED BY <2>1, <2>2 DEF r, Bounded, Within, B
<1>18. CASE d # MAXCCALLS /\ ~(d >= MAXCCALLS + ErrorCCalls)
  <2>1. r = Enter(called, L, fun, TRUE)
    BY <1>7, <1>18
  <2>2. Within(called.cs, B)
    BY <1>3, <1>4, <1>15, <1>18 DEF B
  <2>3. Sound(Enter(called, L, fun, TRUE), p) /\ Within(Enter(called, L, fun, TRUE).cs, B)
    BY <2>2, <1>3, <1>8, <1>10, <1>11, <1>12, EnterGood
  <2> QED BY <2>1, <2>3 DEF r, Bounded, Within, B
<1> QED BY <1>16, <1>17, <1>18 DEF r

\* luaD_pcall: the protected call saves what its thread is.
LEMMA PCallGood ==
  ASSUME NEW m, NEW p, NEW L, NEW fun \in {"lua", "C"}, Sound(m, p), CanRun(m, L),
         ~m.T[L].ended, m.cs[Len(m.cs)].k = "cfun", Bounded(m.cs),
         NEW ef \in {0, Len(m.T[L].ci)}
  PROVE  Sound(luaD_pcall(m, L, fun, ef), p) /\ Bounded(luaD_pcall(m, L, fun, ef).cs)
<1> DEFINE n == Len(m.cs)
           t == m.T[L]
           f == PCall(L, t)
           t1 == [t EXCEPT !.errfunc = ef, !.errorJmp = n + 1]
           tried == Pushed(m, f, L, t1)
           B == MAXCCALLS + ErrorCCalls
<1>1. PICK h \in Seq(Level) : m \in Machine /\ Good(m, h, p)
  BY DEF Sound
<1>2. /\ m.cs # <<>> /\ L = m.cs[n].L /\ t.status = OK /\ n \in Nat \ {0}
      /\ m.cs \in Seq(Frame) /\ L \in Threads /\ t \in lua_State /\ SizeOK(t)
      /\ m.T \in [Threads -> lua_State]
  BY <1>1, TopOK DEF CanRun
<1>25. /\ t = m.T[L] /\ ~t.ended /\ n = Len(m.cs) /\ m.cs[n].k = "cfun" /\ ef \in {0, Len(t.ci)}
  OBVIOUS
<1>3. /\ t.nCcalls \in Nat /\ t.allowhook \in BOOLEAN /\ t.errfunc \in Nat /\ t.errorJmp \in Nat
      /\ Len(t.ci) \in Nat /\ ef \in Nat
  <2> HIDE DEF t
  <2>1. t.nCcalls \in Nat /\ t.errfunc \in Nat /\ t.errorJmp \in Nat /\ t.allowhook \in BOOLEAN
    BY <1>2, StateType
  <2>2. Len(t.ci) \in Nat
    BY <1>2, StateType
  <2> QED BY <2>1, <2>2, <1>25
<1>4. /\ f \in Frame /\ f.k = "pcall" /\ f.L = L /\ f.prev = t.errorJmp /\ f.nCcalls = t.nCcalls
      /\ f.ci = Len(t.ci) /\ f.allowhook = t.allowhook /\ f.errfunc = t.errfunc
  <2> HIDE DEF t
  <2>1. f = [k |-> "pcall", L |-> L, prev |-> t.errorJmp, nCcalls |-> t.nCcalls,
             ci |-> Len(t.ci), allowhook |-> t.allowhook, errfunc |-> t.errfunc]
    BY DEF PCall
  <2>2. f \in [k : {"pcall"}, L : Threads, prev : Nat, nCcalls : Nat, ci : Nat,
               allowhook : BOOLEAN, errfunc : Nat]
    BY <2>1, <1>2, <1>3
  <2>3. f \in Frame
    BY <2>2 DEF Frame
  <2> QED BY <2>1, <2>3
<1>5. /\ t1 \in lua_State /\ t1.nCcalls = t.nCcalls /\ t1.ended = t.ended /\ t1.status = t.status
      /\ t1.baseCcalls = t.baseCcalls /\ t1.ci = t.ci /\ t1.size_ci = t.size_ci
      /\ t1.allowhook = t.allowhook /\ t1.errfunc = ef /\ t1.errorJmp = n + 1 /\ t1.top = t.top
  <2>1. n + 1 \in Nat
    BY <1>2
  <2> HIDE DEF t, n
  <2> QED BY <2>1, <1>2, <1>3 DEF lua_State
<1>6. [Push(m, f) EXCEPT !.T[L].errfunc = ef, !.T[L].errorJmp = Len(m.cs) + 1] = tried
  <2>1. Push(m, f) = [cs |-> Append(m.cs, f), T |-> m.T]
    BY <1>1, PushRecord
  <2>2. [Push(m, f) EXCEPT !.T[L].errfunc = ef, !.T[L].errorJmp = Len(m.cs) + 1]
          = [Push(m, f) EXCEPT !.T[L] = t1]
    <3> DEFINE c == Append(m.cs, f)
               x == m.T
               j == Len(m.cs) + 1
               P == [cs |-> c, T |-> x]
    <3> HIDE DEF c, x, j
    <3>1. [P EXCEPT !.T[L].errfunc = ef, !.T[L].errorJmp = j]
            = [P EXCEPT !.T[L] = [x[L] EXCEPT !.errfunc = ef, !.errorJmp = j]]
      <4>1. x \in [Threads -> lua_State]
        BY <1>2 DEF x
      <4> QED BY <4>1, <1>2
    <3> QED BY <2>1, <3>1 DEF c, x, j
  <2> HIDE DEF t1, f
  <2>3. [Push(m, f) EXCEPT !.T[L] = t1] = tried
    <3> DEFINE c == Append(m.cs, f)
               x == m.T
    <3>1. Push(m, f) = [cs |-> c, T |-> x]
      BY <2>1
    <3>2. Pushed(m, f, L, t1) = [cs |-> c, T |-> [x EXCEPT ![L] = t1]]
      BY DEF Pushed
    <3> HIDE DEF c, x
    <3>3. [[cs |-> c, T |-> x] EXCEPT !.T[L] = t1] = [cs |-> c, T |-> [x EXCEPT ![L] = t1]]
      OBVIOUS
    <3> QED BY <3>1, <3>2, <3>3
  <2> QED BY <2>2, <2>3
<1>7. luaD_pcall(m, L, fun, ef) = luaD_call(tried, L, fun)
  BY <1>6 DEF luaD_pcall
<1>8. tried.T[L] = t1 /\ tried.cs = Append(m.cs, f)
  BY <1>2 DEF Pushed
<1>9. B \in Nat /\ Within(m.cs, B)
  BY LimitsAssumption DEF Bounded, Within, ErrorCCalls
<1> HIDE DEF n, t, f, t1, tried
<1>10. Sound(tried, p)
  <2>1. Saves(f, t)
    BY <1>4 DEF Saves
  <2>2. Sets(f, n + 1, t, t1)
    <3>1. t1.nCcalls = t.nCcalls + 0
      BY <1>3, <1>5
    <3> QED BY <3>1, <1>2, <1>25, <1>4, <1>5 DEF Sets, Counted, Landing
  <2>3. SizeOK(t1)
    BY <1>2, <1>5 DEF SizeOK
  <2>4. f.k \in Above(m.cs[n])
    BY <1>25, <1>4 DEF Above
  <2>45. Enters(f, h[Len(h)], m.T[f.L], t1)
    BY <1>4 DEF Enters
  <2>5. Pushed(m, f, f.L, t1) \in Machine /\ \E h2 \in Seq(Level) : Good(Pushed(m, f, f.L, t1), h2, p)
    BY <2>1, <2>2, <2>3, <2>4, <2>45, <1>1, <1>2, <1>25, <1>4, <1>5, PushGood
  <2> QED BY <2>5, <1>4 DEF Sound, tried
<1>11. tried.cs # <<>> /\ tried.cs[Len(tried.cs)] = f
  BY <1>2, <1>4, <1>8
<1>12. CanRun(tried, L) /\ ~tried.T[L].ended
  BY <1>2, <1>25, <1>4, <1>5, <1>8, <1>11 DEF CanRun
<1>13. "call" \in Above(tried.cs[Len(tried.cs)])
  BY <1>4, <1>11 DEF Above
<1>14. Bounded(tried.cs)
  <2>1. Within(Append(m.cs, f), B)
    BY <1>2, <1>4, <1>9, WithinPush DEF Counted
  <2> QED BY <2>1, <1>8 DEF Bounded, Within
<1> QED BY <1>7, <1>10, <1>12, <1>13, <1>14, CallGood
=============================================================================
