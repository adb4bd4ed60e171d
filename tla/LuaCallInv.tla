----------------------------- MODULE LuaCallInv -----------------------------
(***************************************************************************)
(* The inductive invariant of LuaCall: what the frames of the C stack, the *)
(* values they saved and the fields of the threads promise each other.     *)
(*                                                                         *)
(* The frames of a thread are next to each other on the C stack, and what  *)
(* each field of the thread must be is a function of the frames up to its  *)
(* last one.  A frame that saved a field (luaD_pcall, GCTM) saved what it  *)
(* must be for the frames below, so that restoring it after any error is   *)
(* right.                                                                  *)
(***************************************************************************)
EXTENDS LuaCall

-----------------------------------------------------------------------------
(* What a stack says.                                                      *)

\* The calls that nCcalls counts, up to frame i.
Depth(cs, i) == Cardinality({j \in 1..i : cs[j].k \in Counted})

\* j is the innermost frame up to i that called setjmp, 0 if there is none.
LandingAt(cs, i, j) ==
  /\ j \in 0..i
  /\ j # 0 => cs[j].k \in Landing
  /\ \A l \in j + 1..i : cs[l].k \notin Landing

\* ef is the error function of the innermost protected call up to i.
HandlerAt(cs, i, ef) ==
  ef # 0 => \E j \in 1..i : /\ cs[j].k = "pcall" /\ cs[j].ci = ef
                            /\ \A l \in j + 1..i : cs[l].k \notin {"pcall", "resume"}

\* A hook or a finalizer runs in the thread of frame i.
Guarded(cs, i) == \E j \in 1..i : cs[j].L = cs[i].L /\ cs[j].k \in {"hook", "gctm"}

HookAt(cs, i, ah, p) ==
  /\ Guarded(cs, i) => ah = FALSE
  /\ ah = FALSE => Guarded(cs, i) \/ p # "run"

\* What a frame can call.
Above(f) ==
  CASE f.k = "exec"                     -> {"cfun", "call", "hook", "gctm", "raise"}
    [] f.k = "cfun"                     -> {"call", "pcall", "resume", "gctm", "raise"}
    [] f.k = "call"                     -> {"exec", "cfun", "raise"}
    [] f.k = "resume"                   -> {"exec", "raise"}
    [] f.k \in {"pcall", "hook", "gctm"} -> {"call"}
    [] f.k = "raise"                    -> IF f.handled THEN {"call"} ELSE {}
    [] f.k = "close"                    -> {"gctm"}

\* The frames of a thread are next to each other: a new thread begins with the
\* frame of its lua_resume, and only there.
Threaded(cs) ==
  \A i, j \in 1..Len(cs) : i <= j =>
    (cs[i].L = cs[j].L <=> \A l \in i + 1..j : cs[l].k # "resume")

\* The call info of a coroutine that has yielded: Lua functions, and the C
\* function that yielded.
Parked(ci) == Len(ci) > 2 /\ \A i \in 2..Len(ci) : ci[i] = "C" <=> i = Len(ci)

-----------------------------------------------------------------------------
(* Frames and fields.  h[i] is how many entries of its thread's CallInfo   *)
(* array are those of the frames up to i; m is a machine and p a phase.    *)

\* The entries of the array are those of the frames.
LevelOK(cs, t, h, i) ==
  LET f == cs[i]
  IN  /\ i = 1 \/ f.k = "resume" => h[i] = 1
      /\ i > 1 =>
           /\ f.k = "exec" => /\ f.base = h[i - 1] /\ f.base < h[i]
                              /\ \A q \in f.base + 1..h[i] : t.ci[q] = "lua"
           /\ f.k = "cfun" => h[i] = h[i - 1] + 1 /\ t.ci[h[i]] = "C"
           /\ f.k \in {"call", "pcall", "hook", "gctm", "raise"} => h[i] = h[i - 1]

\* What a frame saved is what was so below it.
SavedOK(cs, h, p, i) ==
  LET f == cs[i]
  IN  /\ f.k = "pcall" =>
           /\ f.ci = h[i] /\ f.nCcalls = Depth(cs, i - 1)
           /\ LandingAt(cs, i - 1, f.prev) /\ HandlerAt(cs, i - 1, f.errfunc)
           /\ HookAt(cs, i - 1, f.allowhook, p)
      /\ f.k = "resume" => i > 2 /\ f.from = cs[i - 1].L /\ f.prev = 0
      /\ f.k = "hook"   => ~Guarded(cs, i - 1)
      /\ f.k = "gctm"   => HookAt(cs, i - 1, f.oldah, p)

FrameOK(cs, t, h, p, i) ==
  LET f == cs[i]
  IN  /\ i = 1 => f.L = MainThread /\ f.k = IF p = "run" THEN "cfun" ELSE "close"
      /\ i > 1 => f.k \in Above(cs[i - 1])
      /\ i = 1 \/ f.k = "resume" => t.baseCcalls = Depth(cs, i)
      /\ t.baseCcalls <= Depth(cs, i)
      /\ t.ended => f.k \in {"resume", "raise"} /\ (f.k = "raise" => ~f.handled)
      /\ LevelOK(cs, t, h, i)
      /\ SavedOK(cs, h, p, i)

\* The fields of a thread are those its last frame calls for.
LastOK(cs, t, h, p, i) ==
  /\ t.nCcalls = Depth(cs, i)
  /\ LandingAt(cs, i, t.errorJmp)
  /\ HandlerAt(cs, i, t.errfunc)
  /\ HookAt(cs, i, t.allowhook, p) \/ t.ended
  /\ \/ t.status = OK /\ Len(t.ci) = h[i]
     \/ t.status = YIELD /\ cs[i].k = "resume" /\ i = Len(cs) /\ Parked(t.ci) /\ ~t.ended

\* A thread that has no frame.
IdleOK(L, t, p) ==
  /\ t.errorJmp = 0 /\ t.errfunc = 0
  /\ t.status = YIELD => Parked(t.ci) /\ ~t.ended
  /\ L # MainThread =>
       /\ t.status = OK    => Len(t.ci) = 1 /\ (t.ended <=> t.top # "function")
       /\ t.status \notin {OK, YIELD} => t.ended
       /\ t.allowhook = FALSE => t.ended \/ p # "run"

\* Whatever the frames.
SizeOK(t) ==
  /\ Len(t.ci) \in 1..t.size_ci /\ t.size_ci <= 2 * MAXCALLS
  /\ t.top = "values" => "manyresults" \in Uses

\* A machine in which frames and fields agree.
Good(m, h, p) ==
  /\ Len(h) = Len(m.cs)
  /\ Threaded(m.cs)
  /\ \A i, j \in 1..Len(m.cs) : i <= j /\ m.cs[i].L = m.cs[j].L => h[i] <= h[j]
  /\ \A i \in 1..Len(m.cs) : FrameOK(m.cs, m.T[m.cs[i].L], h, p, i)
  /\ \A i \in 1..Len(m.cs) :
       i = Len(m.cs) \/ m.cs[i + 1].k = "resume" => LastOK(m.cs, m.T[m.cs[i].L], h, p, i)
  /\ \A L \in Threads : SizeOK(m.T[L])
  /\ \A L \in Threads : (\A i \in 1..Len(m.cs) : m.cs[i].L # L) => IdleOK(L, m.T[L], p)

Bounded(cs) == \A i \in 1..Len(cs) : Depth(cs, i) <= MAXCCALLS + ErrorCCalls

Level == Nat \ {0}

CallInv ==
  /\ TypeOK
  /\ \E h \in Seq(Level) : Good(Now, h, phase)
  /\ Bounded(cstack)

\* The queue of the userdata whose finalizers are to be called.
QueueInv ==
  /\ \A i, j \in DOMAIN tmudata : tmudata[i] = tmudata[j] => i = j
  /\ \A i \in DOMAIN tmudata : tmudata[i] \notin finalized
  /\ phase # "run" => \A u \in Udatas \ finalized : \E i \in DOMAIN tmudata : tmudata[i] = u
  /\ phase = "closed" => tmudata = <<>>

-----------------------------------------------------------------------------
(* The same for TLC, with the h that the frames themselves determine.      *)

\* The entries of CallInfo up to frame i, from those of the frame above it.
Entries(h, i) ==
  IF i = Len(cstack) \/ cstack[i + 1].k = "resume"
  THEN IF cstack[i].k = "resume" THEN 1 ELSE Len(T[cstack[i].L].ci)
  ELSE CASE cstack[i + 1].k = "exec"             -> cstack[i + 1].base
         [] cstack[i + 1].k = "cfun"             -> h[i + 1] - 1
         [] cstack[i + 1].k \notin {"exec", "cfun"} -> h[i + 1]

Levels[i \in DOMAIN cstack] == Entries(Levels, i)

\* The frames of the C stack, the values they saved and the fields of the
\* threads agree, the depth of calls is bounded and the queue is in order: what
\* every function of ldo.c must keep for the others.
FramesAgree ==
  /\ Good(Now, [i \in DOMAIN cstack |-> Levels[i]], phase)
  /\ Bounded(cstack)
  /\ QueueInv

=============================================================================
