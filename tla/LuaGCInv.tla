------------------------------ MODULE LuaGCInv ------------------------------
(***************************************************************************)
(* The inductive invariant behind the safety of LuaGC: what holds of the   *)
(* colours, the lists and the heap between any two steps of the collector  *)
(* and of the program.  Where LuaGC speaks of everything an object refers  *)
(* to, it speaks of each field of each kind of object.                     *)
(***************************************************************************)
EXTENDS LuaGC

\* If v is an object it has been marked; it is neither freed nor condemned.
Marked(v)  == v \in Objects => mark[v] \in {"gray", "black"}
NotDead(v) == v \in Objects => Live(v)

-----------------------------------------------------------------------------
(* The control state.                                                      *)

\* atomic() runs inside the mark phase, and luaC_fullgc first sweeps, then
\* marks and sweeps.
ControlInv ==
  /\ stage # 0 => gcstate = "propagate"
  /\ full = "mark" => gcstate \in {"propagate", "sweepstring", "sweep"}
  /\ full = "sweep" => gcstate \in {"sweepstring", "sweep", "finalize"}

\* Which colours an object may have depends on its kind: the lists of the
\* collector have room for some kinds only.
ColourInv ==
  /\ \A o \in Threads \cup Strings : mark[o] # "black"
  /\ \A u \in Udatas : mark[u] # "gray"
  /\ \A uv \in UpVals : IF isopen(uv) THEN mark[uv] \notin {"black", "free"}
                                      ELSE mark[uv] # "gray"

\* An open upvalue belongs to an allocated thread and is alone in its slot.
OpenInv ==
  \A uv \in UpVals : isopen(uv) =>
    /\ mark[at[uv][1]] # "free"
    /\ \A x \in UpVals : at[x] = at[uv] => x = uv

\* The sweep: what is ahead of it is allocated and in the root list, and only
\* what is ahead of it is dead or still has the colour of the mark phase.
Ahead(o) == IF o \in UpVals /\ isopen(o) THEN at[o][1] \in unswept ELSE o \in unswept

SweepInv ==
  /\ ~Sweeping => unswept = {}
  /\ gcstate = "sweep" => unswept \cap Strings = {}
  /\ \A o \in unswept : /\ mark[o] # "free" /\ o \notin tmudata
                        /\ o \in UpVals => ~isopen(o)
  /\ \A o \in Objects : isdead(o) => Sweeping /\ Ahead(o)
  /\ Sweeping => \A o \in Objects \ tmudata : mark[o] \in {"gray", "black"} => Ahead(o)

\* The userdata waiting for their finalizers are never swept.
PendingInv ==
  /\ \A u \in tmudata : mark[u] \in {"black", currentwhite}
  /\ tmudata \subseteq finalized
  /\ stage = 4 => \A u \in tmudata : mark[u] = "black"

-----------------------------------------------------------------------------
(* The heap.                                                               *)

\* The roots are live.
RootsInv == \A o \in Roots : Live(o)

\* What a live object refers to is live, kind by kind.
TablesLive ==
  \A t \in Tables : Live(t) =>
    /\ NotDead(metatable[t])
    /\ val[t] # Nil => NotDead(key[t]) /\ NotDead(val[t])
UdatasLive    == \A u \in Udatas : Live(u) => NotDead(metatable[u]) /\ NotDead(env[u])
CClosuresLive == \A c \in CClosures : Live(c) => NotDead(env[c]) /\ NotDead(val[c])
LClosuresLive == \A c \in LClosures : Live(c) => NotDead(env[c]) /\ up[c] \in UpVals /\ Live(up[c])
UpvalsLive    == \A uv \in UpVals : Live(uv) => NotDead(Value(uv))
StacksLive    == \A th \in Threads : Live(th) => \A s \in Slots : NotDead(stack[th][s])

HeapInv == TablesLive /\ UdatasLive /\ CClosuresLive /\ LClosuresLive /\ UpvalsLive /\ StacksLive

-----------------------------------------------------------------------------
(* The mark phase.                                                         *)

\* Between two steps of a mark phase every gray table, closure and thread is in
\* exactly one list, and the lists other than gray hold what their users expect.
ListInv ==
  /\ gray \cap grayagain = {} /\ gray \cap weak = {} /\ grayagain \cap weak = {}
  /\ gray \cup grayagain \cup weak = {o \in Linked : mark[o] = "gray"}
  /\ grayagain \subseteq Tables \cup Threads
  /\ weak \subseteq Tables
  /\ stage >= 3 => grayagain \subseteq Threads

\* markroot has reached the roots; atomic() reaches those that have no barrier.
MarkedInv ==
  /\ Marked(MainThread) /\ Marked(Registry)
  /\ stage >= 2 => Marked(running) /\ Marked(basicmt)

\* What an object that the collector is done with refers to has been reached.
\* Done with: black, or gray and in no list that is traversed again.
TablesTraced ==
  \A t \in Tables : mark[t] = "black" =>
    Marked(metatable[t]) /\ Marked(key[t]) /\ Marked(val[t])
WeakTraced == stage >= 2 => \A t \in weak : Marked(metatable[t])
UdatasTraced ==
  \A u \in Udatas : mark[u] = "black" /\ (u \in tmudata => stage = 4) =>
    Marked(metatable[u]) /\ Marked(env[u])
CClosuresTraced ==
  \A c \in CClosures : mark[c] = "black" => Marked(env[c]) /\ Marked(val[c])
LClosuresTraced ==
  \A c \in LClosures : mark[c] = "black" => Marked(env[c]) /\ Marked(up[c])
UpvalsTraced ==
  \A uv \in UpVals : mark[uv] = "black" \/ (mark[uv] = "gray" /\ stage >= 1) =>
    Marked(Value(uv))
StacksTraced ==
  stage >= 3 => \A th \in Threads : mark[th] = "gray" /\ th \notin gray =>
    \A s \in Slots : Marked(stack[th][s])

TracedInv == /\ TablesTraced /\ WeakTraced /\ UdatasTraced /\ CClosuresTraced
             /\ LClosuresTraced /\ UpvalsTraced /\ StacksTraced

\* All of it holds during a mark phase only.
MarkInv == gcstate = "propagate" => ListInv /\ MarkedInv /\ TracedInv

-----------------------------------------------------------------------------
\* The collector and the program keep all of this together, step by step: it
\* says what each colour, each list and each phase promises of the heap, and
\* every safety property of LuaGC follows from it.
SafetyInv ==
  /\ TypeOK /\ ControlInv /\ ColourInv /\ OpenInv /\ SweepInv /\ PendingInv
  /\ RootsInv /\ HeapInv /\ WhiteAtRest
  /\ MarkInv
=============================================================================
