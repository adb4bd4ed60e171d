-------------------------------- MODULE LuaGC --------------------------------
(***************************************************************************)
(* The incremental tri-colour collector of Lua 5.1.3 (lgc.c), with the     *)
(* mutator operations of lapi.c, lvm.c, lfunc.c, lstring.c, ltable.c and   *)
(* ldo.c that allocate objects, move references or meet a write barrier.   *)
(*                                                                         *)
(* An object is its address: a freed object may be allocated again.  Each  *)
(* table has one node, each closure one upvalue, each thread one stack of  *)
(* Slots; l_gt of a thread is one more slot, and the global table is       *)
(* reached through Registry.  Prototypes are left out (they are traversed  *)
(* as closures are and never change).  The collector's lists are sets:     *)
(* every order of a list the code could have built is explored.            *)
(*                                                                         *)
(* A definition marked "fault" is what a slip in the code would make of    *)
(* the definition below it; no action uses it.                             *)
(***************************************************************************)
EXTENDS Integers, FiniteSets

CONSTANTS
  Tables, Udatas, LClosures, CClosures, UpVals, Coroutines, Strings,
  MainThread,   \* g->mainthread
  Registry,     \* registry(L), a table
  Slots,        \* stack levels of every thread
  WeakKey,      \* metatables whose __mode has a 'k'
  WeakValue,    \* metatables whose __mode has a 'v'
  HasGC,        \* metatables with a __gc field
  MetaTables,   \* the tables the program uses as metatables
  KeySet,       \* the values it uses as keys
  Uses,         \* what else it does: "fullgc" lua_gc(COLLECT), "basicmt"
                \* metatables of basic types
  Plain,        \* a value that is not collectable (number, boolean, ...)
  Nil

Threads     == Coroutines \cup {MainThread}
Closures    == LClosures \cup CClosures
FirstClass  == Tables \cup Udatas \cup Closures \cup Threads \cup Strings
Objects     == FirstClass \cup UpVals
Values      == FirstClass \cup {Plain, Nil}
TableOrNil  == Tables \cup {Nil}

\* Objects of different kinds are different, and none of them is Nil or Plain.
ASSUME KindsAssumption ==
  /\ Registry \in Tables
  /\ Slots \subseteq Int
  /\ WeakKey \subseteq Tables /\ WeakValue \subseteq Tables
  /\ HasGC \subseteq Tables /\ MetaTables \subseteq Tables
  /\ KeySet \subseteq Values \ {Nil}
  /\ Nil # Plain /\ Nil \notin Objects /\ Plain \notin Objects
  /\ Nil \notin Threads \X Slots
  /\ Tables \cap (Udatas \cup Closures \cup Threads \cup Strings) = {}
  /\ Udatas \cap (Closures \cup Threads \cup Strings) = {}
  /\ LClosures \cap CClosures = {}
  /\ Closures \cap (Threads \cup Strings) = {}
  /\ Threads \cap Strings = {}
  /\ MainThread \notin Coroutines
  /\ UpVals \cap FirstClass = {}

VARIABLES
  \* the collector
  mark,         \* the colour bits of gch.marked, "free" when not allocated
  currentwhite, \* g->currentwhite
  gcstate,      \* g->gcstate
  stage,        \* where atomic() is; 0 outside of it
  full,         \* where luaC_fullgc is; "no" outside of it
  gray,         \* g->gray
  grayagain,    \* g->grayagain
  weak,         \* g->weak
  unswept,      \* the objects from g->sweepgc and g->sweepstrgc on
  tmudata,      \* g->tmudata
  finalized,    \* the userdata with FINALIZEDBIT
  \* the objects
  metatable, env,  \* of tables and userdata; of userdata and closures
  key, val,     \* the node of a table; the value of a C closure or an upvalue
  up,           \* the upvalue of a Lua closure
  at,           \* the stack slot an open upvalue points to; Nil: closed
  stack,        \* the stack of each thread
  running,      \* the lua_State that executes
  basicmt       \* g->mt: the metatable of the basic types

control == <<currentwhite, gcstate, stage, full>>
lists   == <<gray, grayagain, weak>>
queues  == <<unswept, tmudata, finalized>>
fields  == <<metatable, env, key, val, up>>
machine == <<at, stack, running, basicmt>>
vars    == <<mark, control, lists, queues, fields, machine>>

Whites   == {"white0", "white1"}
Colours  == {"white0", "white1", "free", "gray", "black"}
GCStates == {"pause", "propagate", "sweepstring", "sweep", "finalize"}
NoStack  == [s \in Slots |-> Nil]

TypeOK ==
  /\ mark \in [Objects -> Colours]
  /\ currentwhite \in Whites
  /\ gcstate \in GCStates
  /\ stage \in 0..4
  /\ full \in {"no", "sweep", "mark"}
  /\ gray \subseteq Objects /\ grayagain \subseteq Objects
  /\ weak \subseteq Objects
  /\ unswept \subseteq Objects
  /\ tmudata \subseteq Udatas /\ finalized \subseteq Udatas
  /\ metatable \in [Tables \cup Udatas -> TableOrNil]
  /\ env \in [Udatas \cup Closures -> TableOrNil]
  /\ key \in [Tables -> Values]
  /\ val \in [Tables \cup CClosures \cup UpVals -> Values]
  /\ up \in [LClosures -> UpVals \cup {Nil}]
  /\ at \in [UpVals -> (Threads \X Slots) \cup {Nil}]
  /\ stack \in [Threads -> [Slots -> Values]]
  /\ running \in Threads
  /\ basicmt \in TableOrNil

-----------------------------------------------------------------------------
(* What an object refers to.                                               *)

otherwhite   == IF currentwhite = "white0" THEN "white1" ELSE "white0"
isdead(o)    == mark[o] = otherwhite
iswhite(o)   == mark[o] \in Whites
Live(o)      == mark[o] \notin {"free", otherwhite}
isopen(uv)   == at[uv] # Nil
OpenUpvals(th) == {uv \in UpVals : isopen(uv) /\ at[uv][1] = th}

\* uv->v
Value(uv) == IF isopen(uv) THEN stack[at[uv][1]][at[uv][2]] ELSE val[uv]

weakkey(t)   == metatable[t] \in WeakKey
weakvalue(t) == metatable[t] \in WeakValue

\* Every object o refers to.  A node whose value is nil keeps its key as an
\* address to compare with, which is not a reference.
Refs(o) == Objects \cap
  IF o \in Tables
    THEN {metatable[o]} \cup (IF val[o] = Nil THEN {} ELSE {key[o], val[o]})
  ELSE IF o \in Udatas    THEN {metatable[o], env[o]}
  ELSE IF o \in CClosures THEN {env[o], val[o]}
  ELSE IF o \in LClosures THEN {env[o], up[o]}
  ELSE IF o \in UpVals    THEN {Value(o)}
  ELSE IF o \in Threads   THEN {stack[o][s] : s \in Slots}
  ELSE {}

\* Those it keeps alive: not what a weak table holds weakly.
Kids(o) ==
  IF o \in Tables
  THEN Objects \cap
         ({metatable[o]} \cup
          (IF val[o] = Nil \/ weakkey(o) THEN {} ELSE {key[o]}) \cup
          (IF weakvalue(o) THEN {} ELSE {val[o]}))
  ELSE Refs(o)

-----------------------------------------------------------------------------
(* Marking.                                                                *)

\* The objects with a gclist field: marking one links it to g->gray.
Linked == Tables \cup Closures \cup Threads

WhiteIn(S) == {o \in S \cap Objects : iswhite(o)}

\* The objects reallymarkobject turns gray or black when it is called for
\* the white objects of S: the value of an upvalue and the metatable and
\* environment of a userdata are marked at once, by recursion.
Reached(S) ==
  LET direct == WhiteIn(S)
      values == direct \cup WhiteIn(UNION {Kids(uv) : uv \in direct \cap UpVals})
  IN  values \cup WhiteIn(UNION {Kids(u) : u \in values \cap Udatas})

\* Userdata and closed upvalues are never gray; strings and open upvalues
\* are never black.
Shade(o) ==
  IF o \in Udatas \/ (o \in UpVals /\ ~isopen(o)) THEN "black" ELSE "gray"

Painted(R) == [o \in Objects |-> IF o \in R THEN Shade(o) ELSE mark[o]]

NotOnlyBlack(o, v) == v \in Objects /\ ~iswhite(o) /\ iswhite(v)  \* fault
NeedsBarrier(o, v) == v \in Objects /\ mark[o] = "black" /\ iswhite(v)

\* luaC_barrier, luaC_objbarrier, and luaC_barrierf: o now refers to v.
luaC_barrier(o, v) ==
  IF NeedsBarrier(o, v)
  THEN IF gcstate = "propagate"
       THEN /\ mark' = Painted(Reached({v}))
            /\ gray' = gray \cup (Reached({v}) \cap Linked)
       ELSE /\ mark' = [mark EXCEPT ![o] = currentwhite]
            /\ UNCHANGED gray
  ELSE UNCHANGED <<mark, gray>>

\* luaC_barriert, luaC_objbarriert and luaC_barrierback: table t now refers
\* to the values of vs.
NoBackBarrier(t, vs) == UNCHANGED <<mark, grayagain>>  \* fault
luaC_barriert(t, vs) ==
  IF \E v \in vs : NeedsBarrier(t, v)
  THEN /\ mark' = [mark EXCEPT ![t] = "gray"]
       /\ grayagain' = grayagain \cup {t}
  ELSE UNCHANGED <<mark, grayagain>>

-----------------------------------------------------------------------------
(* The collector.  Outside of atomic() and luaC_fullgc each of its steps   *)
(* may come between any two operations of the mutator.                     *)

MutatorRuns == stage = 0 /\ full = "no"

\* The list rootgc: open upvalues are in the list of their thread, and the
\* userdata of tmudata in that list.
RootGC == {o \in Objects : /\ mark[o] # "free" /\ o \notin tmudata
                           /\ o \in UpVals => ~isopen(o)}

\* luaC_fullgc, first part: an unfinished mark phase is abandoned and every
\* object is swept back to white; an unfinished sweep is completed.
MarksKept  == "finalize"  \* fault
SweptFirst == "sweepstring"

FullGC ==
  /\ MutatorRuns /\ "fullgc" \in Uses
  /\ full' = "sweep"
  /\ IF gcstate \in {"pause", "propagate"}
     THEN /\ gray' = {} /\ grayagain' = {} /\ weak' = {}
          /\ unswept' = RootGC
          /\ gcstate' = SweptFirst
     ELSE UNCHANGED <<lists, unswept, gcstate>>
  /\ UNCHANGED <<mark, currentwhite, stage, tmudata, finalized, fields, machine>>

\* markroot, from singlestep in GCSpause or from luaC_fullgc after its sweep.
MarkRoot ==
  /\ \/ gcstate = "pause" /\ full = "no"
     \/ gcstate = "finalize" /\ full = "sweep"
  /\ LET R == Reached({MainThread, Registry, basicmt})
     IN  mark' = Painted(R) /\ gray' = R \cap Linked
  /\ grayagain' = {} /\ weak' = {}
  /\ gcstate' = "propagate"
  /\ full' = IF full = "sweep" THEN "mark" ELSE "no"
  /\ UNCHANGED <<currentwhite, stage, queues, fields, machine>>

\* propagatemark of one gray object.  A thread stays gray and will be
\* traversed again; a weak table stays gray and waits in `weak'; the key of
\* an empty node dies, unless both keys and values are weak.
StaysGray(o) == o \in Threads \/ (o \in Tables /\ (weakkey(o) \/ weakvalue(o)))

NoUnlink(o) == gray  \* fault
Unlinked(o) == gray \ {o}
Propagate(o) ==
  /\ gcstate = "propagate"
  /\ o \in gray
  /\ LET R == Reached(Kids(o))
     IN  /\ mark' = [Painted(R) EXCEPT ![o] = IF StaysGray(o) THEN "gray" ELSE "black"]
         /\ gray' = Unlinked(o) \cup (R \cap Linked)
  /\ grayagain' = IF o \in Threads THEN grayagain \cup {o} ELSE grayagain
  /\ weak' = IF o \in Tables /\ StaysGray(o) THEN weak \cup {o} ELSE weak
  /\ key' = IF o \in Tables /\ val[o] = Nil /\ ~(weakkey(o) /\ weakvalue(o))
            THEN [key EXCEPT ![o] = Nil] ELSE key
  /\ UNCHANGED <<control, queues, metatable, env, val, up, machine>>

\* atomic() begins when nothing is gray, and drains g->gray (by Propagate)
\* between its parts.
AtomicPart(n) ==
  gcstate = "propagate" /\ stage = n /\ gray = {} /\ stage' = n + 1

\* First the values of upvalues that were open when they were marked.
RemarkUpvals ==
  /\ AtomicPart(0)
  /\ LET R == Reached({Value(uv) : uv \in {u \in UpVals : isopen(u) /\ mark[u] = "gray"}})
     IN  mark' = Painted(R) /\ gray' = R \cap Linked
  /\ UNCHANGED <<currentwhite, gcstate, full, grayagain, weak, queues, fields, machine>>

\* Weak tables again, with the running thread and the basic metatables.
NoBasicMt == {running}  \* fault
Remarked  == {running, basicmt}

RemarkWeak ==
  /\ AtomicPart(1)
  /\ LET R == Reached(Remarked)
     IN  mark' = Painted(R) /\ gray' = weak \cup (R \cap Linked)
  /\ weak' = {}
  /\ UNCHANGED <<currentwhite, gcstate, full, grayagain, queues, fields, machine>>

\* Threads, and the tables caught by the back barrier.
Forgotten   == {}  \* fault
CaughtAgain == grayagain

RemarkGrayAgain ==
  /\ AtomicPart(2)
  /\ gray' = CaughtAgain
  /\ grayagain' = {}
  /\ UNCHANGED <<mark, currentwhite, gcstate, full, weak, queues, fields, machine>>

\* luaC_separateudata(L, 0) and marktmu: white userdata with a finalizer go
\* to tmudata, and everything they need is preserved.
AllUserdata    == {u \in Udatas : u \notin tmudata \cup finalized}  \* fault
FinalizedAgain == {u \in Udatas : iswhite(u) /\ u \notin tmudata}  \* fault
ToFinalize     == {u \in Udatas : iswhite(u) /\ u \notin tmudata \cup finalized}

SeparateUdata ==
  /\ AtomicPart(3)
  /\ finalized' = finalized \cup ToFinalize
  /\ tmudata' = tmudata \cup {u \in ToFinalize : metatable[u] \in HasGC}
  /\ LET R == tmudata' \cup WhiteIn(UNION {Kids(u) : u \in tmudata'})
     IN  mark' = Painted(R) /\ gray' = R \cap Linked
  /\ UNCHANGED <<currentwhite, gcstate, full, grayagain, weak, unswept, fields, machine>>

\* iscleared: a key or value that its weak table loses.  A string never is;
\* a value that is a userdata being finalized always is.
ClearedIfWhite(v, iskey) == v \in Objects \ Strings /\ iswhite(v)  \* fault
iscleared(v, iskey) ==
  /\ v \in Objects \ Strings
  /\ iswhite(v) \/ (~iskey /\ v \in Udatas \cap finalized)

Cleared(t) == /\ val[t] # Nil
              /\ iscleared(key[t], TRUE) \/ iscleared(val[t], FALSE)

\* The strings iscleared marks.  It does not look at the value of a node whose
\* key is cleared.
KeptStrings(t) ==
  IF val[t] = Nil \/ iscleared(key[t], TRUE) THEN {} ELSE {key[t], val[t]} \cap Strings

\* cleartable, and the switch to the sweep phase.
ClearAndFlip ==
  /\ gcstate = "propagate" /\ stage = 4 /\ gray = {}
  /\ stage' = 0
  /\ mark' = LET kept == WhiteIn(UNION {KeptStrings(t) : t \in weak})
             IN  [o \in Objects |-> IF o \in kept THEN "gray" ELSE mark[o]]
  /\ key' = [t \in Tables |-> IF t \in weak /\ Cleared(t) THEN Nil ELSE key[t]]
  /\ val' = [o \in Tables \cup CClosures \cup UpVals |->
               IF o \in weak /\ Cleared(o) THEN Nil ELSE val[o]]
  /\ currentwhite' = otherwhite
  /\ unswept' = RootGC
  /\ gcstate' = "sweepstring"
  /\ UNCHANGED <<full, lists, tmudata, finalized, metatable, env, up, machine>>

\* sweeplist for one object (GCSWEEPMAX scaled down to 1): it is freed if it
\* is dead and turned white if not, with the open upvalues of a thread.  A
\* freed thread closes the upvalues that survive it (luaE_freethread).
NoUpvals(o)  == {o}  \* fault
SweptWith(o) == {o} \cup (IF o \in Threads THEN OpenUpvals(o) ELSE {})

ClosedBy(o)   == IF isdead(o) /\ o \in Threads
                 THEN {uv \in OpenUpvals(o) : ~isdead(uv)} ELSE {}

Sweep(o) ==
  LET swept == SweptWith(o)
      dead  == {x \in swept : isdead(x)}
  IN  /\ unswept' = unswept \ {o}
      /\ mark' = [x \in Objects |-> IF x \in dead THEN "free"
                                    ELSE IF x \in swept THEN currentwhite
                                    ELSE mark[x]]
      /\ val' = [x \in Tables \cup CClosures \cup UpVals |->
                   IF x \in dead THEN Nil ELSE IF x \in ClosedBy(o) THEN Value(x) ELSE val[x]]
      /\ at' = [uv \in UpVals |-> IF uv \in dead \cup ClosedBy(o) THEN Nil ELSE at[uv]]
      \* the contents of freed memory
      /\ key' = [t \in Tables |-> IF t \in dead THEN Nil ELSE key[t]]
      /\ metatable' = [x \in Tables \cup Udatas |-> IF x \in dead THEN Nil ELSE metatable[x]]
      /\ env' = [x \in Udatas \cup Closures |-> IF x \in dead THEN Nil ELSE env[x]]
      /\ up' = [c \in LClosures |-> IF c \in dead THEN Nil ELSE up[c]]
      /\ stack' = [th \in Threads |-> IF th \in dead THEN NoStack ELSE stack[th]]
      /\ finalized' = finalized \ dead
  /\ UNCHANGED <<currentwhite, stage, lists, tmudata, running, basicmt>>

SweepString(o) ==
  /\ gcstate = "sweepstring"
  /\ o \in unswept \cap Strings
  /\ Sweep(o)
  /\ UNCHANGED <<gcstate, full>>

EndSweepStrings ==
  /\ gcstate = "sweepstring"
  /\ unswept \cap Strings = {}
  /\ gcstate' = "sweep"
  /\ UNCHANGED <<mark, currentwhite, stage, full, lists, queues, fields, machine>>

\* The last object swept ends the phase; luaC_fullgc leaves the calls of the
\* finalizers to the steps that follow.
SweepObject(o) ==
  /\ gcstate = "sweep"
  /\ o \in unswept
  /\ Sweep(o)
  /\ IF unswept = {o}
     THEN gcstate' = "finalize" /\ full' = IF full = "mark" THEN "no" ELSE full
     ELSE UNCHANGED <<gcstate, full>>

\* GCTM: the userdata goes back to the list of all objects and, if its
\* metatable has a __gc field now, is pushed for its finalizer.  What the
\* finalizer does is the mutator's next operations.
KeptMark(u) == mark[u]  \* fault
makewhite(u) == currentwhite

GCTM(u, s) ==
  /\ gcstate = "finalize" /\ MutatorRuns
  /\ u \in tmudata
  /\ tmudata' = tmudata \ {u}
  /\ mark' = [mark EXCEPT ![u] = makewhite(u)]
  /\ IF metatable[u] \in HasGC
     THEN /\ stack[running][s] = Nil
          /\ stack' = [stack EXCEPT ![running][s] = u]
     ELSE UNCHANGED stack
  /\ UNCHANGED <<control, lists, unswept, finalized, fields, at, running, basicmt>>

EndCycle ==
  /\ gcstate = "finalize" /\ MutatorRuns
  /\ tmudata = {}
  /\ gcstate' = "pause"
  /\ UNCHANGED <<mark, currentwhite, stage, full, lists, queues, fields, machine>>

-----------------------------------------------------------------------------
(* The mutator: what the running thread can do through the interpreter and *)
(* the C API.  Its stack slots are also the registers of its functions.    *)

InHand == {stack[running][s] : s \in Slots} \cup {Registry, basicmt}

\* What one more access reads: a field, a metatable, an environment, an
\* upvalue, a slot of another thread.
Readable ==
  LET near == UNION {Refs(o) : o \in InHand \cap Objects}
  IN  (near \cup UNION {Refs(uv) : uv \in near \cap UpVals}) \ UpVals

\* Register s of the running thread takes v.
Put(s, v) == stack' = [stack EXCEPT ![running][s] = v]

\* A register takes a value; nil stands for everything that drops one.
Load(v, s) ==
  /\ MutatorRuns
  /\ v \in Readable \cup InHand \cup {Nil}
  /\ Put(s, v)
  /\ UNCHANGED <<mark, control, lists, queues, fields, at, running, basicmt>>

\* luaC_link: a new object is white and not in any list of the collector.
Allocate(o) ==
  /\ MutatorRuns
  /\ mark[o] = "free"
  /\ mark' = [mark EXCEPT ![o] = currentwhite]
  /\ UNCHANGED <<control, lists, queues, running, basicmt>>

NewTable(t, s) ==
  /\ Allocate(t)
  /\ metatable' = [metatable EXCEPT ![t] = Nil]
  /\ key' = [key EXCEPT ![t] = Nil]
  /\ val' = [val EXCEPT ![t] = Nil]
  /\ Put(s, t)
  /\ UNCHANGED <<env, up, at>>

\* The environment is that of the running function: the global table.
NewUdata(u, s) ==
  /\ Allocate(u)
  /\ metatable' = [metatable EXCEPT ![u] = Nil]
  /\ env' = [env EXCEPT ![u] = Registry]
  /\ Put(s, u)
  /\ UNCHANGED <<key, val, up, at>>

NewCClosure(c, v, s) ==
  /\ Allocate(c)
  /\ v \in InHand
  /\ env' = [env EXCEPT ![c] = Registry]
  /\ val' = [val EXCEPT ![c] = v]
  /\ Put(s, c)
  /\ UNCHANGED <<metatable, key, up, at>>

NewThread(th, s) ==
  /\ Allocate(th)
  /\ stack' = [stack EXCEPT ![th] = NoStack, ![running][s] = th]
  /\ UNCHANGED <<fields, at>>

\* luaS_newlstr: an equal string is shared, and resurrected if it is dead.
NewString(str, s) ==
  /\ MutatorRuns
  /\ mark' = IF mark[str] = "free" \/ isdead(str)
             THEN [mark EXCEPT ![str] = currentwhite] ELSE mark
  /\ Put(s, str)
  /\ UNCHANGED <<control, lists, queues, fields, at, running, basicmt>>

\* luaF_newLclosure with upvalue uv, left in register s.
Closes(c, uv, s) ==
  /\ env' = [env EXCEPT ![c] = Registry]
  /\ up' = [up EXCEPT ![c] = uv]
  /\ Put(s, c)
  /\ UNCHANGED <<metatable, key>>

\* OP_CLOSURE: the new closure shares an upvalue of the running closure p ...
SharedEnv(p)   == env[p]  \* fault
SharedUpval(p) == up[p]

NewLClosureShare(c, p, s) ==
  /\ p \in InHand \cap LClosures
  /\ Allocate(c)
  /\ Closes(c, SharedUpval(p), s)
  /\ UNCHANGED <<val, at>>

\* ... or luaF_findupval finds the open upvalue of slot k, resurrecting it if
\* it is dead ...
Resurrected(uv) == IF isdead(uv) THEN currentwhite ELSE mark[uv]

NewLClosureFind(c, k, uv, s) ==
  /\ at[uv] = <<running, k>>
  /\ MutatorRuns
  /\ mark[c] = "free"
  /\ mark' = [mark EXCEPT ![c] = currentwhite, ![uv] = Resurrected(uv)]
  /\ Closes(c, uv, s)
  /\ UNCHANGED <<control, lists, queues, val, at, running, basicmt>>

\* ... or creates one.
NotSearched(k) == TRUE  \* fault
NoneOpenAt(k)  == \A uv \in UpVals : at[uv] # <<running, k>>

NewLClosureOpen(c, k, uv, s) ==
  /\ MutatorRuns
  /\ mark[c] = "free" /\ mark[uv] = "free"
  /\ NoneOpenAt(k)
  /\ mark' = [mark EXCEPT ![c] = currentwhite, ![uv] = currentwhite]
  /\ at' = [at EXCEPT ![uv] = <<running, k>>]
  /\ Closes(c, uv, s)
  /\ UNCHANGED <<control, lists, queues, val, running, basicmt>>

\* f_parser: the closure of a loaded chunk has a fresh closed upvalue.
NewLClosureLoad(c, uv, s) ==
  /\ MutatorRuns
  /\ mark[c] = "free" /\ mark[uv] = "free"
  /\ mark' = [mark EXCEPT ![c] = currentwhite, ![uv] = currentwhite]
  /\ val' = [val EXCEPT ![uv] = Nil]
  /\ Closes(c, uv, s)
  /\ UNCHANGED <<control, lists, queues, at, running, basicmt>>

\* luaV_settable, lua_rawset, lua_rawseti, OP_SETLIST.  luaH_set finds the
\* node of the key, where only the value meets a barrier, or takes the empty
\* node for a new key.
SetTable(t, k, v) ==
  /\ MutatorRuns
  /\ t \in InHand \cap Tables
  /\ k \in InHand \cup {Plain}
  /\ v \in InHand \cup {Plain, Nil}
  /\ key[t] = k \/ (val[t] = Nil /\ v # Nil)
  /\ key' = [key EXCEPT ![t] = k]
  /\ val' = [val EXCEPT ![t] = v]
  /\ luaC_barriert(t, IF key[t] = k THEN {v} ELSE {k, v})
  /\ UNCHANGED <<control, gray, weak, queues, metatable, env, up, machine>>

\* lua_setmetatable: a back barrier for a table, a forward one for a userdata.
SetMetatable(o, m) ==
  /\ MutatorRuns
  /\ o \in InHand
  /\ m \in InHand \cup {Nil}
  /\ metatable' = [metatable EXCEPT ![o] = m]
  /\ IF o \in Tables THEN luaC_barriert(o, {m}) /\ UNCHANGED gray
                     ELSE luaC_barrier(o, m) /\ UNCHANGED grayagain
  /\ UNCHANGED <<control, weak, queues, env, key, val, up, machine>>

\* lua_setmetatable of a basic type: no barrier, atomic() marks it again.
SetBasicMt(m) ==
  /\ MutatorRuns /\ "basicmt" \in Uses
  /\ m \in InHand \cup {Nil}
  /\ basicmt' = m
  /\ UNCHANGED <<mark, control, lists, queues, fields, at, stack, running>>

\* lua_setfenv of a userdata or a function.
SetEnv(o, t) ==
  /\ MutatorRuns
  /\ o \in InHand /\ t \in InHand
  /\ env' = [env EXCEPT ![o] = t]
  /\ luaC_barrier(o, t)
  /\ UNCHANGED <<control, grayagain, weak, queues, metatable, key, val, up, machine>>

\* The upvalue of a C closure (lua_replace, lua_setupvalue), with a barrier on
\* the closure; a closed upvalue of a Lua closure (OP_SETUPVAL), with a barrier
\* on the upvalue, which other closures may share.
SetVal(o, v) ==
  /\ MutatorRuns
  /\ v \in InHand
  /\ val' = [val EXCEPT ![o] = v]
  /\ luaC_barrier(o, v)
  /\ UNCHANGED <<control, grayagain, weak, queues, metatable, env, key, up, machine>>

SetCUpvalue(c, v) == c \in InHand /\ SetVal(c, v)

SetUpvalue(c, v) == c \in InHand /\ ~isopen(up[c]) /\ SetVal(up[c], v)

\* OP_SETUPVAL through an open upvalue writes the stack slot, of any thread.
SetOpenUpvalue(c, v) ==
  /\ MutatorRuns
  /\ c \in InHand /\ isopen(up[c])
  /\ v \in InHand
  /\ stack' = [stack EXCEPT ![at[up[c]][1]][at[up[c]][2]] = v]
  /\ UNCHANGED <<mark, control, lists, queues, fields, at, running, basicmt>>

\* luaF_close: the open upvalues from a level up are freed if dead, closed and
\* linked to the root list if not; luaC_linkupval blackens a gray one during a
\* mark phase, marking its value, and sweeps it otherwise.
ClosedUnmarked(caught) == {}  \* fault
ClosedMarked(caught)   ==
  IF gcstate = "propagate" THEN Reached({Value(uv) : uv \in caught}) ELSE {}

CloseUpvals(level) ==
  LET open   == {uv \in OpenUpvals(running) : at[uv][2] >= level}
      gone   == {uv \in open : isdead(uv)}
      caught == {uv \in open : mark[uv] = "gray"}
      R      == ClosedMarked(caught)
  IN  /\ MutatorRuns
      /\ open # {}
      /\ mark' = [o \in Objects |->
                    IF o \in gone THEN "free"
                    ELSE IF o \in caught
                    THEN IF gcstate = "propagate" THEN "black" ELSE currentwhite
                    ELSE IF o \in R THEN Shade(o) ELSE mark[o]]
      /\ gray' = gray \cup (R \cap Linked)
      /\ val' = [o \in Tables \cup CClosures \cup UpVals |->
                   IF o \in gone THEN Nil ELSE IF o \in open THEN Value(o) ELSE val[o]]
      /\ at' = [uv \in UpVals |-> IF uv \in open THEN Nil ELSE at[uv]]
      /\ UNCHANGED <<control, grayagain, weak, queues, metatable, env, key, up,
                     stack, running, basicmt>>

\* lua_xmove, and lua_setfenv of a thread: no barrier, threads are never black.
XMove(s, th, k) ==
  /\ MutatorRuns
  /\ th \in InHand
  /\ th # running
  /\ stack' = [stack EXCEPT ![th][k] = stack[running][s], ![running][s] = Nil]
  /\ UNCHANGED <<mark, control, lists, queues, fields, at, running, basicmt>>

\* lua_resume from the main thread, which may already have popped the
\* coroutine (nothing but its running keeps it alive then); lua_yield.
Resume(th, s, drop) ==
  /\ MutatorRuns
  /\ running = MainThread
  /\ stack[MainThread][s] = th
  /\ running' = th
  /\ stack' = IF drop THEN [stack EXCEPT ![MainThread][s] = Nil] ELSE stack
  /\ UNCHANGED <<mark, control, lists, queues, fields, at, basicmt>>

Yield ==
  /\ MutatorRuns
  /\ running # MainThread
  /\ running' = MainThread
  /\ UNCHANGED <<mark, control, lists, queues, fields, at, stack, basicmt>>

-----------------------------------------------------------------------------
\* After f_luaopen: the main thread and the registry, in GCSpause.
Init ==
  /\ mark = [o \in Objects |-> IF o \in {MainThread, Registry} THEN "white0" ELSE "free"]
  /\ currentwhite = "white0"
  /\ gcstate = "pause" /\ stage = 0 /\ full = "no"
  /\ gray = {} /\ grayagain = {} /\ weak = {}
  /\ unswept = {} /\ tmudata = {} /\ finalized = {}
  /\ metatable = [o \in Tables \cup Udatas |-> Nil]
  /\ env = [o \in Udatas \cup Closures |-> Nil]
  /\ key = [t \in Tables |-> Nil]
  /\ val = [o \in Tables \cup CClosures \cup UpVals |-> Nil]
  /\ up = [c \in LClosures |-> Nil]
  /\ at = [uv \in UpVals |-> Nil]
  /\ stack = [th \in Threads |-> NoStack]
  /\ running = MainThread
  /\ basicmt = Nil

\* The cases of singlestep; luaC_fullgc loops over it.
singlestep ==
  \/ MarkRoot
  \/ \E o \in Linked : Propagate(o)
  \/ RemarkUpvals
  \/ RemarkWeak
  \/ RemarkGrayAgain
  \/ SeparateUdata
  \/ ClearAndFlip
  \/ \E o \in Strings : SweepString(o)
  \/ EndSweepStrings
  \/ \E o \in Objects : SweepObject(o)
  \/ \E u \in Udatas, s \in Slots : GCTM(u, s)
  \/ EndCycle

Mutator ==
  \/ \E v \in Values, s \in Slots : Load(v, s)
  \/ \E t \in Tables, s \in Slots : NewTable(t, s)
  \/ \E u \in Udatas, s \in Slots : NewUdata(u, s)
  \/ \E c \in CClosures, v \in Values, s \in Slots : NewCClosure(c, v, s)
  \/ \E th \in Coroutines, s \in Slots : NewThread(th, s)
  \/ \E str \in Strings, s \in Slots : NewString(str, s)
  \/ \E c, p \in LClosures, s \in Slots : NewLClosureShare(c, p, s)
  \/ \E c \in LClosures, k \in Slots, uv \in UpVals, s \in Slots : NewLClosureFind(c, k, uv, s)
  \/ \E c \in LClosures, k \in Slots, uv \in UpVals, s \in Slots : NewLClosureOpen(c, k, uv, s)
  \/ \E c \in LClosures, uv \in UpVals, s \in Slots : NewLClosureLoad(c, uv, s)
  \/ \E t \in Tables, k \in KeySet, v \in Values : SetTable(t, k, v)
  \/ \E o \in Tables \cup Udatas, m \in MetaTables \cup {Nil} : SetMetatable(o, m)
  \/ \E m \in MetaTables \cup {Nil} : SetBasicMt(m)
  \/ \E o \in Udatas \cup Closures, t \in Tables : SetEnv(o, t)
  \/ \E c \in CClosures, v \in Values : SetCUpvalue(c, v)
  \/ \E c \in LClosures, v \in Values : SetUpvalue(c, v)
  \/ \E c \in LClosures, v \in Values : SetOpenUpvalue(c, v)
  \/ \E level \in Slots : CloseUpvals(level)
  \/ \E th \in Threads, s, k \in Slots : XMove(s, th, k)
  \/ \E th \in Coroutines, s \in Slots, drop \in BOOLEAN : Resume(th, s, drop)
  \/ Yield

Next == singlestep \/ FullGC \/ Mutator
Spec == Init /\ [][Next]_vars

\* The loops of luaC_fullgc do not stop before they are done.
FairSpec == Spec /\ WF_vars(singlestep)

-----------------------------------------------------------------------------
(* Safety.                                                                 *)

Sweeping == gcstate \in {"sweepstring", "sweep"}

\* The objects the collector itself starts from, and the preserved userdata.
Roots == {MainThread, Registry, running} \cup ({basicmt} \cap Objects) \cup tmudata

\* Nothing the program can reach is ever freed or condemned: the roots are
\* live and a live object (allocated, and not left white by the last complete
\* mark phase) refers to live objects only, however the mutator's operations
\* fall between the steps of the mark and sweep phases.
NoDangling ==
  /\ \A o \in Roots : Live(o)
  /\ \A o \in Objects : Live(o) => \A x \in Refs(o) : Live(x)

\* The invariant the barriers keep between two steps of a mark phase ("must
\* keep invariant?", lgc.c:667): no black object refers to a white one.  A
\* userdata left in tmudata by the previous cycle is the exception marktmu
\* mends.
TriColour ==
  gcstate = "propagate" =>
    \A o \in Objects \ tmudata : mark[o] = "black" => \A x \in Refs(o) : ~iswhite(x)

\* One gclist field: during a mark phase a gray table, closure or thread is
\* in exactly one of the lists gray, grayagain and weak.  No list is broken by
\* the link of another, and no gray object is forgotten.
OneList ==
  gcstate = "propagate" =>
    /\ gray \cap grayagain = {} /\ gray \cap weak = {} /\ grayagain \cap weak = {}
    /\ gray \cup grayagain \cup weak = {o \in Linked : mark[o] = "gray"}

\* No object keeps a colour from one cycle to the next: outside the mark and
\* sweep phases everything but the pending userdata is of the current white.
WhiteAtRest ==
  gcstate \in {"pause", "finalize"} =>
    \A o \in Objects \ tmudata : mark[o] \in {"free", currentwhite}

\* Condemned objects exist only during a sweep and only ahead of it, or in the
\* list of open upvalues of a thread ahead of it: none escapes to the next
\* cycle, where its white would be the current one again.
DeadAhead ==
  \A o \in Objects : isdead(o) =>
    /\ Sweeping
    /\ IF o \in UpVals /\ isopen(o) THEN at[o][1] \in unswept ELSE o \in unswept

\* An open upvalue points into the stack of a thread that is still allocated,
\* is gray or white, and shares its slot with no other.
OpenUpvalsInPlace ==
  \A uv \in UpVals : isopen(uv) =>
    /\ mark[at[uv][1]] # "free"
    /\ mark[uv] \in Whites \cup {"gray"}
    /\ \A x \in UpVals : at[x] = at[uv] => x = uv

\* A userdata waiting for its finalizer has left the weak values of every
\* table when the mark phase ends ("keep them in keys, but not in values",
\* lgc.c:335): the program does not find it there before it is finalized.
WeakValuesGone ==
  [][~Sweeping /\ Sweeping' /\ full' # "sweep" =>
       (\A t \in Tables : Live(t) /\ weakvalue(t) => val[t] \notin tmudata)']_vars

-----------------------------------------------------------------------------
(* Liveness.                                                               *)

\* luaC_fullgc returns, from every state of the collector it is called in.
FullGCReturns == full # "no" ~> full = "no"

-----------------------------------------------------------------------------
(* What the repository says of this code and the code does not do.         *)

\* lua_setupvalue of a Lua closure (debug.setupvalue): the barrier is on the
\* closure, not on the upvalue that takes the value.
lua_setupvalue(c, v) ==
  /\ MutatorRuns
  /\ c \in InHand /\ ~isopen(up[c])
  /\ v \in InHand
  /\ val' = [val EXCEPT ![up[c]] = v]
  /\ luaC_barrier(c, v)
  /\ UNCHANGED <<control, grayagain, weak, queues, metatable, env, key, up, machine>>

NextDebug == Next \/ \E c \in LClosures, v \in Values : lua_setupvalue(c, v)
SpecDebug == Init /\ [][NextDebug]_vars
=============================================================================
