------------------------- MODULE LuaGCMutatorProofs -------------------------
(***************************************************************************)
(* Type correctness of LuaGC, for every value of its constants, and the    *)
(* facts about marking that the proofs of memory safety use as well. Then  *)
(* the operations of the program keep the invariant of LuaGCInv. They are  *)
(* of four forms, and each form has a lemma of its own: a write to a stack *)
(* (StackStep), an allocation (Store), a reference written through a       *)
(* forward barrier (ForwardStep) and one through a back barrier            *)
(* (BackStep). luaF_close is none of these.                                *)
(***************************************************************************)
EXTENDS LuaGCInv, TLAPS

-----------------------------------------------------------------------------
(* What the helpers return.                                                *)

\* The two whites are the only ones, and each is the other of the other.
LEMMA OtherWhiteType ==
  currentwhite \in Whites => otherwhite \in Whites /\ otherwhite # currentwhite
BY DEF otherwhite, Whites

\* Painting a set of objects leaves every object with a colour.
LEMMA PaintedType ==
  ASSUME NEW R, mark \in [Objects -> Colours]
  PROVE  Painted(R) \in [Objects -> Colours]
BY DEF Painted, Shade, Colours

\* What the mutator has in hand are first-class values.
LEMMA InHandValues == TypeOK => InHand \subseteq Values
BY KindsAssumption DEF TypeOK, InHand, Values, FirstClass, TableOrNil

\* The value of an upvalue, open or closed, is a first-class value.
LEMMA ValueType == TypeOK => \A uv \in UpVals : Value(uv) \in Values
BY DEF TypeOK, Value, isopen

\* luaC_barrier leaves the colours and the gray list well typed.
LEMMA BarrierType ==
  ASSUME TypeOK, NEW o, NEW v, luaC_barrier(o, v)
  PROVE  mark' \in [Objects -> Colours] /\ gray' \subseteq Objects
BY PaintedType DEF TypeOK, luaC_barrier, Linked, Objects, FirstClass, Colours, Whites

\* luaC_barriert leaves the colours and the grayagain list well typed.
LEMMA BarriertType ==
  ASSUME TypeOK, NEW t \in Tables, NEW vs, luaC_barriert(t, vs)
  PROVE  mark' \in [Objects -> Colours] /\ grayagain' \subseteq Objects
BY DEF TypeOK, luaC_barriert, Objects, FirstClass, Colours

-----------------------------------------------------------------------------
(* The steps with more than one case.                                      *)

\* cleartable and the flip keep the types.
LEMMA ClearAndFlipType == TypeOK /\ ClearAndFlip => TypeOK'
<1> SUFFICES ASSUME TypeOK, ClearAndFlip PROVE TypeOK'
  OBVIOUS
<1> USE DEF TypeOK, control, lists, queues, fields, machine
<1>1. mark' \in [Objects -> Colours]
  <2> DEFINE kept == WhiteIn(UNION {KeptStrings(t) : t \in weak})
  <2>1. mark' = [o \in Objects |-> IF o \in kept THEN "gray" ELSE mark[o]]
    BY DEF ClearAndFlip
  <2> HIDE DEF kept
  <2> QED BY <2>1 DEF Colours
<1>2. /\ key' \in [Tables -> Values]
      /\ val' \in [Tables \cup CClosures \cup UpVals -> Values]
  BY DEF ClearAndFlip, Values
<1>3. currentwhite' \in Whites /\ gcstate' \in GCStates /\ stage' \in 0..4
  BY OtherWhiteType DEF ClearAndFlip, GCStates
<1>4. unswept' \subseteq Objects
  BY DEF ClearAndFlip, RootGC
<1> QED BY <1>1, <1>2, <1>3, <1>4 DEF ClearAndFlip

\* The sweep of one object keeps the types.
LEMMA SweepType ==
  ASSUME TypeOK, NEW o \in Objects, Sweep(o), gcstate' \in GCStates,
         full' \in {"no", "sweep", "mark"}
  PROVE  TypeOK'
<1> USE DEF TypeOK, Sweep, lists
<1>1. mark' \in [Objects -> Colours]
  BY DEF Colours, Whites
<1>2. val' \in [Tables \cup CClosures \cup UpVals -> Values]
  BY ValueType DEF Values, ClosedBy, OpenUpvals
<1>3. key' \in [Tables -> Values] /\ metatable' \in [Tables \cup Udatas -> TableOrNil]
  BY DEF Values, TableOrNil
<1>4. /\ env' \in [Udatas \cup Closures -> TableOrNil]
      /\ up' \in [LClosures -> UpVals \cup {Nil}]
  BY DEF Values, TableOrNil
<1>5. /\ at' \in [UpVals -> (Threads \X Slots) \cup {Nil}]
      /\ stack' \in [Threads -> [Slots -> Values]]
  BY DEF Values, NoStack
<1> QED BY <1>1, <1>2, <1>3, <1>4, <1>5

\* luaF_close keeps the types.
LEMMA CloseUpvalsType ==
  ASSUME TypeOK, NEW level \in Slots, CloseUpvals(level)
  PROVE  TypeOK'
<1> USE DEF TypeOK, CloseUpvals, control, queues
<1>1. mark' \in [Objects -> Colours]
  BY DEF Colours, Whites, Shade
<1>2. gray' \subseteq Objects
  BY DEF Linked, Objects, FirstClass
<1>3. val' \in [Tables \cup CClosures \cup UpVals -> Values]
  BY ValueType DEF Values, OpenUpvals
<1>4. at' \in [UpVals -> (Threads \X Slots) \cup {Nil}]
  OBVIOUS
<1> QED BY <1>1, <1>2, <1>3, <1>4

-----------------------------------------------------------------------------
(* Every step.                                                             *)

LEMMA InitType == Init => TypeOK
BY KindsAssumption DEF Init, TypeOK, NoStack, Whites, Colours, GCStates,
   Objects, FirstClass, Values, TableOrNil, Threads

LEMMA CollectorType == TypeOK /\ (singlestep \/ FullGC) => TypeOK'
<1> SUFFICES ASSUME TypeOK, singlestep \/ FullGC PROVE TypeOK'
  OBVIOUS
<1> USE KindsAssumption, PaintedType DEF control, lists, queues, fields, machine,
        GCStates, Linked, Objects, FirstClass
<1>1. CASE MarkRoot
  BY <1>1 DEF TypeOK, MarkRoot
<1>2. ASSUME NEW o \in Linked, Propagate(o) PROVE TypeOK'
  BY <1>2 DEF TypeOK, Propagate, Unlinked, Colours, Values
<1>3. CASE RemarkUpvals
  BY <1>3 DEF TypeOK, RemarkUpvals, AtomicPart
<1>4. CASE RemarkWeak
  BY <1>4 DEF TypeOK, RemarkWeak, AtomicPart
<1>5. CASE RemarkGrayAgain
  BY <1>5 DEF TypeOK, RemarkGrayAgain, AtomicPart, CaughtAgain
<1>6. CASE SeparateUdata
  BY <1>6 DEF TypeOK, SeparateUdata, AtomicPart, ToFinalize
<1>7. CASE ClearAndFlip
  BY <1>7, ClearAndFlipType
<1>8. ASSUME NEW o \in Strings, SweepString(o) PROVE TypeOK'
  BY <1>8, SweepType DEF SweepString, TypeOK
<1>9. CASE EndSweepStrings
  BY <1>9 DEF TypeOK, EndSweepStrings
<1>10. ASSUME NEW o \in Objects, SweepObject(o) PROVE TypeOK'
  BY <1>10, SweepType DEF SweepObject, TypeOK
<1>11. ASSUME NEW u \in Udatas, NEW s \in Slots, GCTM(u, s) PROVE TypeOK'
  BY <1>11 DEF TypeOK, GCTM, makewhite, Colours, Whites, Values
<1>12. CASE EndCycle
  BY <1>12 DEF TypeOK, EndCycle
<1>13. CASE FullGC
  BY <1>13 DEF TypeOK, FullGC, SweptFirst, RootGC
<1> QED BY <1>1, <1>2, <1>3, <1>4, <1>5, <1>6, <1>7, <1>8, <1>9, <1>10, <1>11, <1>12, <1>13 DEF singlestep

LEMMA MutatorType == TypeOK /\ Mutator => TypeOK'
<1> SUFFICES ASSUME TypeOK, Mutator PROVE TypeOK'
  OBVIOUS
<1> USE KindsAssumption, InHandValues DEF control, lists, queues, fields, machine,
        Objects, FirstClass, Values, TableOrNil, Threads, Closures
<1>1. ASSUME NEW v \in Values, NEW s \in Slots, Load(v, s) PROVE TypeOK'
  BY <1>1 DEF TypeOK, Load, Put
<1>2. ASSUME NEW t \in Tables, NEW s \in Slots, NewTable(t, s) PROVE TypeOK'
  BY <1>2 DEF TypeOK, NewTable, Put, Allocate, Colours, Whites
<1>3. ASSUME NEW u \in Udatas, NEW s \in Slots, NewUdata(u, s) PROVE TypeOK'
  BY <1>3 DEF TypeOK, NewUdata, Put, Allocate, Colours, Whites
<1>4. ASSUME NEW c \in CClosures, NEW v \in Values, NEW s \in Slots, NewCClosure(c, v, s) PROVE TypeOK'
  BY <1>4 DEF TypeOK, NewCClosure, Put, Allocate, Colours, Whites
<1>5. ASSUME NEW th \in Coroutines, NEW s \in Slots, NewThread(th, s) PROVE TypeOK'
  BY <1>5 DEF TypeOK, NewThread, Put, Allocate, NoStack, Colours, Whites
<1>6. ASSUME NEW str \in Strings, NEW s \in Slots, NewString(str, s) PROVE TypeOK'
  BY <1>6 DEF TypeOK, NewString, Put, Colours, Whites
<1>7. ASSUME NEW c \in LClosures, NEW p \in LClosures, NEW s \in Slots, NewLClosureShare(c, p, s) PROVE TypeOK'
  BY <1>7 DEF TypeOK, NewLClosureShare, Put, Allocate, Closes, SharedUpval, Colours, Whites
<1>8. ASSUME NEW c \in LClosures, NEW k \in Slots, NEW uv \in UpVals, NEW s \in Slots, NewLClosureFind(c, k, uv, s) PROVE TypeOK'
  BY <1>8 DEF TypeOK, NewLClosureFind, Put, Closes, Resurrected, Colours, Whites
<1>9. ASSUME NEW c \in LClosures, NEW k \in Slots, NEW uv \in UpVals, NEW s \in Slots, NewLClosureOpen(c, k, uv, s) PROVE TypeOK'
  BY <1>9 DEF TypeOK, NewLClosureOpen, Put, Closes, Colours, Whites
<1>10. ASSUME NEW c \in LClosures, NEW uv \in UpVals, NEW s \in Slots, NewLClosureLoad(c, uv, s) PROVE TypeOK'
  BY <1>10 DEF TypeOK, NewLClosureLoad, Put, Closes, Colours, Whites
<1>11. ASSUME NEW t \in Tables, NEW k \in KeySet, NEW v \in Values, SetTable(t, k, v) PROVE TypeOK'
  BY <1>11, BarrierType, BarriertType DEF TypeOK, SetTable
<1>12. ASSUME NEW o \in Tables \cup Udatas, NEW m \in MetaTables \cup {Nil}, SetMetatable(o, m) PROVE TypeOK'
  BY <1>12, BarrierType, BarriertType DEF TypeOK, SetMetatable
<1>13. ASSUME NEW m \in MetaTables \cup {Nil}, SetBasicMt(m) PROVE TypeOK'
  BY <1>13 DEF TypeOK, SetBasicMt
<1>14. ASSUME NEW o \in Udatas \cup Closures, NEW t \in Tables, SetEnv(o, t) PROVE TypeOK'
  BY <1>14, BarrierType, BarriertType DEF TypeOK, SetEnv
<1>15. ASSUME NEW c \in CClosures, NEW v \in Values, SetCUpvalue(c, v) PROVE TypeOK'
  BY <1>15, BarrierType, BarriertType DEF TypeOK, SetCUpvalue, SetVal
<1>16. ASSUME NEW c \in LClosures, NEW v \in Values, SetUpvalue(c, v) PROVE TypeOK'
  BY <1>16, BarrierType, BarriertType DEF TypeOK, SetUpvalue, SetVal
<1>17. ASSUME NEW c \in LClosures, NEW v \in Values, SetOpenUpvalue(c, v) PROVE TypeOK'
  BY <1>17 DEF TypeOK, SetOpenUpvalue
<1>18. ASSUME NEW level \in Slots, CloseUpvals(level) PROVE TypeOK'
  BY <1>18, CloseUpvalsType
<1>19. ASSUME NEW th \in Threads, NEW s \in Slots, NEW k \in Slots, XMove(s, th, k) PROVE TypeOK'
  BY <1>19 DEF TypeOK, XMove
<1>20. ASSUME NEW th \in Coroutines, NEW s \in Slots, NEW drop \in BOOLEAN, Resume(th, s, drop) PROVE TypeOK'
  BY <1>20 DEF TypeOK, Resume
<1>21. CASE Yield
  BY <1>21 DEF TypeOK, Yield
<1> QED BY <1>1, <1>2, <1>3, <1>4, <1>5, <1>6, <1>7, <1>8, <1>9, <1>10, <1>11, <1>12, <1>13, <1>14, <1>15, <1>16, <1>17, <1>18, <1>19, <1>20, <1>21 DEF Mutator

\* Type correctness: every reference the collector and the mutator store is
\* of the kind the code's unions and casts take it for (a metatable is a table,
\* the upvalue of a Lua closure an UpVal, tmudata holds userdata, ...).
THEOREM TypeCorrect == Spec => []TypeOK
<1>1. TypeOK /\ [Next]_vars => TypeOK'
  <2> SUFFICES ASSUME TypeOK, [Next]_vars PROVE TypeOK'
    OBVIOUS
  <2>1. CASE singlestep \/ FullGC
    BY <2>1, CollectorType
  <2>2. CASE Mutator
    BY <2>2, MutatorType
  <2>3. CASE UNCHANGED vars
    BY <2>3 DEF TypeOK, vars, control, lists, queues, fields, machine
  <2> QED BY <2>1, <2>2, <2>3 DEF Next
<1> QED BY InitType, <1>1, PTL DEF Spec

-----------------------------------------------------------------------------
(* Kinds of objects, and what the program can get hold of.                 *)

\* Every kind of object is a kind of object.
LEMMA Kinds ==
  /\ \A o \in Tables : o \in Objects
  /\ \A o \in Udatas : o \in Objects
  /\ \A o \in LClosures : o \in Objects
  /\ \A o \in CClosures : o \in Objects
  /\ \A o \in UpVals : o \in Objects
  /\ \A o \in Threads : o \in Objects
  /\ \A o \in Strings : o \in Objects
BY DEF Objects, FirstClass, Closures

\* No object is of two kinds.
LEMMA KindsApart ==
  /\ \A o \in Tables : /\ o \notin Udatas /\ o \notin LClosures /\ o \notin CClosures
                       /\ o \notin UpVals /\ o \notin Threads /\ o \notin Strings
  /\ \A o \in Udatas : /\ o \notin LClosures /\ o \notin CClosures
                       /\ o \notin UpVals /\ o \notin Threads /\ o \notin Strings
  /\ \A o \in LClosures : /\ o \notin CClosures /\ o \notin UpVals
                          /\ o \notin Threads /\ o \notin Strings
  /\ \A o \in CClosures : o \notin UpVals /\ o \notin Threads /\ o \notin Strings
  /\ \A o \in UpVals : o \notin Threads /\ o \notin Strings
  /\ \A o \in Threads : o \notin Strings
BY KindsAssumption DEF Closures, FirstClass

\* The roots the mutator works with are live.
LEMMA RegistryLive == SafetyInv => Live(Registry) /\ Live(running) /\ NotDead(basicmt)
BY DEF SafetyInv, RootsInv, Roots, NotDead

\* What a live object refers to is live, whatever its kind.
LEMMA LiveRefs ==
  ASSUME SafetyInv, NEW o \in Objects, Live(o)
  PROVE  \A x \in Refs(o) : x \in Objects /\ Live(x)
<1>0. HeapInv
  BY DEF SafetyInv
<1>1. CASE o \in Tables
  BY <1>0, <1>1 DEF HeapInv, TablesLive, NotDead, Refs
<1>2. CASE o \in Udatas
  BY <1>0, <1>2, KindsAssumption DEF HeapInv, UdatasLive, NotDead, Refs
<1>3. CASE o \in CClosures
  BY <1>0, <1>3, KindsAssumption DEF HeapInv, CClosuresLive, NotDead, Refs, Closures
<1>4. CASE o \in LClosures
  BY <1>0, <1>4, KindsAssumption DEF HeapInv, LClosuresLive, NotDead, Refs, Closures
<1>5. CASE o \in UpVals
  BY <1>0, <1>5, KindsAssumption DEF HeapInv, UpvalsLive, NotDead, Refs, Closures, FirstClass
<1>6. CASE o \in Threads
  BY <1>0, <1>6, KindsAssumption DEF HeapInv, StacksLive, NotDead, Refs, Closures, FirstClass
<1>7. CASE o \in Strings
  BY <1>7, KindsAssumption DEF Refs, Closures, FirstClass
<1> QED BY <1>1, <1>2, <1>3, <1>4, <1>5, <1>6, <1>7 DEF Objects, FirstClass, Closures

\* What the running thread holds, the registry and the metatables are live.
LEMMA InHandLive == SafetyInv => \A v \in InHand : NotDead(v)
<1> SUFFICES ASSUME SafetyInv PROVE \A v \in InHand : NotDead(v)
  OBVIOUS
<1>1. Live(running) /\ running \in Threads /\ NotDead(Registry) /\ NotDead(basicmt)
  BY RegistryLive DEF NotDead, SafetyInv, TypeOK
<1>2. \A s \in Slots : NotDead(stack[running][s])
  BY <1>1 DEF SafetyInv, HeapInv, StacksLive
<1> QED BY <1>1, <1>2 DEF InHand

\* What it can read by one more access is live.
LEMMA ReadableLive == SafetyInv => \A v \in Readable : NotDead(v)
<1> SUFFICES ASSUME SafetyInv PROVE \A v \in Readable : NotDead(v)
  OBVIOUS
<1> DEFINE near == UNION {Refs(o) : o \in InHand \cap Objects}
<1>1. \A v \in near : v \in Objects /\ Live(v)
  BY InHandLive, LiveRefs DEF NotDead
<1>2. \A v \in UNION {Refs(uv) : uv \in near \cap UpVals} : v \in Objects /\ Live(v)
  BY <1>1, LiveRefs
<1> QED BY <1>1, <1>2 DEF Readable, NotDead

-----------------------------------------------------------------------------
(* Allocation.                                                             *)

\* A step that leaves the fields of every object outside F as they are ...
SameOutside(F) ==
  /\ \A o \in (Tables \cup Udatas) \ F : metatable'[o] = metatable[o]
  /\ \A o \in (Udatas \cup Closures) \ F : env'[o] = env[o]
  /\ \A t \in Tables \ F : key'[t] = key[t]
  /\ \A o \in (Tables \cup CClosures \cup UpVals) \ F : val'[o] = val[o]
  /\ \A c \in LClosures \ F : up'[c] = up[c]
  /\ \A uv \in UpVals \ F : at'[uv] = at[uv]

\* ... gives the objects of F fields that refer to nothing dead ...
SoundFresh(F) ==
  /\ \A t \in Tables \cap F : metatable'[t] = Nil /\ key'[t] = Nil /\ val'[t] = Nil
  /\ \A u \in Udatas \cap F : metatable'[u] = Nil /\ env'[u] = Registry
  /\ \A c \in CClosures \cap F : env'[c] = Registry /\ NotDead(val[c])'
  /\ \A c \in LClosures \cap F : env'[c] = Registry /\ up'[c] \in UpVals /\ Live(up[c])'

\* ... and makes F, which held free or condemned objects, white.  Stacks may
\* change too, to hold nothing dead: what any allocation does.
StoreStep(F) ==
  /\ MutatorRuns
  /\ F \subseteq {o \in Objects : ~Live(o)}
  /\ mark' = [o \in Objects |-> IF o \in F THEN currentwhite ELSE mark[o]]
  /\ UNCHANGED <<control, lists, queues>>
  /\ SameOutside(F) /\ SoundFresh(F)
  /\ \A th \in Threads \cap F : mark[th] = "free"
  /\ \A uv \in UpVals \cap F : uv \notin unswept /\ NotDead(Value(uv))'
  /\ \A th \in Threads, s \in Slots :
        \/ th \notin F /\ stack'[th][s] = stack[th][s]
        \/ NotDead(stack[th][s])'

\* Making white what was free or condemned makes exactly that live, and
\* changes no other colour.
LEMMA LiveMark ==
  ASSUME TypeOK, NEW F, F \subseteq {o \in Objects : ~Live(o)}, UNCHANGED currentwhite,
         mark' = [o \in Objects |-> IF o \in F THEN currentwhite ELSE mark[o]]
  PROVE  /\ \A o \in Objects : Live(o)' <=> o \in F \/ Live(o)
         /\ \A o \in F : Live(o)'
         /\ \A o \in Objects : o \notin F => mark'[o] = mark[o]
         /\ \A o \in Objects : Marked(o)' <=> Marked(o)
         /\ \A o \in Objects : isdead(o)' <=> (isdead(o) /\ o \notin F)
         /\ \A o \in Objects : mark'[o] \in {"gray", "black"} <=> mark[o] \in {"gray", "black"}
         /\ \A o \in Objects : mark'[o] = "gray" <=> mark[o] = "gray"
         /\ \A o \in Objects : mark'[o] = "black" <=> mark[o] = "black"
         /\ \A o \in Objects : o \in F => mark'[o] = currentwhite
         /\ \A v : NotDead(v) => NotDead(v)'
BY DEF TypeOK, Live, isdead, otherwhite, Whites, Marked, NotDead

\* Such a step keeps the invariant: no black object refers to a fresh one,
\* and the sweep is not to meet it before the next cycle.
LEMMA Store ==
  ASSUME SafetyInv, TypeOK', NEW F, StoreStep(F), OpenInv', RootsInv'
  PROVE  SafetyInv'
<1> USE Kinds DEF control, lists, queues
<1>0. /\ F \subseteq {o \in Objects : ~Live(o)} /\ UNCHANGED <<control, lists, queues>>
      /\ mark' = [o \in Objects |-> IF o \in F THEN currentwhite ELSE mark[o]]
      /\ TypeOK /\ MutatorRuns /\ SameOutside(F) /\ SoundFresh(F)
  BY DEF StoreStep, SafetyInv
<1>1. /\ \A o \in Objects : Live(o)' <=> o \in F \/ Live(o)
      /\ \A o \in F : Live(o)'
      /\ \A o \in Objects : o \notin F => mark'[o] = mark[o]
      /\ \A o \in Objects : Marked(o)' <=> Marked(o)
      /\ \A o \in Objects : isdead(o)' <=> (isdead(o) /\ o \notin F)
      /\ \A o \in Objects : mark'[o] \in {"gray", "black"} <=> mark[o] \in {"gray", "black"}
      /\ \A o \in Objects : mark'[o] = "gray" <=> mark[o] = "gray"
      /\ \A o \in Objects : mark'[o] = "black" <=> mark[o] = "black"
      /\ \A o \in Objects : o \in F => mark'[o] = currentwhite
      /\ \A v : NotDead(v) => NotDead(v)'
  BY <1>0, LiveMark
<1>1a. \A u \in tmudata : u \in Objects /\ u \notin F
  BY <1>0 DEF SafetyInv, RootsInv, Roots, TypeOK
<1>2. ControlInv'
  BY <1>0 DEF SafetyInv, ControlInv
<1>3. ColourInv'
  BY <1>0, <1>1 DEF SafetyInv, ColourInv, isopen, SameOutside, TypeOK, Whites
<1>4. SweepInv'
  <2> HIDE Kinds
  <2>0. /\ SweepInv
        /\ Sweeping' = Sweeping /\ \A uv \in UpVals \ F : at'[uv] = at[uv]
        /\ unswept \subseteq Objects
    BY <1>0 DEF SafetyInv, Sweeping, SameOutside, TypeOK
  <2>1. \A o \in Objects \ F : Ahead(o)' <=> Ahead(o)
    BY <1>0, <2>0 DEF Ahead, isopen
  <2>2. \A o \in Objects : isdead(o)' => Sweeping' /\ Ahead(o)'
    BY <1>1, <2>0, <2>1 DEF SweepInv
  <2>3. Sweeping' => \A o \in Objects \ tmudata' : mark'[o] \in {"gray", "black"} => Ahead(o)'
    BY <1>0, <1>1, <2>0, <2>1, OtherWhiteType DEF SweepInv, TypeOK, Whites
  <2>4. \A o \in unswept' : mark'[o] # "free" /\ o \notin tmudata' /\ (o \in UpVals => ~isopen(o)')
    BY <1>0, <1>1, <2>0 DEF SweepInv, TypeOK, Whites, isopen, StoreStep
  <2> QED BY <1>0, <2>0, <2>2, <2>3, <2>4 DEF SweepInv
<1>5. PendingInv'
  BY <1>0, <1>1, <1>1a DEF SafetyInv, PendingInv
<1>6. WhiteAtRest'
  BY <1>0, <1>1, <1>1a DEF SafetyInv, WhiteAtRest
<1>7. HeapInv'
  <2>0. /\ HeapInv /\ otherwhite' = otherwhite
        /\ Live(Registry) /\ Registry \in Objects /\ Nil \notin Objects
    BY <1>0, RegistryLive, KindsAssumption DEF SafetyInv, otherwhite
  <2> USE DEF NotDead, Live
  <2>1. TablesLive'
    BY <1>0, <1>1, <2>0 DEF HeapInv, TablesLive, SameOutside, SoundFresh
  <2>2. UdatasLive'
    BY <1>0, <1>1, <2>0 DEF HeapInv, UdatasLive, SameOutside, SoundFresh
  <2>3. CClosuresLive'
    BY <1>0, <1>1, <2>0 DEF HeapInv, CClosuresLive, SameOutside, SoundFresh, Closures
  <2>4. LClosuresLive'
    BY <1>0, <1>1, <2>0 DEF HeapInv, LClosuresLive, SameOutside, SoundFresh, Closures
  <2>5. StacksLive'
    BY <1>0, <1>1, <2>0 DEF HeapInv, StacksLive, StoreStep
  <2>6. UpvalsLive'
    <3>1. ASSUME NEW uv \in UpVals \ F, Live(uv)' PROVE NotDead(Value(uv))'
      <4>1. Live(uv) /\ NotDead(Value(uv)) /\ at'[uv] = at[uv] /\ val'[uv] = val[uv]
        BY <1>0, <1>1, <2>0, <3>1 DEF HeapInv, UpvalsLive, SameOutside
      <4>2. CASE isopen(uv)
        <5>1. at[uv][1] \in Threads /\ at[uv][2] \in Slots /\ at[uv][1] \notin F
            BY <4>1, <4>2, <1>0, <1>1 DEF TypeOK, isopen, OpenInv, SafetyInv, StoreStep
        <5> QED BY <4>1, <4>2, <5>1, <1>0, <1>1, <2>0 DEF StoreStep, Value, isopen
      <4>3. CASE ~isopen(uv)
        BY <4>1, <4>3, <1>0, <1>1, <2>0 DEF Value, isopen
      <4> QED BY <4>2, <4>3
    <3> QED BY <3>1 DEF StoreStep, UpvalsLive
  <2> QED BY <2>1, <2>2, <2>3, <2>4, <2>5, <2>6 DEF HeapInv
<1>8. ASSUME gcstate' = "propagate" PROVE ListInv' /\ MarkedInv' /\ TracedInv'
  <2>0. /\ gcstate = "propagate" /\ ListInv /\ MarkedInv /\ TracedInv /\ stage' = 0
        /\ \A o \in Objects \ F : mark'[o] = mark[o]
        /\ currentwhite \in Whites
    BY <1>0, <1>1, <1>8 DEF SafetyInv, MarkInv, MutatorRuns, TypeOK
  <2>1. ListInv'
    <3>1. {o \in Linked : mark[o] = "gray"}' = {o \in Linked : mark[o] = "gray"}
      BY <1>1 DEF Linked, Closures
    <3> QED BY <1>0, <2>0, <3>1 DEF ListInv
  <2>2. MarkedInv'
    BY <1>0, <1>1, <2>0 DEF MarkedInv, Marked
  <2>3. \A v : Marked(v) => Marked(v)'
    BY <1>1, <2>0 DEF Marked
  <2>4. \A o \in Objects : mark[o] = "black" => o \notin F
    BY <1>0, <2>0, OtherWhiteType DEF Live, Whites
  <2>5. TablesTraced' /\ UdatasTraced'
    BY <1>1, <2>0, <2>4, <1>0 DEF TracedInv, TablesTraced, UdatasTraced, SameOutside, Marked
  <2>6. CClosuresTraced' /\ LClosuresTraced'
    BY <1>1, <2>0, <2>4, <1>0
      DEF TracedInv, CClosuresTraced, LClosuresTraced, SameOutside, Marked, Closures
  <2>7. UpvalsTraced'
    BY <1>1, <2>0, <2>4, <1>0
      DEF TracedInv, UpvalsTraced, SameOutside, Marked, Value, isopen, SafetyInv, ColourInv
  <2>8. WeakTraced' /\ StacksTraced'
    BY <2>0 DEF WeakTraced, StacksTraced
  <2> QED BY <2>1, <2>2, <2>5, <2>6, <2>7, <2>8 DEF TracedInv
<1> QED BY <1>2, <1>3, <1>4, <1>5, <1>6, <1>7, <1>8 DEF SafetyInv, MarkInv

-----------------------------------------------------------------------------
(* Stacks.                                                                 *)

\* A step that only writes stack slots, with values that are not dead, keeps
\* the invariant: threads are never black.
LEMMA StackStep ==
  ASSUME SafetyInv, TypeOK', MutatorRuns,
         UNCHANGED <<mark, control, lists, queues, fields, at>>,
         \A th \in Threads, s \in Slots :
           stack'[th][s] = stack[th][s] \/ NotDead(stack[th][s])',
         Live(running)', NotDead(basicmt)'
  PROVE  SafetyInv'
<1>1. StoreStep({})
  <2>1. mark' = [o \in Objects |-> IF o \in {} THEN currentwhite ELSE mark[o]]
    BY DEF SafetyInv, TypeOK
  <2>2. SameOutside({}) /\ SoundFresh({})
    BY DEF SameOutside, SoundFresh, fields
  <2> QED BY <2>1, <2>2 DEF StoreStep
<1>2. OpenInv'
  BY DEF SafetyInv, OpenInv, isopen
<1>3. RootsInv'
  BY DEF SafetyInv, RootsInv, Roots, Live, NotDead, otherwhite, control, queues
<1> QED BY <1>1, <1>2, <1>3, Store

\* The mutator operations without allocation or barrier: register loads,
\* lua_setmetatable of a basic type, OP_SETUPVAL through an open upvalue,
\* lua_xmove, lua_resume and lua_yield.
LEMMA StackOnly ==
  ASSUME SafetyInv, TypeOK',
     \/ \E v \in Values, s \in Slots : Load(v, s)
     \/ \E m \in MetaTables \cup {Nil} : SetBasicMt(m)
     \/ \E c \in LClosures, v \in Values : SetOpenUpvalue(c, v)
     \/ \E th \in Threads, s, k \in Slots : XMove(s, th, k)
     \/ \E th \in Coroutines, s \in Slots, drop \in BOOLEAN : Resume(th, s, drop)
     \/ Yield
  PROVE  SafetyInv'
<1> USE DEF control, lists, queues, fields
<1>0. /\ TypeOK /\ Live(running) /\ Live(MainThread) /\ NotDead(basicmt) /\ NotDead(Nil)
      /\ \A v \in InHand : NotDead(v)
      /\ \A v \in Readable : NotDead(v)
      /\ \A s \in Slots : stack[running][s] \in InHand
  BY RegistryLive, InHandLive, ReadableLive, KindsAssumption
    DEF SafetyInv, NotDead, RootsInv, Roots, InHand
<1> USE DEF NotDead, Live, otherwhite
<1>1. ASSUME NEW v \in Values, NEW s \in Slots, Load(v, s) PROVE SafetyInv'
  BY <1>0, <1>1, StackStep DEF Load, Put, TypeOK
<1>2. ASSUME NEW m \in MetaTables \cup {Nil}, SetBasicMt(m) PROVE SafetyInv'
  BY <1>0, <1>2, StackStep DEF SetBasicMt
<1>3. ASSUME NEW c \in LClosures, NEW v \in Values, SetOpenUpvalue(c, v) PROVE SafetyInv'
  BY <1>0, <1>3, StackStep DEF SetOpenUpvalue, TypeOK
<1>4. ASSUME NEW th \in Threads, NEW s \in Slots, NEW k \in Slots, XMove(s, th, k)
      PROVE  SafetyInv'
  BY <1>0, <1>4, StackStep DEF XMove, TypeOK
<1>5. ASSUME NEW th \in Coroutines, NEW s \in Slots, NEW drop \in BOOLEAN, Resume(th, s, drop)
      PROVE  SafetyInv'
  BY <1>0, <1>5, StackStep, Kinds DEF Resume, TypeOK, Threads, InHand
<1>6. CASE Yield
  BY <1>0, <1>6, StackStep DEF Yield
<1> QED BY <1>1, <1>2, <1>3, <1>4, <1>5, <1>6

-----------------------------------------------------------------------------
(* The operations that allocate.                                           *)

\* An allocation in the sense of StoreStep keeps the invariant when it opens
\* no upvalue but soundly (luaC_link, luaF_findupval).
LEMMA AllocationStep ==
  ASSUME SafetyInv, TypeOK', MutatorRuns, NEW F,
         F \subseteq {o \in Objects : ~Live(o)}, F \cap UpVals \cap unswept = {},
         mark' = [o \in Objects |-> IF o \in F THEN currentwhite ELSE mark[o]],
         UNCHANGED <<control, lists, queues, running, basicmt>>,
         SameOutside(F), SoundFresh(F), OpenInv',
         \A uv \in UpVals \cap F : NotDead(Value(uv))',
         \A th \in Threads \cap F : mark[th] = "free",
         \A th \in Threads, s \in Slots :
            \/ th \notin F /\ stack'[th][s] = stack[th][s]
            \/ NotDead(stack[th][s])'
  PROVE  SafetyInv'
<1>1. StoreStep(F)
  BY DEF StoreStep
<1>2. RootsInv'
  <2>1. TypeOK /\ UNCHANGED currentwhite
    BY DEF SafetyInv, control
  <2>2. \A o \in Roots : o \in Objects /\ Live(o)
    BY <2>1, KindsAssumption, Kinds DEF SafetyInv, RootsInv, Roots, TypeOK, Threads
  <2> QED BY <2>1, <2>2, LiveMark DEF RootsInv, Roots, queues
<1> QED BY <1>1, <1>2, Store

\* luaC_link of one first-class object that is put in a register.
LEMMA AllocateStep ==
  ASSUME SafetyInv, TypeOK', NEW o \in FirstClass, MutatorRuns,
         mark[o] = "free" \/ (o \in Strings /\ isdead(o)),
         mark' = [mark EXCEPT ![o] = currentwhite],
         UNCHANGED <<control, lists, queues, running, basicmt, at>>,
         SameOutside({o}), SoundFresh({o}),
         \A th \in Threads, s \in Slots :
            \/ th # o /\ stack'[th][s] = stack[th][s]
            \/ stack'[th][s] \in {o, Nil}
  PROVE  SafetyInv'
<1>0. /\ TypeOK /\ OpenInv /\ Nil \notin Objects /\ o \in Objects /\ currentwhite \in Whites
      /\ UNCHANGED <<currentwhite, unswept, at>>
  BY KindsAssumption DEF SafetyInv, TypeOK, Objects, control, queues
<1>1. /\ {o} \subseteq {x \in Objects : ~Live(x)}
      /\ mark' = [x \in Objects |-> IF x \in {o} THEN currentwhite ELSE mark[x]]
      /\ {o} \cap UpVals \cap unswept = {}
  <2>1. {o} \subseteq {x \in Objects : ~Live(x)}
    BY <1>0 DEF Live, isdead
  <2>2. mark' = [x \in Objects |-> IF x \in {o} THEN currentwhite ELSE mark[x]]
    BY <1>0 DEF TypeOK
  <2>3. o \notin UpVals
    BY KindsAssumption
  <2> QED BY <2>1, <2>2, <2>3
<1>2. OpenInv'
  BY <1>0, <1>1, Kinds DEF OpenInv, isopen, Whites, TypeOK
<1>3. \A uv \in UpVals \cap {o} : NotDead(Value(uv))'
  BY KindsAssumption
<1>4. \A th \in Threads \cap {o} : mark[th] = "free"
  BY KindsAssumption
<1>5. \A th \in Threads, s \in Slots :
        \/ th \notin {o} /\ stack'[th][s] = stack[th][s]
        \/ NotDead(stack[th][s])'
  BY <1>0, <1>1 DEF NotDead, Live, otherwhite, Whites
<1> QED BY <1>1, <1>2, <1>3, <1>4, <1>5, AllocationStep

\* luaF_newLclosure together with an upvalue that was free or condemned.
LEMMA ClosureWithUpval ==
  ASSUME SafetyInv, TypeOK', MutatorRuns, NEW c \in LClosures, NEW uv \in UpVals, NEW s \in Slots,
         mark[c] = "free", ~Live(uv), uv \notin unswept,
         mark' = [mark EXCEPT ![c] = currentwhite, ![uv] = currentwhite],
         Closes(c, uv, s),
         \A x \in UpVals : x # uv => at'[x] = at[x],
         \A x \in Tables \cup CClosures \cup UpVals : x # uv => val'[x] = val[x],
         OpenInv', NotDead(Value(uv))',
         UNCHANGED <<control, lists, queues, running, basicmt>>
  PROVE  SafetyInv'
<1> DEFINE F == {c, uv}
<1>0. /\ TypeOK /\ c \in Objects /\ uv \in Objects /\ c # uv /\ c \notin UpVals
      /\ currentwhite \in Whites /\ currentwhite' = currentwhite
  BY Kinds, KindsAssumption DEF SafetyInv, FirstClass, Closures, TypeOK, control
<1>1. F \subseteq {o \in Objects : ~Live(o)}
  BY <1>0 DEF Live
<1>2. F \cap UpVals \cap unswept = {}
  BY <1>0
<1>3. mark' = [o \in Objects |-> IF o \in F THEN currentwhite ELSE mark[o]]
  BY <1>0 DEF TypeOK
<1>4. mark'[c] = currentwhite /\ mark'[uv] = currentwhite
  BY <1>0, <1>3
<1>5. NotDead(c)' /\ Live(uv)'
  BY <1>0, <1>4, OtherWhiteType DEF NotDead, Live, Whites, otherwhite
<1>6. SameOutside(F)
  BY <1>0 DEF SameOutside, Closes, TypeOK
<1>7. SoundFresh(F)
  BY <1>0, <1>5, KindsAssumption
    DEF SoundFresh, Closes, TypeOK, Closures, FirstClass, Live, otherwhite
<1>8. \A th \in Threads : th \notin F
  BY KindsAssumption DEF FirstClass, Closures
<1>9. \A u \in UpVals \cap F : NotDead(Value(u))'
  BY <1>0
<1>10. \A th \in Threads, k \in Slots : stack'[th][k] = stack[th][k] \/ NotDead(stack[th][k])'
  BY <1>0, <1>5 DEF Closes, Put, TypeOK, NotDead, Live, otherwhite
<1> HIDE DEF F
<1> QED BY <1>1, <1>2, <1>3, <1>6, <1>7, <1>8, <1>9, <1>10, AllocationStep

\* Every operation that allocates, or resurrects, keeps the invariant:
\* lua_newtable, lua_newuserdata, lua_pushcclosure, lua_newthread,
\* luaS_newlstr, OP_CLOSURE in its three cases and the load of a chunk.
LEMMA Allocations ==
  ASSUME SafetyInv, TypeOK',
     \/ \E t \in Tables, s \in Slots : NewTable(t, s)
     \/ \E u \in Udatas, s \in Slots : NewUdata(u, s)
     \/ \E c \in CClosures, v \in Values, s \in Slots : NewCClosure(c, v, s)
     \/ \E th \in Coroutines, s \in Slots : NewThread(th, s)
     \/ \E str \in Strings, s \in Slots : NewString(str, s)
     \/ \E c, p \in LClosures, s \in Slots : NewLClosureShare(c, p, s)
     \/ \E c \in LClosures, k \in Slots, uv \in UpVals, s \in Slots : NewLClosureFind(c, k, uv, s)
     \/ \E c \in LClosures, k \in Slots, uv \in UpVals, s \in Slots : NewLClosureOpen(c, k, uv, s)
     \/ \E c \in LClosures, uv \in UpVals, s \in Slots : NewLClosureLoad(c, uv, s)
  PROVE  SafetyInv'
<1> USE KindsAssumption, Kinds
<1>0. /\ TypeOK /\ Live(Registry) /\ Registry \in Tables /\ OpenInv
      /\ Nil \notin Objects /\ currentwhite \in Whites
      /\ \A v \in InHand : NotDead(v)
  BY RegistryLive, InHandLive DEF SafetyInv, TypeOK
<1> USE DEF fields
<1>1. ASSUME NEW t \in Tables, NEW s \in Slots, NewTable(t, s) PROVE SafetyInv'
  <2>1. MutatorRuns /\ mark[t] = "free" /\ mark' = [mark EXCEPT ![t] = currentwhite]
        /\ UNCHANGED <<control, lists, queues, running, basicmt, at>>
    BY <1>1 DEF NewTable, Allocate, Closes
  <2>2. SameOutside({t})
    BY <1>0, <1>1 DEF NewTable, Allocate, Closes, SameOutside, TypeOK
  <2>3. SoundFresh({t})
    BY <1>0, <1>1 DEF NewTable, Allocate, Closes, SoundFresh, TypeOK, Closures, Threads, NotDead,
       Live, otherwhite, control
  <2>4. \A x \in Threads, k \in Slots :
          \/ x # t /\ stack'[x][k] = stack[x][k]
          \/ stack'[x][k] \in {t, Nil}
    BY <1>0, <1>1 DEF NewTable, Put, Closes, TypeOK, NoStack, Threads
  <2> QED BY <2>1, <2>2, <2>3, <2>4, AllocateStep DEF FirstClass, Closures, Threads
<1>2. ASSUME NEW u \in Udatas, NEW s \in Slots, NewUdata(u, s) PROVE SafetyInv'
  <2>1. MutatorRuns /\ mark[u] = "free" /\ mark' = [mark EXCEPT ![u] = currentwhite]
        /\ UNCHANGED <<control, lists, queues, running, basicmt, at>>
    BY <1>2 DEF NewUdata, Allocate, Closes
  <2>2. SameOutside({u})
    BY <1>0, <1>2 DEF NewUdata, Allocate, Closes, SameOutside, TypeOK
  <2>3. SoundFresh({u})
    BY <1>0, <1>2 DEF NewUdata, Allocate, Closes, SoundFresh, TypeOK, Closures, Threads, NotDead,
       Live, otherwhite, control
  <2>4. \A x \in Threads, k \in Slots :
          \/ x # u /\ stack'[x][k] = stack[x][k]
          \/ stack'[x][k] \in {u, Nil}
    BY <1>0, <1>2 DEF NewUdata, Put, Closes, TypeOK, NoStack, Threads
  <2> QED BY <2>1, <2>2, <2>3, <2>4, AllocateStep DEF FirstClass, Closures, Threads
<1>3. ASSUME NEW c \in CClosures, NEW v \in Values, NEW s \in Slots, NewCClosure(c, v, s)
      PROVE  SafetyInv'
  <2>1. MutatorRuns /\ mark[c] = "free" /\ mark' = [mark EXCEPT ![c] = currentwhite]
        /\ UNCHANGED <<control, lists, queues, running, basicmt, at>>
    BY <1>3 DEF NewCClosure, Allocate, Closes
  <2>2. SameOutside({c})
    BY <1>0, <1>3 DEF NewCClosure, Allocate, Closes, SameOutside, TypeOK
  <2>3. SoundFresh({c})
    BY <1>0, <1>3 DEF NewCClosure, Allocate, Closes, SoundFresh, TypeOK, Closures, Threads,
       NotDead, Live, otherwhite, control
  <2>4. \A x \in Threads, k \in Slots :
          \/ x # c /\ stack'[x][k] = stack[x][k]
          \/ stack'[x][k] \in {c, Nil}
    BY <1>0, <1>3 DEF NewCClosure, Put, Closes, TypeOK, NoStack, Threads
  <2> QED BY <2>1, <2>2, <2>3, <2>4, AllocateStep DEF FirstClass, Closures, Threads
<1>4. ASSUME NEW th \in Coroutines, NEW s \in Slots, NewThread(th, s) PROVE SafetyInv'
  <2>1. MutatorRuns /\ mark[th] = "free" /\ mark' = [mark EXCEPT ![th] = currentwhite]
        /\ UNCHANGED <<control, lists, queues, running, basicmt, at>>
    BY <1>4 DEF NewThread, Allocate, Closes
  <2>2. SameOutside({th})
    BY <1>0, <1>4 DEF NewThread, Allocate, Closes, SameOutside, TypeOK
  <2>3. SoundFresh({th})
    BY <1>0, <1>4 DEF NewThread, Allocate, Closes, SoundFresh, TypeOK, Closures, Threads,
       NotDead, Live, otherwhite, control
  <2>4. \A x \in Threads, k \in Slots :
          \/ x # th /\ stack'[x][k] = stack[x][k]
          \/ stack'[x][k] \in {th, Nil}
    <3>1. stack' = [stack EXCEPT ![th] = NoStack, ![running][s] = th]
      BY <1>4 DEF NewThread
    <3>2. \A x \in Threads, k \in Slots :
            stack'[x][k] \in (IF x = th THEN {th, Nil} ELSE {th, stack[x][k]})
      BY <1>0, <3>1 DEF TypeOK, NoStack
    <3> QED BY <3>2
  <2> QED BY <2>1, <2>2, <2>3, <2>4, AllocateStep DEF FirstClass, Closures, Threads
<1>6. ASSUME NEW c \in LClosures, NEW p \in LClosures, NEW s \in Slots, NewLClosureShare(c, p, s)
      PROVE  SafetyInv'
  <2>0. up[p] \in UpVals /\ Live(up[p])
    BY <1>0, <1>6 DEF NewLClosureShare, NotDead, SafetyInv, HeapInv, LClosuresLive
  <2>1. MutatorRuns /\ mark[c] = "free" /\ mark' = [mark EXCEPT ![c] = currentwhite]
        /\ UNCHANGED <<control, lists, queues, running, basicmt, at>>
    BY <1>6 DEF NewLClosureShare, SharedUpval, Allocate, Closes
  <2>2. SameOutside({c})
    BY <1>0, <1>6 DEF NewLClosureShare, SharedUpval, Allocate, Closes, SameOutside, TypeOK
  <2>3. SoundFresh({c})
    BY <1>0, <1>6, <2>0 DEF NewLClosureShare, SharedUpval, Allocate, Closes, SoundFresh, TypeOK,
       Closures, Threads, NotDead, Live, otherwhite, control
  <2>4. \A x \in Threads, k \in Slots :
          \/ x # c /\ stack'[x][k] = stack[x][k]
          \/ stack'[x][k] \in {c, Nil}
    BY <1>0, <1>6 DEF NewLClosureShare, SharedUpval, Put, Closes, TypeOK, NoStack, Threads
  <2> QED BY <2>1, <2>2, <2>3, <2>4, AllocateStep DEF FirstClass, Closures, Threads
<1>5. ASSUME NEW str \in Strings, NEW s \in Slots, NewString(str, s) PROVE SafetyInv'
  <2> USE DEF NewString, control
  <2>0. \A x \in Threads, k \in Slots : stack'[x][k] = stack[x][k] \/ stack'[x][k] = str
    BY <1>0, <1>5 DEF Put, TypeOK
  <2>1. CASE mark[str] = "free" \/ isdead(str)
    <3>1. SameOutside({str}) /\ SoundFresh({str})
      BY <1>5 DEF SameOutside, SoundFresh, Closures
    <3>2. \A x \in Threads, k \in Slots :
            \/ x # str /\ stack'[x][k] = stack[x][k]
            \/ stack'[x][k] \in {str, Nil}
      BY <2>0
    <3> QED BY <1>5, <2>1, <3>1, <3>2, AllocateStep DEF FirstClass
  <2>2. CASE ~(mark[str] = "free" \/ isdead(str))
    <3>1. Live(str) /\ Live(str)' /\ Live(running)' /\ NotDead(basicmt)'
      BY <1>0, <1>5, <2>2, RegistryLive DEF Live, isdead, otherwhite, NotDead
    <3>2. \A x \in Threads, k \in Slots : stack'[x][k] = stack[x][k] \/ NotDead(stack[x][k])'
      BY <1>5, <2>0, <3>1, <2>2 DEF NotDead, Live, otherwhite
    <3> QED BY <1>5, <2>2, <3>1, <3>2, StackStep
  <2> QED BY <2>1, <2>2
<1>7. ASSUME NEW c \in LClosures, NEW k \in Slots, NEW uv \in UpVals, NEW s \in Slots,
             NewLClosureFind(c, k, uv, s)
      PROVE  SafetyInv'
  <2> USE DEF NewLClosureFind, Closes
  <2>0. <<running, k>> \in Threads \X Slots /\ at' = at /\ at[uv] = <<running, k>>
    BY <1>0, <1>7 DEF TypeOK
  <2>1. isopen(uv) /\ mark[uv] # "free" /\ uv # c /\ uv \in Objects
    BY <2>0 DEF isopen, SafetyInv, ColourInv, FirstClass, Closures
  <2>2. \A th \in Threads, j \in Slots : stack'[th][j] = stack[th][j] \/ stack'[th][j] = c
    BY <1>0, <1>7 DEF Put, TypeOK
  <2>3. CASE isdead(uv)
    <3>1. mark' = [mark EXCEPT ![c] = currentwhite, ![uv] = currentwhite]
      BY <1>7, <2>3 DEF Resurrected
    <3>2. uv \notin unswept
      BY <2>1 DEF SafetyInv, SweepInv
    <3>3. OpenInv'
      BY <1>0, <1>7, <3>1 DEF OpenInv, isopen, TypeOK, Whites
    <3>4. NotDead(Value(uv))'
      <4>1. Value(uv)' = stack'[running][k]
        BY <2>0, <2>1 DEF Value, isopen
      <4>2. NotDead(stack[running][k]) /\ running \in Threads
        BY <1>0 DEF InHand, TypeOK
      <4>3. \A o \in Objects : Live(o) \/ o = c => mark'[o] \notin {"free", otherwhite'}
        BY <1>0, <1>7, <3>1, OtherWhiteType DEF TypeOK, Live, otherwhite, control, Whites
      <4> QED BY <2>2, <4>1, <4>2, <4>3 DEF NotDead, Live
    <3> QED BY <1>7, <2>3, <3>1, <3>2, <3>3, <3>4, ClosureWithUpval DEF isdead, Live
  <2>4. CASE ~isdead(uv)
    <3>1. mark' = [mark EXCEPT ![c] = currentwhite]
      BY <1>0, <1>7, <2>1, <2>4 DEF Resurrected, TypeOK
    <3>2. Live(uv)'
      BY <1>0, <1>7, <2>1, <2>4, <3>1 DEF Live, isdead, otherwhite, control, TypeOK
    <3>3. SameOutside({c})
      BY <1>0, <1>7 DEF SameOutside, TypeOK
    <3>4. SoundFresh({c})
      BY <1>0, <1>7, <3>2 DEF SoundFresh, TypeOK, Closures, FirstClass, Live, otherwhite
    <3>5. \A th \in Threads, j \in Slots :
            \/ th # c /\ stack'[th][j] = stack[th][j]
            \/ stack'[th][j] \in {c, Nil}
      BY <2>2 DEF FirstClass, Closures
    <3>6. c \in FirstClass
      BY DEF FirstClass, Closures
    <3> QED BY <1>7, <2>0, <3>1, <3>3, <3>4, <3>5, <3>6, AllocateStep
  <2> QED BY <2>3, <2>4
<1>8. ASSUME NEW c \in LClosures, NEW k \in Slots, NEW uv \in UpVals, NEW s \in Slots,
             NewLClosureOpen(c, k, uv, s)
      PROVE  SafetyInv'
  <2> USE DEF NewLClosureOpen
  <2>1. uv \notin unswept /\ ~Live(uv) /\ uv \in Objects /\ c \in Objects /\ uv # c
    BY <1>0, <1>8 DEF SafetyInv, SweepInv, Live, FirstClass, Closures
  <2>2. running \in Threads /\ mark[running] # "free" /\ NotDead(stack[running][k])
    BY <1>0, RegistryLive DEF TypeOK, Live, InHand
  <2>3. at'[uv] = <<running, k>> /\ (\A x \in UpVals : x # uv => at'[x] = at[x])
    BY <1>0, <1>8 DEF TypeOK
  <2>4. OpenInv'
    <3>1. \A th \in Threads : mark[th] # "free" => mark'[th] # "free"
      BY <1>0, <1>8 DEF TypeOK, Whites
    <3>2. \A x \in UpVals : at[x] # Nil => at[x][1] \in Threads
      BY <1>0 DEF TypeOK
    <3>3. \A x \in UpVals : at[x] # <<running, k>>
      BY <1>8 DEF NoneOpenAt
    <3> QED BY <1>0, <2>2, <2>3, <3>1, <3>2, <3>3 DEF OpenInv, isopen
  <2>5. NotDead(Value(uv))'
    <3>1. Value(uv)' = stack'[running][k]
      BY <1>8, <2>2, <2>3 DEF Value, isopen
    <3>2. \A o \in Objects : Live(o) \/ o = c => mark'[o] \notin {"free", otherwhite'}
      BY <1>0, <1>8, OtherWhiteType DEF TypeOK, Live, otherwhite, control, Whites
    <3>3. stack'[running][k] = stack[running][k] \/ stack'[running][k] = c
      BY <1>0, <1>8, <2>2 DEF Put, Closes, TypeOK
    <3> QED BY <2>1, <2>2, <3>1, <3>2, <3>3 DEF NotDead, Live
  <2> QED BY <1>8, <2>1, <2>3, <2>4, <2>5, ClosureWithUpval
<1>9. ASSUME NEW c \in LClosures, NEW uv \in UpVals, NEW s \in Slots, NewLClosureLoad(c, uv, s)
      PROVE  SafetyInv'
  <2> USE DEF NewLClosureLoad
  <2>1. uv \notin unswept /\ ~Live(uv) /\ uv \in Objects /\ ~isopen(uv) /\ UNCHANGED at
    BY <1>0, <1>9 DEF SafetyInv, SweepInv, Live, ColourInv
  <2>2. OpenInv'
    BY <1>0, <1>9, <2>1 DEF OpenInv, isopen, TypeOK, Whites
  <2>3. NotDead(Value(uv))'
    BY <1>0, <1>9, <2>1 DEF Value, isopen, NotDead, TypeOK
  <2>4. \A x \in Tables \cup CClosures \cup UpVals : x # uv => val'[x] = val[x]
    BY <1>0, <1>9 DEF TypeOK
  <2> QED BY <1>9, <2>1, <2>2, <2>3, <2>4, ClosureWithUpval
<1> QED BY <1>1, <1>2, <1>3, <1>4, <1>5, <1>6, <1>7, <1>8, <1>9

-----------------------------------------------------------------------------
(* Marking.                                                                *)

\* v, if an object, is in R or has been marked.
Met(v, R) == v \in Objects => v \in R \/ mark[v] \in {"gray", "black"}

\* R is a set of white objects that reallymarkobject may turn at once: what
\* its userdata and upvalues refer to has been marked or is in R too.
Whole(R) ==
  /\ \A o \in R : o \in Objects /\ iswhite(o)
  /\ \A u \in R \cap Udatas : Met(metatable[u], R) /\ Met(env[u], R)
  /\ \A uv \in R \cap UpVals : Met(Value(uv), R)

\* Outside a sweep no object has the other white.
LEMMA NoneDead == SafetyInv /\ ~Sweeping =>
    \A o \in Objects : mark[o] \in {"free", currentwhite, "gray", "black"}
BY DEF SafetyInv, SweepInv, TypeOK, isdead, otherwhite, Colours, Whites

\* What reallymarkobject reaches from live objects is such a set.
LEMMA ReachedWhole ==
  ASSUME SafetyInv, ~Sweeping, NEW S, \A v \in S : NotDead(v)
  PROVE  Whole(Reached(S)) /\ \A v \in S : Met(v, Reached(S))
<1> DEFINE direct == WhiteIn(S)
           values == direct \cup WhiteIn(UNION {Kids(uv) : uv \in direct \cap UpVals})
           R == values \cup WhiteIn(UNION {Kids(u) : u \in values \cap Udatas})
<1>0. R = Reached(S)
  BY DEF Reached
<1>1. /\ TypeOK /\ HeapInv /\ currentwhite \in Whites
      /\ \A o \in Objects : Live(o) => mark[o] \in {currentwhite, "gray", "black"}
      /\ \A o \in Objects : iswhite(o) => Live(o)
  BY NoneDead DEF SafetyInv, Live, iswhite, Whites, TypeOK, otherwhite
<1>2. \A o \in R : o \in Objects /\ iswhite(o)
  BY DEF WhiteIn
<1>3. \A v \in S : Met(v, R)
  BY <1>1 DEF Met, WhiteIn, NotDead, iswhite
<1>4. ASSUME NEW u \in R \cap Udatas PROVE Met(metatable[u], R) /\ Met(env[u], R)
  <2>1. u \in values
    <3>1. \A x \in values \cap Udatas : Kids(x) \subseteq Tables
      BY <1>1, KindsAssumption DEF Kids, Refs, TypeOK, TableOrNil, Objects, FirstClass
    <3> QED BY <3>1, KindsAssumption DEF WhiteIn
  <2>2. u \in Objects /\ Live(u) /\ Kids(u) = Objects \cap {metatable[u], env[u]}
    BY <1>1, <1>2, KindsAssumption DEF Kids, Refs
  <2>3. NotDead(metatable[u]) /\ NotDead(env[u])
    BY <1>1, <2>2 DEF HeapInv, UdatasLive
  <2>4. \A v \in {metatable[u], env[u]} : v \in Objects /\ iswhite(v) => v \in R
    BY <2>1, <2>2 DEF WhiteIn
  <2> QED BY <1>1, <2>3, <2>4 DEF Met, NotDead, iswhite
<1>5. ASSUME NEW uv \in R \cap UpVals PROVE Met(Value(uv), R)
  <2>1. uv \in direct
    <3>1. \A x \in UpVals : Kids(x) \subseteq FirstClass
      BY <1>1, ValueType, KindsAssumption DEF Kids, Refs, Values, Objects, FirstClass, Closures
    <3>2. \A x \in Udatas : Kids(x) \subseteq FirstClass
      BY <1>1, KindsAssumption DEF Kids, Refs, TypeOK, TableOrNil, Objects, FirstClass
    <3> QED BY <3>1, <3>2, KindsAssumption DEF WhiteIn
  <2>2. uv \in Objects /\ Live(uv) /\ Kids(uv) = Objects \cap {Value(uv)}
    BY <1>1, <1>2, KindsAssumption DEF Kids, Refs, FirstClass, Closures
  <2>3. NotDead(Value(uv))
    BY <1>1, <2>2 DEF HeapInv, UpvalsLive
  <2>4. Value(uv) \in Objects /\ iswhite(Value(uv)) => Value(uv) \in R
    BY <2>1, <2>2 DEF WhiteIn
  <2> QED BY <1>1, <2>3, <2>4 DEF Met, NotDead, iswhite
<1> HIDE DEF R
<1> QED BY <1>0, <1>2, <1>3, <1>4, <1>5 DEF Whole

\* Painting such a set marks exactly its members, which were white.
LEMMA PaintFacts ==
  ASSUME SafetyInv, ~Sweeping, NEW R, Whole(R), mark' = Painted(R), UNCHANGED <<currentwhite, at>>
  PROVE  /\ \A o \in Objects : mark'[o] = IF o \in R THEN Shade(o) ELSE mark[o]
         /\ \A o \in R : o \in Objects /\ mark[o] = currentwhite /\ mark'[o] \in {"gray", "black"}
         /\ \A o \in Objects : mark[o] \in {"gray", "black"} => mark'[o] = mark[o]
         /\ \A o \in Objects : mark'[o] \notin {"free", otherwhite'} <=>
                mark[o] \notin {"free", otherwhite}
<1>1. \A o \in R : o \in Objects /\ mark[o] = currentwhite
  BY NoneDead DEF Whole, iswhite, SafetyInv, TypeOK, Whites
<1>2. /\ currentwhite \in Whites /\ otherwhite \in Whites
      /\ otherwhite' = otherwhite /\ otherwhite # currentwhite
  BY OtherWhiteType DEF SafetyInv, TypeOK, otherwhite
<1>3. \A o \in Objects : mark'[o] = IF o \in R THEN Shade(o) ELSE mark[o]
  BY DEF Painted
<1> QED BY <1>1, <1>2, <1>3 DEF Shade, Whites

\* reallymarkobject reaches no other upvalue from what is not an upvalue.
LEMMA ReachedNoUpval ==
  ASSUME TypeOK, NEW S, S \cap UpVals = {}
  PROVE  Reached(S) \cap UpVals = {}
<1> DEFINE direct == WhiteIn(S)
           values == direct \cup WhiteIn(UNION {Kids(uv) : uv \in direct \cap UpVals})
<1>1. \A X : WhiteIn(X) \subseteq X
  BY DEF WhiteIn
<1>2. \A u \in Udatas : Kids(u) \cap UpVals = {}
  BY KindsAssumption, KindsApart DEF Kids, Refs, TypeOK, TableOrNil, Objects, FirstClass
<1>3. direct \cap UpVals = {}
  BY <1>1
<1>4. values \cap UpVals = {}
  <2>1. UNION {Kids(uv) : uv \in direct \cap UpVals} = {}
    BY <1>3
  <2> QED BY <1>1, <1>3, <2>1
<1> HIDE DEF values
<1>5. \A x \in WhiteIn(UNION {Kids(u) : u \in values \cap Udatas}) :
         \E u \in Udatas : x \in Kids(u)
  BY <1>1
<1>6. Reached(S) = values \cup WhiteIn(UNION {Kids(u) : u \in values \cap Udatas})
  BY DEF Reached, values
<1> QED BY <1>2, <1>4, <1>5, <1>6

-----------------------------------------------------------------------------
(* Writes behind barriers.                                                 *)

\* v, if an object, is marked when the step has been taken.
MarkedNow(v) == v \in Objects => mark'[v] \in {"gray", "black"}

\* luaC_barrier: during a mark phase it marks the value and what must be
\* marked with it, and otherwise only turns a black object white.
LEMMA BarrierMarks ==
  ASSUME SafetyInv, MutatorRuns, NEW o \in Udatas \cup Closures \cup UpVals, NEW v, NotDead(v),
         Live(o), luaC_barrier(o, v), UNCHANGED <<control, at>>
  PROVE  /\ \A x \in Objects : mark'[x] \notin {"free", otherwhite'} <=>
                mark[x] \notin {"free", otherwhite}
         /\ \A x \in Objects : mark[x] \notin {currentwhite, "black"} => mark'[x] = mark[x]
         /\ gcstate = "propagate" =>
              /\ \A x \in Objects : mark[x] \in {"gray", "black"} => mark'[x] = mark[x]
              /\ mark[o] = "black" => MarkedNow(v)
              /\ gray' = gray \cup {x \in Linked : mark'[x] = "gray" /\ mark[x] # "gray"}
              /\ \A x \in Objects : mark[x] = currentwhite /\ mark'[x] # currentwhite =>
                   /\ mark'[x] = Shade(x)
                   /\ x # o
                   /\ x \in Udatas => /\ MarkedNow(metatable[x])
                                      /\ MarkedNow(env[x])
                   /\ x \in UpVals => MarkedNow(Value(x))
         /\ gcstate # "propagate" =>
              \A x \in Objects :
                 mark'[x] = mark[x] \/ (mark[x] = "black" /\ mark'[x] = currentwhite)
<1> USE Kinds DEF control, MarkedNow
<1>0. /\ TypeOK /\ currentwhite \in Whites /\ UNCHANGED <<currentwhite, at>>
      /\ otherwhite' = otherwhite /\ o \in Objects
      /\ otherwhite \in Whites /\ otherwhite # currentwhite
  BY OtherWhiteType DEF SafetyInv, TypeOK, otherwhite, Closures
<1>1. CASE ~NeedsBarrier(o, v)
  <2>1. UNCHANGED <<mark, gray>>
    BY <1>1 DEF luaC_barrier
  <2>2. gcstate = "propagate" /\ v \in Objects => mark[v] \in {"gray", "black", currentwhite}
    BY NoneDead DEF NotDead, Live, Sweeping
  <2> QED BY <1>0, <1>1, <2>1, <2>2 DEF NeedsBarrier, iswhite
<1>2. CASE NeedsBarrier(o, v) /\ gcstate # "propagate"
  BY <1>0, <1>2 DEF luaC_barrier, NeedsBarrier, TypeOK, Whites
<1>3. CASE NeedsBarrier(o, v) /\ gcstate = "propagate"
  <2> DEFINE R == Reached({v})
  <2>1. ~Sweeping /\ v \in Objects /\ mark[o] = "black"
    BY <1>3 DEF Sweeping, NeedsBarrier
  <2>2. Whole(R) /\ Met(v, R)
    BY <2>1, ReachedWhole
  <2>3. mark' = Painted(R) /\ gray' = gray \cup (R \cap Linked)
    BY <1>3 DEF luaC_barrier
  <2> HIDE DEF R
  <2>4. /\ \A x \in Objects : mark'[x] = IF x \in R THEN Shade(x) ELSE mark[x]
        /\ \A x \in R : x \in Objects /\ mark[x] = currentwhite /\ mark'[x] \in {"gray", "black"}
        /\ \A x \in Objects : mark[x] \in {"gray", "black"} => mark'[x] = mark[x]
        /\ \A x \in Objects : mark'[x] \notin {"free", otherwhite'} <=>
               mark[x] \notin {"free", otherwhite}
    BY <1>0, <2>1, <2>2, <2>3, PaintFacts
  <2>5. gray' = gray \cup {x \in Linked : mark'[x] = "gray" /\ mark[x] # "gray"}
    <3>1. R \cap Linked = {x \in Linked : mark'[x] = "gray" /\ mark[x] # "gray"}
      <4>1. \A x \in Linked : x \in Objects /\ Shade(x) = "gray"
        BY KindsAssumption DEF Linked, Shade, Closures, FirstClass
      <4> QED BY <1>0, <2>4, <4>1 DEF Whites
    <3> QED BY <2>3, <3>1
  <2>6. \A x \in Objects : mark[x] = currentwhite /\ mark'[x] # currentwhite =>
                   /\ mark'[x] = Shade(x)
                   /\ x # o
                   /\ x \in Udatas => /\ MarkedNow(metatable[x])
                                      /\ MarkedNow(env[x])
                   /\ x \in UpVals => MarkedNow(Value(x))
    BY <1>0, <2>1, <2>2, <2>4 DEF Whole, Met, Whites
  <2>7. mark'[v] \in {"gray", "black"}
    BY <2>1, <2>2, <2>4 DEF Met
  <2>8. \A x \in Objects : mark[x] \notin {currentwhite, "black"} => mark'[x] = mark[x]
    BY <2>4
  <2> QED BY <1>3, <2>4, <2>5, <2>6, <2>7, <2>8
<1> QED BY <1>1, <1>2, <1>3

\* A reference written to a userdata, closure or closed upvalue through
\* luaC_barrier keeps the invariant.
LEMMA ForwardStep ==
  ASSUME SafetyInv, TypeOK', MutatorRuns, NEW o \in Udatas \cup Closures \cup UpVals, NEW v,
         NotDead(v), Live(o), o \in UpVals => ~isopen(o),
         luaC_barrier(o, v),
         \A x \in Tables \cup Udatas : metatable'[x] = metatable[x] \/ (x = o /\ metatable'[x] = v),
         \A x \in Udatas \cup Closures : env'[x] = env[x] \/ (x = o /\ env'[x] = v),
         \A x \in Tables \cup CClosures \cup UpVals : val'[x] = val[x] \/ (x = o /\ val'[x] = v),
         UNCHANGED <<control, grayagain, weak, queues, key, up, machine>>
  PROVE  SafetyInv'
<1> USE Kinds, KindsApart DEF MarkedNow
<1>0. /\ TypeOK /\ HeapInv /\ currentwhite \in Whites /\ otherwhite' = otherwhite /\ o \in Objects
      /\ otherwhite \in Whites /\ otherwhite # currentwhite
      /\ UNCHANGED <<control, currentwhite, gcstate, stage, full, grayagain, weak, queues,
                     unswept, tmudata, finalized,
                     key, up, machine, at, stack, running, basicmt>>
  BY OtherWhiteType DEF SafetyInv, TypeOK, otherwhite, Closures, control, queues, machine
<1>1. o \notin Tables /\ o \notin Threads /\ o \notin Strings
  BY DEF Closures
<1>2. /\ \A x \in Objects : mark'[x] \notin {"free", otherwhite'} <=>
             mark[x] \notin {"free", otherwhite}
      /\ \A x \in Objects : mark[x] \notin {currentwhite, "black"} => mark'[x] = mark[x]
  BY <1>0, BarrierMarks
<1>3. gcstate = "propagate" =>
         /\ \A x \in Objects : mark[x] \in {"gray", "black"} => mark'[x] = mark[x]
         /\ mark[o] = "black" => MarkedNow(v)
         /\ gray' = gray \cup {x \in Linked : mark'[x] = "gray" /\ mark[x] # "gray"}
         /\ \A x \in Objects : mark[x] = currentwhite /\ mark'[x] # currentwhite =>
              /\ mark'[x] = Shade(x)
              /\ x # o
              /\ x \in Udatas => /\ MarkedNow(metatable[x])
                                 /\ MarkedNow(env[x])
              /\ x \in UpVals => MarkedNow(Value(x))
  BY <1>0, BarrierMarks
<1>4. gcstate # "propagate" =>
         \A x \in Objects : mark'[x] = mark[x] \/ (mark[x] = "black" /\ mark'[x] = currentwhite)
  BY <1>0, BarrierMarks
<1>5. /\ \A x \in Objects :
           \/ mark'[x] = mark[x]
           \/ mark[x] = "black" /\ mark'[x] = currentwhite
           \/ mark[x] = currentwhite /\ mark'[x] = Shade(x)
      /\ \A x \in Objects : mark'[x] = "free" <=> mark[x] = "free"
  <2>1. ASSUME NEW x \in Objects
        PROVE  \/ mark'[x] = mark[x]
               \/ mark[x] = "black" /\ mark'[x] = currentwhite
               \/ mark[x] = currentwhite /\ mark'[x] = Shade(x)
    <3>1. CASE gcstate = "propagate"
      BY <1>2, <1>3, <3>1
    <3>2. CASE gcstate # "propagate"
      BY <1>4, <3>2
    <3> QED BY <3>1, <3>2
  <2>2. currentwhite # "free" /\ \A x : Shade(x) # "free"
    BY <1>0 DEF Shade, Whites
  <2> QED BY <2>1, <2>2
<1>6. ControlInv' /\ OpenInv'
  BY <1>0, <1>5 DEF SafetyInv, ControlInv, OpenInv, isopen, TypeOK
<1>7. RootsInv'
  <2>1. Roots' = Roots /\ Roots \subseteq Objects
    BY <1>0, KindsAssumption DEF Roots, TypeOK, Threads
  <2> QED BY <1>0, <1>2, <2>1 DEF SafetyInv, RootsInv, Live
<1>8. ColourInv'
  <2>1. ColourInv /\ \A x \in UpVals : isopen(x)' = isopen(x)
    BY <1>0 DEF SafetyInv, isopen
  <2> QED BY <1>0, <1>5, <2>1 DEF ColourInv, Shade, Whites
<1>9. SweepInv'
  BY <1>0, <1>2, <1>3, <1>4
    DEF SafetyInv, SweepInv, Sweeping, isdead, isopen, Ahead, TypeOK, Whites
<1>10. PendingInv' /\ WhiteAtRest'
  BY <1>0, <1>2, <1>3, <1>4
    DEF SafetyInv, PendingInv, WhiteAtRest, MutatorRuns, ControlInv, Shade, TypeOK
<1>11. HeapInv'
  <2> USE DEF NotDead, Live
  <2>1. TablesLive'
    BY <1>0, <1>1, <1>2 DEF HeapInv, TablesLive
  <2>2. UdatasLive'
    BY <1>0, <1>1, <1>2 DEF HeapInv, UdatasLive
  <2>3. CClosuresLive'
    BY <1>0, <1>1, <1>2 DEF HeapInv, CClosuresLive, Closures
  <2>4. LClosuresLive'
    BY <1>0, <1>1, <1>2 DEF HeapInv, LClosuresLive, Closures
  <2>5. StacksLive'
    BY <1>0, <1>1, <1>2 DEF HeapInv, StacksLive
  <2>6. UpvalsLive'
    BY <1>0, <1>1, <1>2 DEF HeapInv, UpvalsLive, Value, isopen
  <2> QED BY <2>1, <2>2, <2>3, <2>4, <2>5, <2>6 DEF HeapInv
<1>12. ASSUME gcstate' = "propagate" PROVE ListInv' /\ MarkedInv' /\ TracedInv'
  <2>0. /\ gcstate = "propagate" /\ ListInv /\ MarkedInv /\ TracedInv /\ stage = 0 /\ stage' = 0
    BY <1>0, <1>12 DEF SafetyInv, MarkInv, MutatorRuns
  <2>1. ListInv'
    <3>1. {x \in Linked : mark[x] = "gray"}' =
             {x \in Linked : mark[x] = "gray"} \cup
             {x \in Linked : mark'[x] = "gray" /\ mark[x] # "gray"}
      BY <1>3, <2>0 DEF Linked, Closures
    <3> QED BY <1>0, <1>3, <2>0, <3>1 DEF ListInv, lists
  <2>2. MarkedInv'
    BY <1>0, <1>3, <2>0 DEF MarkedInv, Marked
  <2>3. /\ \A x \in Objects : mark[x] \in {"gray", "black"} => mark'[x] \in {"gray", "black"}
        /\ mark[o] = "black" => MarkedNow(v)
    BY <1>3, <2>0
  <2>3a. ASSUME NEW x \in Objects, mark'[x] = "black", mark[x] # "black"
        PROVE  /\ x # o /\ (x \in Udatas \/ (x \in UpVals /\ ~isopen(x)))
               /\ x \in Udatas => /\ MarkedNow(metatable[x])
                                  /\ MarkedNow(env[x])
               /\ x \in UpVals => MarkedNow(Value(x))
    BY <1>0, <1>3, <1>5, <2>0, <2>3a DEF Shade, Whites
  <2>4. TablesTraced'
    BY <1>0, <1>1, <2>0, <2>3, <2>3a DEF TracedInv, TablesTraced, Marked
  <2>5. UdatasTraced'
    BY <1>0, <1>1, <2>0, <2>3, <2>3a DEF TracedInv, UdatasTraced, Marked
  <2>6. CClosuresTraced'
    BY <1>0, <1>1, <2>0, <2>3, <2>3a DEF TracedInv, CClosuresTraced, Marked, Closures
  <2>7. LClosuresTraced'
    BY <1>0, <1>1, <2>0, <2>3, <2>3a DEF TracedInv, LClosuresTraced, Marked, Closures
  <2>8. UpvalsTraced'
    BY <1>0, <1>1, <2>0, <2>3, <2>3a
      DEF TracedInv, UpvalsTraced, Marked, Value, isopen, SafetyInv, ColourInv
  <2>9. WeakTraced' /\ StacksTraced'
    BY <2>0 DEF WeakTraced, StacksTraced
  <2> QED BY <2>1, <2>2, <2>4, <2>5, <2>6, <2>7, <2>8, <2>9 DEF TracedInv
<1> QED BY <1>6, <1>7, <1>8, <1>9, <1>10, <1>11, <1>12 DEF SafetyInv, MarkInv

\* lua_setmetatable of a userdata, lua_setfenv, and writes to the upvalues of
\* closures keep the invariant.
LEMMA ForwardBarriers ==
  ASSUME SafetyInv, TypeOK',
     \/ \E o \in Udatas, m \in MetaTables \cup {Nil} : SetMetatable(o, m)
     \/ \E o \in Udatas \cup Closures, t \in Tables : SetEnv(o, t)
     \/ \E c \in CClosures, v \in Values : SetCUpvalue(c, v)
     \/ \E c \in LClosures, v \in Values : SetUpvalue(c, v)
  PROVE  SafetyInv'
<1> USE Kinds, KindsApart
<1>0. /\ TypeOK /\ \A v \in InHand : NotDead(v)
      /\ NotDead(Nil)
  BY InHandLive, KindsAssumption DEF SafetyInv, NotDead
<1>1. ASSUME NEW o \in Udatas, NEW m \in MetaTables \cup {Nil}, SetMetatable(o, m)
      PROVE  SafetyInv'
  <2> USE DEF SetMetatable
  <2>1. Live(o) /\ NotDead(m) /\ o \notin UpVals /\ MutatorRuns
    BY <1>0, <1>1 DEF NotDead
  <2>2. /\ luaC_barrier(o, m) /\ UNCHANGED <<control, grayagain, weak, queues, key, up, machine,
                                             env, val>>
        /\ \A x \in Tables \cup Udatas :
              metatable'[x] = metatable[x] \/ (x = o /\ metatable'[x] = m)
    BY <1>0, <1>1 DEF TypeOK
  <2> QED BY <2>1, <2>2, ForwardStep
<1>2. ASSUME NEW o \in Udatas \cup Closures, NEW t \in Tables, SetEnv(o, t) PROVE SafetyInv'
  <2> USE DEF SetEnv
  <2>1. Live(o) /\ NotDead(t) /\ o \notin UpVals /\ MutatorRuns
    BY <1>0, <1>2 DEF NotDead, Closures
  <2>2. /\ luaC_barrier(o, t) /\ UNCHANGED <<control, grayagain, weak, queues, key, up, machine,
                                             metatable, val>>
        /\ \A x \in Udatas \cup Closures : env'[x] = env[x] \/ (x = o /\ env'[x] = t)
    BY <1>0, <1>2 DEF TypeOK
  <2> QED BY <2>1, <2>2, ForwardStep
<1>3. ASSUME NEW o \in CClosures \cup UpVals, NEW v \in Values, SetVal(o, v), Live(o),
             o \in UpVals => ~isopen(o)
      PROVE SafetyInv'
  <2> USE DEF SetVal
  <2>1. NotDead(v) /\ MutatorRuns
    BY <1>0, <1>3
  <2>2. /\ luaC_barrier(o, v) /\ UNCHANGED <<control, grayagain, weak, queues, key, up, machine,
                                             metatable, env>>
        /\ \A x \in Tables \cup CClosures \cup UpVals : val'[x] = val[x] \/ (x = o /\ val'[x] = v)
    BY <1>0, <1>3 DEF TypeOK
  <2> QED BY <1>3, <2>1, <2>2, ForwardStep DEF Closures
<1>4. ASSUME NEW c \in CClosures, NEW v \in Values, SetCUpvalue(c, v) PROVE SafetyInv'
  BY <1>0, <1>3, <1>4 DEF SetCUpvalue, NotDead
<1>5. ASSUME NEW c \in LClosures, NEW v \in Values, SetUpvalue(c, v) PROVE SafetyInv'
  <2>1. up[c] \in UpVals /\ Live(up[c])
    BY <1>0, <1>5 DEF SetUpvalue, NotDead, SafetyInv, HeapInv, LClosuresLive
  <2> QED BY <1>3, <1>5, <2>1 DEF SetUpvalue
<1> QED BY <1>1, <1>2, <1>4, <1>5

\* References written to a table through luaC_barriert keep the invariant.
LEMMA BackStep ==
  ASSUME SafetyInv, TypeOK', MutatorRuns, NEW t \in Tables, NEW vs, Live(t),
             \A v \in vs : NotDead(v),
         luaC_barriert(t, vs),
         \A x \in Tables : x # t =>
            metatable'[x] = metatable[x] /\ key'[x] = key[x] /\ val'[x] = val[x],
         metatable'[t] \in {metatable[t]} \cup vs,
         key'[t] \in {key[t]} \cup vs, val'[t] \in {val[t]} \cup vs,
         (key'[t] = key[t] /\ val'[t] = val[t]) \/ NotDead(key'[t]),
         \A x \in Udatas : metatable'[x] = metatable[x],
         \A x \in CClosures \cup UpVals : val'[x] = val[x],
         UNCHANGED <<control, gray, weak, queues, env, up, machine>>
  PROVE  SafetyInv'
<1> USE Kinds, KindsApart
<1>0. /\ TypeOK /\ HeapInv /\ currentwhite \in Whites /\ otherwhite' = otherwhite /\ t \in Objects
      /\ otherwhite \in Whites /\ otherwhite # currentwhite
      /\ UNCHANGED <<control, currentwhite, gcstate, stage, full, gray, weak, queues, unswept,
                     tmudata, finalized,
                     env, up, machine, at, stack, running, basicmt>>
  BY OtherWhiteType DEF SafetyInv, TypeOK, otherwhite, control, queues, machine
<1>1. /\ \A x \in Objects : x # t => mark'[x] = mark[x]
      /\ mark'[t] = mark[t] \/ (mark[t] = "black" /\ mark'[t] = "gray")
      /\ mark'[t] = "black" => \A v \in vs \cap Objects : ~iswhite(v)
      /\ mark'[t] # mark[t] => grayagain' = grayagain \cup {t}
      /\ mark'[t] = mark[t] => grayagain' = grayagain
  <2>1. CASE \E v \in vs : NeedsBarrier(t, v)
    <3>1. /\ mark[t] = "black" /\ mark' = [mark EXCEPT ![t] = "gray"]
          /\ grayagain' = grayagain \cup {t}
      BY <2>1 DEF luaC_barriert, NeedsBarrier
    <3>2. mark'[t] = "gray" /\ \A x \in Objects : x # t => mark'[x] = mark[x]
      BY <1>0, <3>1 DEF TypeOK
    <3> QED BY <3>1, <3>2
  <2>2. CASE ~\E v \in vs : NeedsBarrier(t, v)
    <3>1. mark' = mark /\ grayagain' = grayagain
      BY <2>2 DEF luaC_barriert
    <3>2. mark[t] = "black" => \A v \in vs \cap Objects : ~iswhite(v)
      BY <2>2 DEF NeedsBarrier
    <3> QED BY <3>1, <3>2
  <2> QED BY <2>1, <2>2
<1>2. /\ \A x \in Objects : mark'[x] \notin {"free", otherwhite'} <=>
             mark[x] \notin {"free", otherwhite}
      /\ \A x \in Objects : mark'[x] = "free" <=> mark[x] = "free"
      /\ \A x \in Objects : mark'[x] = otherwhite' <=> mark[x] = otherwhite
      /\ \A x \in Objects : mark[x] \in {"gray", "black"} <=> mark'[x] \in {"gray", "black"}
  BY <1>0, <1>1 DEF Whites
<1>3. ControlInv' /\ OpenInv'
  BY <1>0, <1>2 DEF SafetyInv, ControlInv, OpenInv, isopen, TypeOK
<1>4. RootsInv'
  <2>1. Roots' = Roots /\ Roots \subseteq Objects
    BY <1>0, KindsAssumption DEF Roots, TypeOK, Threads
  <2> QED BY <1>0, <1>2, <2>1 DEF SafetyInv, RootsInv, Live
<1>5. ColourInv'
  BY <1>0, <1>1 DEF SafetyInv, ColourInv, isopen
<1>6. SweepInv'
  BY <1>0, <1>2 DEF SafetyInv, SweepInv, Sweeping, isdead, isopen, Ahead, TypeOK
<1>7. PendingInv' /\ WhiteAtRest'
  BY <1>0, <1>1 DEF SafetyInv, PendingInv, WhiteAtRest, TypeOK, Whites
<1>8. HeapInv'
  <2> USE DEF NotDead, Live
  <2>1. TablesLive'
    BY <1>0, <1>2 DEF HeapInv, TablesLive
  <2>2. UdatasLive' /\ CClosuresLive'
    BY <1>0, <1>2 DEF HeapInv, UdatasLive, CClosuresLive
  <2>3. LClosuresLive' /\ StacksLive'
    BY <1>0, <1>2 DEF HeapInv, LClosuresLive, StacksLive
  <2>4. UpvalsLive'
    BY <1>0, <1>2 DEF HeapInv, UpvalsLive, Value, isopen
  <2> QED BY <2>1, <2>2, <2>3, <2>4 DEF HeapInv
<1>9. ASSUME gcstate' = "propagate" PROVE ListInv' /\ MarkedInv' /\ TracedInv'
  <2>0. /\ gcstate = "propagate" /\ ListInv /\ MarkedInv /\ TracedInv /\ stage = 0 /\ stage' = 0
    BY <1>0, <1>9 DEF SafetyInv, MarkInv, MutatorRuns
  <2>1. ListInv'
    <3>2. CASE mark'[t] # mark[t]
      <4>1. t \in Linked /\ mark[t] # "gray" /\ mark'[t] = "gray"
        BY <1>1, <3>2 DEF Linked
      <4>2. {x \in Linked : mark[x] = "gray"}' = {x \in Linked : mark[x] = "gray"} \cup {t}
        BY <1>1, <4>1 DEF Linked, Closures
      <4> QED BY <1>0, <1>1, <2>0, <3>2, <4>1, <4>2 DEF ListInv
    <3>3. CASE mark'[t] = mark[t]
      <4>1. {x \in Linked : mark[x] = "gray"}' = {x \in Linked : mark[x] = "gray"}
        BY <1>1, <3>3 DEF Linked, Closures
      <4> QED BY <1>0, <1>1, <2>0, <3>3, <4>1 DEF ListInv
    <3> QED BY <3>2, <3>3
  <2>2. MarkedInv'
    BY <1>0, <1>2, <2>0 DEF MarkedInv, Marked
  <2>3. mark'[t] = "black" => \A v \in vs : v \in Objects => mark'[v] \in {"gray", "black"}
    BY <1>0, <1>1, <2>0, NoneDead DEF Sweeping, iswhite, NotDead, Live
  <2>4. TablesTraced'
    BY <1>0, <1>1, <1>2, <2>0, <2>3 DEF TracedInv, TablesTraced, Marked
  <2>5. UdatasTraced' /\ CClosuresTraced' /\ LClosuresTraced'
    BY <1>0, <1>1, <1>2, <2>0
      DEF TracedInv, UdatasTraced, CClosuresTraced, LClosuresTraced, Marked
  <2>6. UpvalsTraced'
    BY <1>0, <1>1, <1>2, <2>0 DEF TracedInv, UpvalsTraced, Marked, Value, isopen
  <2>7. WeakTraced' /\ StacksTraced'
    BY <2>0 DEF WeakTraced, StacksTraced
  <2> QED BY <2>1, <2>2, <2>4, <2>5, <2>6, <2>7 DEF TracedInv
<1> QED BY <1>3, <1>4, <1>5, <1>6, <1>7, <1>8, <1>9 DEF SafetyInv, MarkInv

\* Table assignment and lua_setmetatable of a table keep the invariant.
LEMMA BackBarriers ==
  ASSUME SafetyInv, TypeOK',
     \/ \E t \in Tables, k \in KeySet, v \in Values : SetTable(t, k, v)
     \/ \E o \in Tables, m \in MetaTables \cup {Nil} : SetMetatable(o, m)
  PROVE  SafetyInv'
<1> USE Kinds, KindsApart
<1>0. /\ TypeOK /\ \A v \in InHand : NotDead(v)
      /\ NotDead(Nil) /\ NotDead(Plain)
  BY InHandLive, KindsAssumption DEF SafetyInv, NotDead
<1>1. ASSUME NEW t \in Tables, NEW k \in KeySet, NEW v \in Values, SetTable(t, k, v)
      PROVE  SafetyInv'
  <2> USE DEF SetTable
  <2> DEFINE vs == IF key[t] = k THEN {v} ELSE {k, v}
  <2>1. Live(t) /\ NotDead(k) /\ NotDead(v) /\ MutatorRuns
    BY <1>0, <1>1 DEF NotDead
  <2>2. /\ luaC_barriert(t, vs) /\ \A x \in vs : NotDead(x)
        /\ UNCHANGED <<control, gray, weak, queues, env, up, machine, metatable>>
        /\ \A x \in Tables : x # t => key'[x] = key[x] /\ val'[x] = val[x]
        /\ key'[t] = k /\ val'[t] = v /\ key'[t] \in {key[t]} \cup vs /\ v \in vs
        /\ \A x \in CClosures \cup UpVals : val'[x] = val[x]
    BY <1>0, <1>1, <2>1 DEF TypeOK
  <2> HIDE DEF vs
  <2> QED BY <2>1, <2>2, BackStep
<1>2. ASSUME NEW o \in Tables, NEW m \in MetaTables \cup {Nil}, SetMetatable(o, m)
      PROVE  SafetyInv'
  <2> USE DEF SetMetatable
  <2>1. Live(o) /\ NotDead(m) /\ MutatorRuns
    BY <1>0, <1>2 DEF NotDead
  <2>2. /\ luaC_barriert(o, {m}) /\ UNCHANGED <<control, gray, weak, queues, env, up, machine,
                                                key, val>>
        /\ \A x \in Tables \cup Udatas : x # o => metatable'[x] = metatable[x]
        /\ metatable'[o] = m
    BY <1>0, <1>2 DEF TypeOK
  <2> QED BY <2>1, <2>2, BackStep
<1> QED BY <1>1, <1>2

-----------------------------------------------------------------------------
(* Closing upvalues.                                                       *)

\* luaF_close keeps the invariant: luaC_linkupval marks the value of an upvalue
\* it blackens, and a dead upvalue is freed by nobody else.
LEMMA CloseUpvalsSafe ==
  ASSUME SafetyInv, TypeOK', NEW level \in Slots, CloseUpvals(level)
  PROVE  SafetyInv'
<1> USE Kinds, KindsApart
<1> DEFINE open == {uv \in OpenUpvals(running) : at[uv][2] >= level}
           gone == {uv \in open : isdead(uv)}
           caught == {uv \in open : mark[uv] = "gray"}
           S == {Value(uv) : uv \in caught}
           R == ClosedMarked(caught)
<1>0. /\ TypeOK /\ ColourInv /\ SweepInv /\ HeapInv /\ stage = 0
      /\ currentwhite \in Whites /\ otherwhite \in Whites
      /\ otherwhite # currentwhite /\ otherwhite' = otherwhite
      /\ UNCHANGED <<control, currentwhite, gcstate, stage, full, grayagain, weak, queues,
                     unswept, tmudata, finalized,
                     metatable, env, key, up, stack, running, basicmt>>
  BY OtherWhiteType DEF CloseUpvals, MutatorRuns, SafetyInv, TypeOK, otherwhite, control, queues
<1>1. /\ mark' = [o \in Objects |->
                    IF o \in gone THEN "free"
                    ELSE IF o \in caught
                    THEN IF gcstate = "propagate" THEN "black" ELSE currentwhite
                    ELSE IF o \in R THEN Shade(o) ELSE mark[o]]
      /\ gray' = gray \cup (R \cap Linked)
      /\ val' = [o \in Tables \cup CClosures \cup UpVals |->
                   IF o \in gone THEN Nil ELSE IF o \in open THEN Value(o) ELSE val[o]]
      /\ at' = [uv \in UpVals |-> IF uv \in open THEN Nil ELSE at[uv]]
  BY DEF CloseUpvals
<1>2. /\ \A uv \in open : uv \in UpVals /\ isopen(uv)
      /\ \A uv \in open : uv \in gone \/ uv \in caught \/ mark[uv] = currentwhite
      /\ \A uv \in gone : uv \in open /\ mark[uv] = otherwhite /\ Sweeping
      /\ \A uv \in caught : uv \in open /\ mark[uv] = "gray" /\ Value(uv) \in S
  <2>1. \A uv \in open : uv \in UpVals /\ isopen(uv)
    BY DEF OpenUpvals
  <2>2. \A uv \in gone : uv \in open /\ mark[uv] = otherwhite /\ Sweeping
    BY <1>0, <2>1 DEF isdead, SweepInv
  <2>3. \A uv \in open : uv \in gone \/ uv \in caught \/ mark[uv] = currentwhite
    BY <1>0, <2>1 DEF ColourInv, TypeOK, Colours, isdead, otherwhite, Whites
  <2> QED BY <2>1, <2>2, <2>3
<1>3. /\ gcstate # "propagate" => R = {}
      /\ gcstate = "propagate" => Whole(R) /\ (\A v \in S : Met(v, R)) /\ gone = {} /\ ~Sweeping
      /\ \A x \in R : x \in Objects /\ mark[x] = currentwhite /\ x \notin UpVals
  <2>1. CASE gcstate # "propagate"
    BY <2>1 DEF ClosedMarked
  <2>2. CASE gcstate = "propagate"
    <3>1. R = Reached(S) /\ ~Sweeping
      BY <2>2 DEF ClosedMarked, Sweeping
    <3>2. \A v \in S : NotDead(v)
      BY <1>0, <1>2 DEF HeapInv, UpvalsLive, Live, Whites
    <3>3. Whole(Reached(S)) /\ \A v \in S : Met(v, Reached(S))
      BY <3>1, <3>2, ReachedWhole
    <3>4. \A x \in R : x \in Objects /\ mark[x] = currentwhite
      BY <1>0, <3>1, <3>3, NoneDead DEF Whole, iswhite, Whites
    <3>5. \A x \in R : x \notin UpVals
      <4>1. S \cap UpVals = {}
        BY <1>0, <1>2, ValueType, KindsAssumption DEF Values, Objects
      <4> QED BY <1>0, <3>1, <4>1, ReachedNoUpval
    <3> HIDE DEF gone, S, R
    <3> QED BY <1>2, <2>2, <3>1, <3>3, <3>4, <3>5
  <2> QED BY <2>1, <2>2
<1> HIDE DEF open, gone, caught, S, R
<1>4. /\ \A x \in gone : mark'[x] = "free" /\ mark[x] = otherwhite
      /\ \A x \in caught : mark'[x] = IF gcstate = "propagate" THEN "black" ELSE currentwhite
      /\ \A x \in R : mark'[x] = Shade(x) /\ mark[x] = currentwhite
      /\ \A x \in Objects : x \notin gone /\ x \notin caught /\ x \notin R => mark'[x] = mark[x]
  BY <1>0, <1>1, <1>2, <1>3 DEF Whites
<1>5. /\ \A x \in Objects : mark'[x] \notin {"free", otherwhite'} <=>
             mark[x] \notin {"free", otherwhite}
      /\ \A x \in Objects : x \notin UpVals => (mark'[x] = "free" <=> mark[x] = "free")
      /\ \A x \in Objects : mark'[x] = otherwhite' => mark[x] = otherwhite /\ x \notin open
      /\ \A x \in Objects : mark'[x] \in {"gray", "black"} =>
             mark[x] \in {"gray", "black", currentwhite}
  <2>1. ASSUME NEW x \in Objects
        PROVE  /\ mark'[x] \notin {"free", otherwhite'} <=> mark[x] \notin {"free", otherwhite}
               /\ x \notin UpVals => (mark'[x] = "free" <=> mark[x] = "free")
               /\ mark'[x] = otherwhite' => mark[x] = otherwhite /\ x \notin open
               /\ mark'[x] \in {"gray", "black"} => mark[x] \in {"gray", "black", currentwhite}
    <3>1. CASE x \in gone
      BY <1>0, <1>2, <1>4, <3>1 DEF Whites
    <3>2. CASE x \in caught
      BY <1>0, <1>2, <1>4, <3>2 DEF Whites
    <3>3. CASE x \in R
      BY <1>0, <1>2, <1>3, <1>4, <3>3 DEF Shade, Whites
    <3>4. CASE x \notin gone /\ x \notin caught /\ x \notin R
      BY <1>0, <1>2, <1>4, <3>4 DEF Whites
    <3> QED BY <3>1, <3>2, <3>3, <3>4
  <2> QED BY <2>1
<1>6. /\ \A uv \in UpVals : isopen(uv)' <=> isopen(uv) /\ uv \notin open
      /\ \A uv \in UpVals : uv \notin open =>
            at'[uv] = at[uv] /\ val'[uv] = val[uv] /\ Value(uv)' = Value(uv)
      /\ \A uv \in open : uv \notin gone => Value(uv)' = Value(uv)
      /\ \A x \in Tables \cup CClosures : val'[x] = val[x]
  BY <1>0, <1>1, <1>2 DEF isopen, Value
<1>7. ControlInv' /\ OpenInv'
  BY <1>0, <1>1, <1>5, <1>6 DEF SafetyInv, ControlInv, OpenInv, isopen, TypeOK
<1>8. RootsInv'
  <2>1. Roots' = Roots /\ Roots \subseteq Objects
    BY <1>0, KindsAssumption DEF Roots, TypeOK, Threads
  <2> QED BY <1>0, <1>5, <2>1 DEF SafetyInv, RootsInv, Live
<1>9. ColourInv'
  <2>1. \A x \in Threads \cup Strings : mark'[x] # "black"
    BY <1>0, <1>2, <1>4 DEF ColourInv, Shade
  <2>2. \A u \in Udatas : mark'[u] # "gray"
    BY <1>0, <1>2, <1>4 DEF ColourInv, Shade
  <2>3. \A uv \in UpVals : IF isopen(uv)' THEN mark'[uv] \notin {"black", "free"}
                                          ELSE mark'[uv] # "gray"
    BY <1>0, <1>2, <1>3, <1>4, <1>6 DEF ColourInv, Whites
  <2> QED BY <2>1, <2>2, <2>3 DEF ColourInv
<1>10. SweepInv'
  <2>1. \A x \in Objects : x \notin open => (Ahead(x)' <=> Ahead(x))
    BY <1>0, <1>6 DEF Ahead
  <2>2. \A x \in Objects : isdead(x)' => Sweeping' /\ Ahead(x)'
    BY <1>0, <1>5, <2>1 DEF SweepInv, isdead, Sweeping
  <2>3. Sweeping' => \A x \in Objects \ tmudata' : mark'[x] \in {"gray", "black"} => Ahead(x)'
    <3>1. Sweeping => R = {}
      BY <1>3 DEF Sweeping
    <3>2. Sweeping => \A x \in open : mark'[x] \notin {"gray", "black"}
      BY <1>0, <1>2, <1>3, <1>4 DEF Whites, Sweeping
    <3> QED BY <1>0, <1>2, <1>4, <2>1, <3>1, <3>2 DEF SweepInv, Sweeping
  <2>4. \A x \in unswept' : mark'[x] # "free" /\ x \notin tmudata' /\ (x \in UpVals => ~isopen(x)')
    BY <1>0, <1>2, <1>3, <1>4, <1>6 DEF SweepInv, TypeOK, Shade
  <2> QED BY <1>0, <2>2, <2>3, <2>4 DEF SweepInv, Sweeping
<1>11. PendingInv' /\ WhiteAtRest'
  <2>1. \A u \in Udatas : mark'[u] = mark[u] \/ (mark[u] = currentwhite /\ mark'[u] = "black")
    BY <1>2, <1>4 DEF Shade
  <2>2. gcstate # "propagate" => \A x \in Objects : mark'[x] \in {mark[x], "free", currentwhite}
    BY <1>3, <1>4
  <2> QED BY <1>0, <2>1, <2>2 DEF SafetyInv, PendingInv, WhiteAtRest, TypeOK
<1>12. HeapInv'
  <2> USE DEF NotDead, Live
  <2>1. TablesLive' /\ UdatasLive'
    BY <1>0, <1>5, <1>6 DEF HeapInv, TablesLive, UdatasLive
  <2>2. CClosuresLive' /\ StacksLive'
    BY <1>0, <1>5, <1>6 DEF HeapInv, CClosuresLive, StacksLive
  <2>3. LClosuresLive'
    BY <1>0, <1>5 DEF HeapInv, LClosuresLive
  <2>4. UpvalsLive'
    BY <1>0, <1>4, <1>5, <1>6 DEF HeapInv, UpvalsLive
  <2> QED BY <2>1, <2>2, <2>3, <2>4 DEF HeapInv
<1>13. ASSUME gcstate' = "propagate" PROVE ListInv' /\ MarkedInv' /\ TracedInv'
  <2>0. /\ gcstate = "propagate" /\ ListInv /\ MarkedInv /\ TracedInv /\ stage' = 0
        /\ Whole(R) /\ (\A v \in S : Met(v, R)) /\ gone = {}
    BY <1>0, <1>3, <1>13 DEF SafetyInv, MarkInv
  <2>1. /\ \A x \in Objects : mark[x] \in {"gray", "black"} => mark'[x] \in {"gray", "black"}
        /\ \A v : Met(v, R) => (v \in Objects => mark'[v] \in {"gray", "black"})
    BY <1>0, <1>3, <1>4, <2>0 DEF Met, Shade, Whites
  <2>2. ListInv'
    <3>1. {x \in Linked : mark[x] = "gray"}' =
             {x \in Linked : mark[x] = "gray"} \cup (R \cap Linked)
      BY <1>2, <1>4, <2>0 DEF Linked, Closures, Shade
    <3> QED BY <1>0, <1>1, <1>3, <2>0, <3>1 DEF ListInv, Whites
  <2>3. MarkedInv'
    BY <1>0, <2>0, <2>1 DEF MarkedInv, Marked
  <2>4. TablesTraced' /\ CClosuresTraced' /\ LClosuresTraced'
    <3>1. \A x \in Tables \cup Closures : mark'[x] = "black" => mark[x] = "black"
      BY <1>2, <1>4, <2>0 DEF Shade, Closures
    <3> QED BY <1>0, <1>6, <2>0, <2>1, <3>1 DEF TracedInv, TablesTraced, CClosuresTraced,
    LClosuresTraced, Marked, Closures
  <2>5. UdatasTraced'
    BY <1>0, <1>2, <1>4, <2>0, <2>1 DEF TracedInv, UdatasTraced, Marked, Whole
  <2>6. UpvalsTraced'
    <3>1. ASSUME NEW uv \in UpVals, mark'[uv] = "black" PROVE Marked(Value(uv))'
      <4>1. Value(uv)' = Value(uv)
        BY <1>6, <2>0
      <4>2. CASE uv \in caught
        BY <1>2, <2>0, <2>1, <4>1, <4>2 DEF Marked
      <4>3. CASE uv \notin caught
        <5>1. mark[uv] = "black"
          BY <1>3, <1>4, <2>0, <3>1, <4>3
        <5> QED BY <2>0, <2>1, <4>1, <5>1 DEF TracedInv, UpvalsTraced, Marked
      <4> QED BY <4>2, <4>3
    <3> QED BY <2>0, <3>1 DEF UpvalsTraced
  <2>7. WeakTraced' /\ StacksTraced'
    BY <2>0 DEF WeakTraced, StacksTraced
  <2> QED BY <2>2, <2>3, <2>4, <2>5, <2>6, <2>7 DEF TracedInv
<1> QED BY <1>7, <1>8, <1>9, <1>10, <1>11, <1>12, <1>13 DEF SafetyInv, MarkInv
=============================================================================
