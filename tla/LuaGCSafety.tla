----------------------------- MODULE LuaGCSafety -----------------------------
(***************************************************************************)
(* The steps of the collector keep the invariant of LuaGCInv, and the      *)
(* safety theorems of LuaGC follow from it: LuaGC implements Heap, a full  *)
(* collection is complete, and no pending userdata stays a weak value.     *)
(***************************************************************************)
EXTENDS LuaGCMutatorProofs, LuaGCHeap

-----------------------------------------------------------------------------
(* The mark phase, up to atomic().                                         *)

\* A step of the mark phase that only turns objects gray or black, and whose
\* result satisfies the mark-phase part of the invariant, keeps all of it.
LEMMA MarkStep ==
  ASSUME SafetyInv, TypeOK', gcstate \in {"pause", "propagate", "finalize"},
         gcstate' = "propagate", ControlInv',
         \A x \in Objects :
           \/ mark'[x] = mark[x]
           \/ mark[x] = currentwhite /\ mark'[x] = Shade(x)
           \/ x \in Tables \cup Closures /\ mark[x] = "gray" /\ mark'[x] = "black",
         \A t \in Tables : key'[t] \in {key[t], Nil},
         tmudata' \subseteq finalized',
         \A u \in tmudata' : u \in tmudata \/ Live(u),
         \A u \in tmudata' : u \notin tmudata => mark'[u] = "black",
         stage' = 4 => \A u \in tmudata' : mark'[u] = "black",
         ListInv' /\ MarkedInv' /\ TracedInv',
         UNCHANGED <<currentwhite, unswept, metatable, env, val, up, machine>>
  PROVE  SafetyInv'
<1> USE Kinds, KindsApart
<1>0. /\ TypeOK /\ HeapInv /\ currentwhite \in Whites /\ otherwhite' = otherwhite
      /\ otherwhite \in Whites /\ otherwhite # currentwhite
      /\ UNCHANGED <<currentwhite, unswept, metatable, env, val, up, at, stack, running, basicmt>>
      /\ Nil \notin Objects
      /\ \A x \in Objects : mark[x] # otherwhite
  BY OtherWhiteType, KindsAssumption, NoneDead
    DEF SafetyInv, TypeOK, otherwhite, machine, Sweeping, SweepInv, isdead
<1>2. /\ \A x \in Objects : mark'[x] \notin {"free", otherwhite'} <=>
             mark[x] \notin {"free", otherwhite}
      /\ \A x \in Objects : mark'[x] = "free" <=> mark[x] = "free"
      /\ \A x \in Objects : mark'[x] # otherwhite'
  BY <1>0 DEF Shade, Whites
<1>3. OpenInv'
  BY <1>0, <1>2 DEF SafetyInv, OpenInv, isopen, TypeOK
<1>4. RootsInv'
  <2>1. Roots \subseteq Objects /\ \A x \in Roots' : x \in Roots \/ (x \in Udatas /\ Live(x))
    BY <1>0, KindsAssumption DEF Roots, TypeOK, Threads
  <2> QED BY <1>0, <1>2, <2>1 DEF SafetyInv, RootsInv, Live
<1>5. ColourInv'
  BY <1>0 DEF SafetyInv, ColourInv, isopen, Shade, Closures, Whites
<1>6. SweepInv'
  <2>1. unswept = {}
    BY DEF SafetyInv, SweepInv, Sweeping
  <2> QED BY <1>0, <1>2, <2>1 DEF SweepInv, Sweeping, isdead
<1>7. PendingInv' /\ WhiteAtRest'
  BY <1>0 DEF SafetyInv, PendingInv, WhiteAtRest, TypeOK, Shade, Closures, Whites
<1>8. HeapInv'
  <2> USE DEF NotDead, Live
  <2>1. TablesLive'
    BY <1>0, <1>2 DEF HeapInv, TablesLive
  <2>2. UdatasLive' /\ CClosuresLive'
    BY <1>0, <1>2 DEF HeapInv, UdatasLive, CClosuresLive
  <2>3. LClosuresLive' /\ StacksLive'
    BY <1>0, <1>2 DEF HeapInv, LClosuresLive, StacksLive
  <2>4. UpvalsLive'
    BY <1>0, <1>2 DEF HeapInv, UpvalsLive, Value, isopen
  <2> QED BY <2>1, <2>2, <2>3, <2>4 DEF HeapInv
<1> QED BY <1>3, <1>4, <1>5, <1>6, <1>7, <1>8 DEF SafetyInv, MarkInv

\* markroot keeps the invariant.
LEMMA MarkRootSafe ==
  ASSUME SafetyInv, TypeOK', MarkRoot
  PROVE  SafetyInv'
<1> USE Kinds, KindsApart DEF queues, fields, machine
<1> DEFINE S == {MainThread, Registry, basicmt}
           R == Reached(S)
<1>0. /\ TypeOK /\ gcstate \in {"pause", "finalize"} /\ ~Sweeping /\ stage = 0
      /\ gcstate' = "propagate"
      /\ mark' = Painted(R) /\ gray' = R \cap Linked /\ grayagain' = {} /\ weak' = {}
      /\ UNCHANGED <<currentwhite, stage, queues, fields, machine>>
      /\ MainThread \in S /\ Registry \in S /\ basicmt \in S
      /\ full' \in {"no", "mark"}
  BY DEF MarkRoot, Sweeping, SafetyInv, ControlInv
<1>1. \A v \in S : NotDead(v)
  BY RegistryLive DEF SafetyInv, RootsInv, Roots, NotDead
<1>2. Whole(R) /\ \A v \in S : Met(v, R)
  BY <1>0, <1>1, ReachedWhole
<1> HIDE DEF R, S
<1>3. /\ \A o \in Objects : mark'[o] = IF o \in R THEN Shade(o) ELSE mark[o]
      /\ \A o \in R : o \in Objects /\ mark[o] = currentwhite /\ mark'[o] \in {"gray", "black"}
      /\ \A o \in Objects : mark[o] \in {"gray", "black"} => mark'[o] = mark[o]
  BY <1>0, <1>2, PaintFacts
<1>4. \A o \in Objects \ tmudata : mark[o] \in {"free", currentwhite}
  BY <1>0 DEF SafetyInv, WhiteAtRest
<1>5. ListInv'
  <2>1. {x \in Linked : mark[x] = "gray"}' = R \cap Linked
    BY <1>0, <1>3, <1>4 DEF Linked, Closures, Shade, TypeOK, Whites
  <2> QED BY <1>0, <2>1 DEF ListInv
<1>6. MarkedInv'
  BY <1>0, <1>2, <1>3, KindsAssumption DEF MarkedInv, Marked, Met, Threads
<1>7. TracedInv'
  <2>1. \A o \in Objects : mark'[o] = "black" =>
           \/ o \in tmudata
           \/ o \in R /\ (o \in Udatas \/ (o \in UpVals /\ ~isopen(o)))
    BY <1>3, <1>4, <1>0 DEF Shade, Whites, TypeOK
  <2>2. TablesTraced' /\ CClosuresTraced' /\ LClosuresTraced'
    BY <1>0, <2>1 DEF TablesTraced, CClosuresTraced, LClosuresTraced, TypeOK
  <2>3. UdatasTraced'
    BY <1>0, <1>2, <1>3, <2>1 DEF UdatasTraced, Marked, Whole, Met
  <2>4. UpvalsTraced'
    BY <1>0, <1>2, <1>3, <2>1 DEF UpvalsTraced, Marked, Whole, Met, Value, isopen, TypeOK
  <2>5. WeakTraced' /\ StacksTraced'
    BY <1>0 DEF WeakTraced, StacksTraced
  <2> QED BY <2>2, <2>3, <2>4, <2>5 DEF TracedInv
<1>8. \A x \in Objects : mark'[x] = mark[x] \/ (mark[x] = currentwhite /\ mark'[x] = Shade(x))
  BY <1>3
<1>9. ControlInv' /\ tmudata' \subseteq finalized'
  BY <1>0 DEF ControlInv, SafetyInv, PendingInv
<1> QED BY <1>0, <1>5, <1>6, <1>7, <1>8, <1>9, MarkStep

\* propagatemark keeps the invariant: the object it blackens refers to nothing
\* white, and the one it keeps gray is queued again.
LEMMA PropagateSafe ==
  ASSUME SafetyInv, TypeOK', NEW o \in Linked, Propagate(o)
  PROVE  SafetyInv'
<1> USE Kinds, KindsApart DEF control, queues, fields, machine
<1> DEFINE R == Reached(Kids(o))
<1>0. /\ TypeOK /\ gcstate = "propagate" /\ ~Sweeping /\ o \in gray /\ currentwhite \in Whites
      /\ mark' = [Painted(R) EXCEPT ![o] = IF StaysGray(o) THEN "gray" ELSE "black"]
      /\ gray' = (gray \ {o}) \cup (R \cap Linked)
      /\ grayagain' = IF o \in Threads THEN grayagain \cup {o} ELSE grayagain
      /\ weak' = IF o \in Tables /\ StaysGray(o) THEN weak \cup {o} ELSE weak
      /\ UNCHANGED <<currentwhite, gcstate, stage, full, unswept, tmudata, finalized, metatable,
                     env, val, up, at, stack, running, basicmt>>
      /\ ListInv /\ MarkedInv /\ TracedInv
      /\ o \in Objects /\ Nil \notin Objects
  BY KindsAssumption
    DEF Propagate, Unlinked, Sweeping, SafetyInv, MarkInv, TypeOK, Linked, Closures
<1>1. mark[o] = "gray" /\ (o \in Tables \/ o \in Closures \/ o \in Threads) /\ Live(o)
  BY <1>0, OtherWhiteType DEF ListInv, Live, Linked, Whites
<1>2. \A v \in Kids(o) : NotDead(v) /\ v \in Refs(o)
  <2>1. Kids(o) \subseteq Refs(o)
    BY <1>0 DEF Kids, Refs
  <2> QED BY <1>0, <1>1, <2>1, LiveRefs DEF NotDead
<1>3. Whole(R) /\ \A v \in Kids(o) : Met(v, R)
  BY <1>0, <1>2, ReachedWhole
<1> HIDE DEF R
<1>4. /\ o \notin R
      /\ mark'[o] = IF StaysGray(o) THEN "gray" ELSE "black"
      /\ \A x \in Objects : x # o => mark'[x] = IF x \in R THEN Shade(x) ELSE mark[x]
      /\ \A x \in R : x \in Objects /\ mark[x] = currentwhite
      /\ \A x \in R : mark'[x] \in {"gray", "black"}
      /\ \A x \in Objects : mark[x] \in {"gray", "black"} => mark'[x] \in {"gray", "black"}
  <2>1. \A x \in R : x \in Objects /\ mark[x] = currentwhite
    BY <1>0, <1>3, NoneDead DEF Whole, iswhite, Whites
  <2>2. o \notin R
    BY <1>0, <1>1, <2>1 DEF Whites
  <2>3. /\ mark'[o] = IF StaysGray(o) THEN "gray" ELSE "black"
        /\ \A x \in Objects : x # o => mark'[x] = IF x \in R THEN Shade(x) ELSE mark[x]
    BY <1>0 DEF Painted
  <2> QED BY <2>1, <2>2, <2>3 DEF Shade
<1>5. \A x \in Objects :
        \/ mark'[x] = mark[x]
        \/ mark[x] = currentwhite /\ mark'[x] = Shade(x)
        \/ x \in Tables \cup Closures /\ mark[x] = "gray" /\ mark'[x] = "black"
  BY <1>1, <1>4 DEF StaysGray
<1>6. \A v : v \in Kids(o) => (v \in Objects => mark'[v] \in {"gray", "black"})
  BY <1>3, <1>4 DEF Met
<1>7. ListInv'
  <2>1. {x \in Linked : mark[x] = "gray"}' =
          (({x \in Linked : mark[x] = "gray"} \ {o}) \cup (R \cap Linked)) \cup
          (IF StaysGray(o) THEN {o} ELSE {})
    BY <1>0, <1>1, <1>4 DEF Linked, Closures, Shade, Whites
  <2>2. (R \cap Linked) \cap (gray \cup grayagain \cup weak) = {}
    BY <1>0, <1>4 DEF ListInv, Whites
  <2>3. StaysGray(o) <=> o \in Threads \/ (o \in Tables /\ StaysGray(o))
    BY DEF StaysGray
  <2> QED BY <1>0, <1>1, <2>1, <2>2, <2>3 DEF ListInv
<1>8. MarkedInv'
  BY <1>0, <1>4 DEF MarkedInv, Marked
<1>9. TablesTraced'
  <2>1. \A t \in Tables : t # o /\ mark'[t] = "black" => mark[t] = "black"
    BY <1>4 DEF Shade
  <2>2. \A t \in Tables : t # o => key'[t] = key[t]
    BY <1>0 DEF Propagate, TypeOK
  <2>3. CASE o \in Tables /\ ~StaysGray(o)
    <3>1. Kids(o) = Objects \cap ({metatable[o]} \cup
                                  (IF val[o] = Nil THEN {} ELSE {key[o]}) \cup {val[o]})
      BY <2>3 DEF Kids, StaysGray
    <3>2. val[o] = Nil => key'[o] = Nil
      BY <1>0, <2>3 DEF Propagate, TypeOK, StaysGray
    <3>3. val[o] # Nil => key'[o] = key[o]
      BY <1>0, <2>3 DEF Propagate
    <3> QED BY <1>0, <1>4, <1>6, <2>1, <2>2, <3>1, <3>2, <3>3 DEF TracedInv, TablesTraced, Marked
  <2>4. CASE o \in Tables /\ StaysGray(o)
    BY <1>0, <1>4, <2>1, <2>2, <2>4 DEF TracedInv, TablesTraced, Marked
  <2>5. CASE o \notin Tables
    BY <1>0, <1>4, <2>1, <2>2, <2>5 DEF TracedInv, TablesTraced, Marked
  <2> QED BY <2>3, <2>4, <2>5
<1>10. WeakTraced'
  <2>1. o \in Tables /\ metatable[o] \in Objects => mark'[metatable[o]] \in {"gray", "black"}
    BY <1>6 DEF Kids
  <2> QED BY <1>0, <1>4, <2>1 DEF TracedInv, WeakTraced, Marked
<1>11. UdatasTraced'
  <2>1. \A u \in Udatas : mark'[u] = "black" => mark[u] = "black" \/ u \in R
    BY <1>0, <1>1, <1>4 DEF Closures
  <2>2. \A u \in Udatas \cap R : Marked(metatable[u])' /\ Marked(env[u])'
    BY <1>0, <1>3, <1>4 DEF Whole, Met, Marked
  <2> QED BY <1>0, <1>4, <2>1, <2>2 DEF TracedInv, UdatasTraced, Marked
<1>12. CClosuresTraced'
  <2>1. o \in CClosures => Kids(o) = Objects \cap {env[o], val[o]}
    BY DEF Kids, Refs
  <2>2. \A c \in CClosures : c # o /\ mark'[c] = "black" => mark[c] = "black"
    BY <1>4 DEF Shade
  <2> QED BY <1>0, <1>4, <1>6, <2>1, <2>2 DEF TracedInv, CClosuresTraced, Marked
<1>13. LClosuresTraced'
  <2>1. o \in LClosures => Kids(o) = Objects \cap {env[o], up[o]}
    BY DEF Kids, Refs
  <2>2. \A c \in LClosures : c # o /\ mark'[c] = "black" => mark[c] = "black"
    BY <1>4 DEF Shade
  <2> QED BY <1>0, <1>4, <1>6, <2>1, <2>2 DEF TracedInv, LClosuresTraced, Marked
<1>14. UpvalsTraced'
  <2>1. \A uv \in UpVals : mark'[uv] = mark[uv] \/ uv \in R
    BY <1>0, <1>1, <1>4 DEF Closures
  <2>2. \A uv \in UpVals \cap R : Marked(Value(uv))'
    BY <1>0, <1>3, <1>4 DEF Whole, Met, Marked, Value, isopen
  <2>3. \A uv \in UpVals : Value(uv)' = Value(uv)
    BY <1>0 DEF Value, isopen
  <2> QED BY <1>0, <1>4, <2>1, <2>2, <2>3 DEF TracedInv, UpvalsTraced, Marked
<1>15. StacksTraced'
  <2>1. o \in Threads => \A s \in Slots : stack[o][s] \in Objects => stack[o][s] \in Kids(o)
    BY DEF Kids, Refs
  <2>2. \A th \in Threads : mark'[th] = "gray" /\ th \notin gray' =>
           th = o \/ (mark[th] = "gray" /\ th \notin gray)
    BY <1>0, <1>4 DEF Linked
  <2> QED BY <1>0, <1>4, <1>6, <2>1, <2>2 DEF TracedInv, StacksTraced, Marked
<1>16. \A t \in Tables : key'[t] \in {key[t], Nil}
  BY <1>0 DEF Propagate, TypeOK
<1>17. /\ ControlInv' /\ tmudata' \subseteq finalized'
       /\ stage' = 4 => \A u \in tmudata' : mark'[u] = "black"
  <2>1. \A u \in tmudata : u \in Udatas /\ u # o
    BY <1>0, <1>1 DEF TypeOK, Closures
  <2> QED BY <1>0, <1>4, <2>1 DEF ControlInv, SafetyInv, PendingInv, Whites
<1> QED BY <1>0, <1>5, <1>7, <1>8, <1>9, <1>10, <1>11, <1>12, <1>13, <1>14, <1>15, <1>16, <1>17,
MarkStep DEF TracedInv

-----------------------------------------------------------------------------
(* atomic(), up to the flip of the white.                                  *)

\* A part of atomic() that paints a set as Whole describes, pending userdata
\* included, leaves traced every object but those it queued.
LEMMA AtomicPaint ==
  ASSUME SafetyInv, gcstate = "propagate", stage' = stage + 1, NEW R,
         \A x \in R : x \in Objects,
         \A x \in R : mark[x] = currentwhite \/ x \in Udatas,
         \A u \in R \cap Udatas : Met(metatable[u], R) /\ Met(env[u], R),
         \A uv \in R \cap UpVals : Met(Value(uv), R),
         stage = 0 => \A uv \in UpVals : isopen(uv) /\ mark[uv] = "gray" => Met(Value(uv), R),
         \A x \in Objects : mark'[x] = IF x \in R THEN Shade(x) ELSE mark[x],
         tmudata \subseteq tmudata', stage' = 4 => tmudata \subseteq R,
         gray = {}, UNCHANGED <<fields, machine>>
  PROVE  /\ \A x \in Objects : mark[x] \in {"gray", "black"} => mark'[x] = mark[x]
         /\ \A v : Met(v, R) => (v \in Objects => mark'[v] \in {"gray", "black"})
         /\ {x \in Linked : mark'[x] = "gray"} =
               {x \in Linked : mark[x] = "gray"} \cup (R \cap Linked)
         /\ TablesTraced' /\ UdatasTraced' /\ CClosuresTraced' /\ LClosuresTraced' /\ UpvalsTraced'
<1> USE Kinds, KindsApart
<1>0. /\ TypeOK /\ TracedInv /\ ColourInv /\ currentwhite \in Whites
      /\ UNCHANGED <<metatable, env, key, val, up, at, stack, running, basicmt>>
      /\ \A uv \in UpVals : Value(uv)' = Value(uv) /\ isopen(uv)' = isopen(uv)
  BY DEF SafetyInv, MarkInv, TypeOK, fields, machine, Value, isopen
<1>1. \A x \in Objects : mark[x] \in {"gray", "black"} => mark'[x] = mark[x]
  BY <1>0 DEF ColourInv, Shade, Whites
<1>2. \A v : Met(v, R) => (v \in Objects => mark'[v] \in {"gray", "black"})
  BY <1>1 DEF Met, Shade
<1>3. {x \in Linked : mark'[x] = "gray"} = {x \in Linked : mark[x] = "gray"} \cup (R \cap Linked)
  BY <1>0, <1>1 DEF Linked, Closures, Shade
<1>4. TablesTraced' /\ CClosuresTraced' /\ LClosuresTraced'
  <2>1. \A x \in Tables \cup Closures : mark'[x] = "black" => mark[x] = "black"
    BY DEF Shade, Closures
  <2> QED BY <1>0, <1>1, <2>1 DEF TracedInv, TablesTraced, CClosuresTraced, LClosuresTraced,
  Marked, Closures
<1>5. UdatasTraced'
  <2>1. \A u \in Udatas \cap R : Marked(metatable[u])' /\ Marked(env[u])'
    BY <1>0, <1>2 DEF Marked
  <2>2. ASSUME NEW u \in Udatas, u \notin R, mark'[u] = "black", u \in tmudata' => stage' = 4
        PROVE  Marked(metatable[u])' /\ Marked(env[u])'
    BY <1>0, <1>1, <2>2 DEF TracedInv, UdatasTraced, Marked
  <2> QED BY <2>1, <2>2 DEF UdatasTraced
<1>6. UpvalsTraced'
  <2>1. \A uv \in UpVals : Met(Value(uv), R) => Marked(Value(uv))'
    BY <1>0, <1>2 DEF Marked
  <2>2. \A uv \in UpVals : Marked(Value(uv)) => Marked(Value(uv))'
    BY <1>0, <1>1 DEF Marked
  <2>3. ASSUME NEW uv \in UpVals, uv \notin R, mark'[uv] \in {"gray", "black"}
        PROVE  Marked(Value(uv))'
    <3>1. mark[uv] = mark'[uv]
      BY <2>3
    <3>2. stage \in 0..4
      BY <1>0 DEF TypeOK
    <3>3. CASE mark[uv] = "black" \/ stage >= 1
      BY <1>0, <2>2, <2>3, <3>1, <3>3 DEF TracedInv, UpvalsTraced
    <3>4. CASE mark[uv] = "gray" /\ stage = 0
      BY <1>0, <2>1, <3>4 DEF ColourInv
    <3> QED BY <2>3, <3>1, <3>2, <3>3, <3>4
  <2> QED BY <2>1, <2>3 DEF UpvalsTraced
<1> QED BY <1>1, <1>2, <1>3, <1>4, <1>5, <1>6

\* remarkupvals keeps the invariant.
LEMMA RemarkUpvalsSafe ==
  ASSUME SafetyInv, TypeOK', RemarkUpvals
  PROVE  SafetyInv'
<1> DEFINE S == {Value(uv) : uv \in {u \in UpVals : isopen(u) /\ mark[u] = "gray"}}
           R == Reached(S)
<1>0. /\ TypeOK /\ gcstate = "propagate" /\ ~Sweeping /\ currentwhite \in Whites
      /\ stage = 0 /\ stage' = stage + 1 /\ stage' = 1
      /\ mark' = Painted(R) /\ gray' = R \cap Linked /\ gray = {}
      /\ UNCHANGED <<currentwhite, gcstate, full, grayagain, weak, queues, fields, machine>>
      /\ UNCHANGED <<at, running, basicmt, key, tmudata, finalized>>
      /\ ListInv /\ MarkedInv /\ TracedInv
      /\ \A uv \in UpVals : isopen(uv) /\ mark[uv] = "gray" => Value(uv) \in S
  BY DEF RemarkUpvals, AtomicPart, Sweeping, SafetyInv, MarkInv, TypeOK, machine, queues, fields
<1>1. \A v \in S : NotDead(v)
  <2>1. \A uv \in UpVals : mark[uv] = "gray" => Live(uv)
    BY <1>0, OtherWhiteType DEF Live, Whites
  <2> QED BY <2>1 DEF SafetyInv, HeapInv, UpvalsLive
<1>2. Whole(R) /\ \A v \in S : Met(v, R)
  BY <1>0, <1>1, ReachedWhole
<1> HIDE DEF R, S
<1>3. /\ \A x \in Objects : mark'[x] = IF x \in R THEN Shade(x) ELSE mark[x]
      /\ \A x \in R : x \in Objects /\ mark[x] = currentwhite
  BY <1>0, <1>2, PaintFacts
<1>4. /\ \A x \in Objects : mark[x] \in {"gray", "black"} => mark'[x] = mark[x]
      /\ {x \in Linked : mark'[x] = "gray"} = {x \in Linked : mark[x] = "gray"} \cup (R \cap Linked)
      /\ TablesTraced' /\ UdatasTraced' /\ CClosuresTraced' /\ LClosuresTraced' /\ UpvalsTraced'
  BY <1>0, <1>2, <1>3, AtomicPaint DEF Whole
<1>5. ListInv'
  BY <1>0, <1>3, <1>4 DEF ListInv, Whites
<1>6. MarkedInv'
  BY <1>0, <1>4 DEF MarkedInv, Marked
<1>7. TracedInv'
  BY <1>0, <1>4 DEF TracedInv, WeakTraced, StacksTraced
<1>8. /\ ControlInv' /\ tmudata' \subseteq finalized' /\ \A t \in Tables : key'[t] \in {key[t], Nil}
      /\ stage' # 4
  BY <1>0 DEF ControlInv, SafetyInv, PendingInv
<1> QED BY <1>0, <1>3, <1>5, <1>6, <1>7, <1>8, MarkStep DEF queues, fields

\* The second traversal of weak tables, with the running thread and the
\* metatables of basic types, keeps the invariant.
LEMMA RemarkWeakSafe ==
  ASSUME SafetyInv, TypeOK', RemarkWeak
  PROVE  SafetyInv'
<1> DEFINE R == Reached(Remarked)
<1>0. /\ TypeOK /\ gcstate = "propagate" /\ ~Sweeping /\ currentwhite \in Whites
      /\ stage = 1 /\ stage' = stage + 1 /\ stage' = 2
      /\ mark' = Painted(R) /\ gray' = weak \cup (R \cap Linked) /\ weak' = {} /\ gray = {}
      /\ UNCHANGED <<currentwhite, gcstate, full, grayagain, queues, fields, machine>>
      /\ UNCHANGED <<at, running, basicmt, key, tmudata, finalized>>
      /\ ListInv /\ MarkedInv /\ TracedInv
  BY DEF RemarkWeak, AtomicPart, Sweeping, SafetyInv, MarkInv, TypeOK, machine, queues, fields
<1>1. \A v \in Remarked : NotDead(v)
  BY RegistryLive DEF Remarked, NotDead
<1>2. Whole(R) /\ \A v \in Remarked : Met(v, R)
  BY <1>0, <1>1, ReachedWhole
<1> HIDE DEF R
<1>3. /\ \A x \in Objects : mark'[x] = IF x \in R THEN Shade(x) ELSE mark[x]
      /\ \A x \in R : x \in Objects /\ mark[x] = currentwhite
  BY <1>0, <1>2, PaintFacts
<1>4. /\ \A x \in Objects : mark[x] \in {"gray", "black"} => mark'[x] = mark[x]
      /\ \A v : Met(v, R) => (v \in Objects => mark'[v] \in {"gray", "black"})
      /\ {x \in Linked : mark'[x] = "gray"} = {x \in Linked : mark[x] = "gray"} \cup (R \cap Linked)
      /\ TablesTraced' /\ UdatasTraced' /\ CClosuresTraced' /\ LClosuresTraced' /\ UpvalsTraced'
  BY <1>0, <1>2, <1>3, AtomicPaint DEF Whole
<1>5. ListInv'
  BY <1>0, <1>3, <1>4 DEF ListInv, Whites
<1>6. MarkedInv'
  BY <1>0, <1>2, <1>4 DEF MarkedInv, Marked, Remarked
<1>7. TracedInv'
  BY <1>0, <1>4 DEF TracedInv, WeakTraced, StacksTraced
<1>8. /\ ControlInv' /\ tmudata' \subseteq finalized' /\ \A t \in Tables : key'[t] \in {key[t], Nil}
      /\ stage' # 4
  BY <1>0 DEF ControlInv, SafetyInv, PendingInv
<1> QED BY <1>0, <1>3, <1>5, <1>6, <1>7, <1>8, MarkStep DEF queues, fields

\* The traversal of grayagain keeps the invariant: no thread is left gray and
\* unqueued.
LEMMA RemarkGrayAgainSafe ==
  ASSUME SafetyInv, TypeOK', RemarkGrayAgain
  PROVE  SafetyInv'
<1> USE Kinds
<1>0. /\ TypeOK /\ gcstate = "propagate" /\ stage = 2 /\ stage' = 3
      /\ gray' = grayagain /\ grayagain' = {} /\ gray = {}
      /\ UNCHANGED <<mark, currentwhite, gcstate, full, weak, queues, fields, machine>>
      /\ UNCHANGED <<metatable, env, key, val, up, at, stack, running, basicmt, tmudata,
                     finalized>>
      /\ ListInv /\ MarkedInv /\ TracedInv
  BY DEF RemarkGrayAgain, CaughtAgain, AtomicPart, SafetyInv, MarkInv, TypeOK, machine, queues,
     fields
<1>1. ListInv'
  BY <1>0 DEF ListInv
<1>2. MarkedInv'
  BY <1>0 DEF MarkedInv, Marked
<1>3. StacksTraced'
  <2>1. \A th \in Threads : mark'[th] = "gray" => th \in gray'
    BY <1>0, KindsApart DEF ListInv, Linked
  <2> QED BY <2>1 DEF StacksTraced
<1>4. /\ TablesTraced' /\ WeakTraced' /\ UdatasTraced' /\ CClosuresTraced' /\ LClosuresTraced'
  BY <1>0 DEF TracedInv, TablesTraced, WeakTraced, UdatasTraced, CClosuresTraced,
     LClosuresTraced, Marked
<1>5. UpvalsTraced'
  BY <1>0 DEF TracedInv, UpvalsTraced, Value, isopen, Marked
<1>6. /\ ControlInv' /\ tmudata' \subseteq finalized' /\ \A t \in Tables : key'[t] \in {key[t], Nil}
      /\ stage' # 4
  BY <1>0 DEF ControlInv, SafetyInv, PendingInv
<1> QED BY <1>0, <1>1, <1>2, <1>3, <1>4, <1>5, <1>6, MarkStep DEF TracedInv, queues, fields

\* luaC_separateudata and marktmu keep the invariant.
LEMMA SeparateUdataSafe ==
  ASSUME SafetyInv, TypeOK', SeparateUdata
  PROVE  SafetyInv'
<1> USE Kinds, KindsApart
<1> DEFINE K == UNION {Kids(u) : u \in tmudata'}
           R == tmudata' \cup WhiteIn(K)
<1>0. /\ TypeOK /\ gcstate = "propagate" /\ ~Sweeping /\ currentwhite \in Whites
      /\ stage = 3 /\ stage' = stage + 1 /\ stage' = 4
      /\ mark' = Painted(R) /\ gray' = R \cap Linked /\ gray = {}
      /\ UNCHANGED <<currentwhite, gcstate, full, grayagain, weak, unswept, fields, machine>>
      /\ UNCHANGED <<at, running, basicmt, key, metatable, stack>>
      /\ finalized' = finalized \cup ToFinalize
      /\ tmudata' = tmudata \cup {u \in ToFinalize : metatable[u] \in HasGC}
      /\ ListInv /\ MarkedInv /\ TracedInv
  BY DEF SeparateUdata, AtomicPart, Sweeping, SafetyInv, MarkInv, TypeOK, machine, fields
<1>1. \A u \in tmudata' : u \in Udatas /\ mark[u] \in {"black", currentwhite} /\ Live(u)
  <2>1. \A u \in tmudata : u \in Udatas /\ mark[u] \in {"black", currentwhite}
    BY <1>0 DEF SafetyInv, PendingInv, TypeOK
  <2>2. \A u \in ToFinalize : u \in Udatas /\ mark[u] = currentwhite
    BY <1>0, NoneDead DEF ToFinalize, iswhite, Whites
  <2> QED BY <1>0, <2>1, <2>2, OtherWhiteType DEF Live, Whites
<1>2. \A u \in tmudata' : Kids(u) = Objects \cap {metatable[u], env[u]}
  BY <1>1 DEF Kids, Refs
<1>3. \A x \in WhiteIn(K) : x \in Tables /\ mark[x] = currentwhite
  <2>1. \A x \in K : x \in Tables
    BY <1>0, <1>1, <1>2, KindsAssumption DEF TypeOK, TableOrNil
  <2> QED BY <1>0, <2>1, NoneDead DEF WhiteIn, iswhite, Whites
<1>4. \A u \in tmudata' : Met(metatable[u], R) /\ Met(env[u], R)
  <2>1. ASSUME NEW u \in tmudata', NEW v \in {metatable[u], env[u]}, v \in Objects
        PROVE  v \in R \/ mark[v] \in {"gray", "black"}
    <3>1. v \in K
      BY <1>2, <2>1
    <3>2. NotDead(v)
      BY <1>1, <2>1 DEF SafetyInv, HeapInv, UdatasLive
    <3>3. mark[v] \in {"gray", "black", currentwhite}
      BY <1>0, <2>1, <3>2, NoneDead DEF NotDead, Live
    <3> QED BY <1>0, <2>1, <3>1, <3>3 DEF WhiteIn, iswhite
  <2> QED BY <2>1 DEF Met
<1>5. /\ \A x \in R : x \in Objects /\ x \notin UpVals
      /\ \A x \in R : mark[x] = currentwhite \/ x \in Udatas
      /\ \A u \in R \cap Udatas : u \in tmudata'
  BY <1>1, <1>3
<1>6. tmudata \subseteq R /\ tmudata \subseteq tmudata' /\ tmudata' \subseteq R
  BY <1>0
<1> HIDE DEF R
<1>7. \A x \in Objects : mark'[x] = IF x \in R THEN Shade(x) ELSE mark[x]
  BY <1>0 DEF Painted
<1>8. /\ \A x \in Objects : mark[x] \in {"gray", "black"} => mark'[x] = mark[x]
      /\ {x \in Linked : mark'[x] = "gray"} = {x \in Linked : mark[x] = "gray"} \cup (R \cap Linked)
      /\ TablesTraced' /\ UdatasTraced' /\ CClosuresTraced' /\ LClosuresTraced' /\ UpvalsTraced'
  BY <1>0, <1>4, <1>5, <1>6, <1>7, AtomicPaint
<1>9. \A x \in R \cap Linked : mark[x] = currentwhite /\ x \in Tables
  BY <1>3, <1>1 DEF R, Linked, Closures
<1>10. ListInv'
  BY <1>0, <1>8, <1>9 DEF ListInv, Whites
<1>11. MarkedInv'
  BY <1>0, <1>8 DEF MarkedInv, Marked
<1>12. WeakTraced'
  BY <1>0, <1>8 DEF TracedInv, WeakTraced, Marked
<1>13. StacksTraced'
  <2>1. \A th \in Threads : mark'[th] = "gray" => mark[th] = "gray"
    BY <1>3, <1>1, <1>7 DEF R
  <2> QED BY <1>0, <1>8, <2>1 DEF TracedInv, StacksTraced, Marked
<1>14. \A u \in tmudata' : mark'[u] = "black"
  BY <1>1, <1>6, <1>7 DEF Shade
<1>15. /\ ControlInv' /\ tmudata' \subseteq finalized'
       /\ \A t \in Tables : key'[t] \in {key[t], Nil}
  BY <1>0 DEF ControlInv, SafetyInv, PendingInv
<1>16. \A x \in Objects : mark'[x] = mark[x] \/ (mark[x] = currentwhite /\ mark'[x] = Shade(x))
  BY <1>1, <1>5, <1>7 DEF Shade
<1> QED BY <1>0, <1>1, <1>8, <1>10, <1>11, <1>12, <1>13, <1>14, <1>15, <1>16,
MarkStep DEF TracedInv, fields

-----------------------------------------------------------------------------
(* The flip: what is still white is condemned.                             *)

\* A sweep that starts at rootgc has every allocated object ahead of it.
LEMMA RootGCAhead ==
  ASSUME SafetyInv, unswept' = RootGC, UNCHANGED at,
         NEW x \in Objects, x \notin tmudata, mark[x] # "free"
  PROVE  Ahead(x)'
<1>1. x \in UpVals /\ isopen(x) => at[x][1] \in RootGC
  BY Kinds, KindsApart DEF SafetyInv, OpenInv, TypeOK, isopen, RootGC
<1>2. ~(x \in UpVals /\ isopen(x)) => x \in RootGC
  BY DEF RootGC
<1> QED BY <1>1, <1>2 DEF Ahead, isopen

\* cleartable and the flip of the white keep the invariant.  This is where the
\* mark phase pays: what stays white is condemned, and everything that is
\* marked refers to marked objects only.
LEMMA ClearAndFlipSafe ==
  ASSUME SafetyInv, TypeOK', ClearAndFlip
  PROVE  SafetyInv'
<1> USE Kinds, KindsApart
<1> DEFINE kept == WhiteIn(UNION {KeptStrings(t) : t \in weak})
<1>0. /\ TypeOK /\ ColourInv /\ HeapInv
      /\ gcstate = "propagate" /\ stage = 4 /\ gray = {} /\ stage' = 0
      /\ ListInv /\ MarkedInv /\ TracedInv
      /\ mark' = [o \in Objects |-> IF o \in kept THEN "gray" ELSE mark[o]]
      /\ key' = [t \in Tables |-> IF t \in weak /\ Cleared(t) THEN Nil ELSE key[t]]
      /\ val' = [o \in Tables \cup CClosures \cup UpVals |->
                   IF o \in weak /\ Cleared(o) THEN Nil ELSE val[o]]
      /\ currentwhite' = otherwhite /\ unswept' = RootGC /\ gcstate' = "sweepstring"
      /\ UNCHANGED <<full, lists, tmudata, finalized, metatable, env, up, machine>>
      /\ UNCHANGED <<at, stack, running, basicmt>>
      /\ currentwhite \in Whites /\ otherwhite \in Whites
      /\ otherwhite # currentwhite /\ otherwhite' = currentwhite
      /\ \A x \in Objects : mark[x] \in {"free", currentwhite, "gray", "black"}
  BY OtherWhiteType, NoneDead
    DEF ClearAndFlip, SafetyInv, MarkInv, TypeOK, machine, Sweeping, otherwhite, Whites
<1>1. \A x \in kept : x \in Strings /\ mark[x] = currentwhite
  BY <1>0 DEF WhiteIn, KeptStrings, iswhite, Whites
<1>2. \A t \in weak : \A v \in KeptStrings(t) : iswhite(v) => v \in kept
  BY DEF WhiteIn, KeptStrings
<1> HIDE DEF kept
<1>3. /\ \A x \in Objects : mark'[x] = IF x \in kept THEN "gray" ELSE mark[x]
      /\ \A x \in Objects : x \notin Strings => mark'[x] = mark[x]
      /\ \A x \in Objects : mark'[x] = "free" <=> mark[x] = "free"
      /\ \A x \in Objects : mark'[x] \notin {"free", otherwhite'} <=>
             mark'[x] \in {"gray", "black"}
      /\ \A x \in Objects : mark[x] \in {"gray", "black"} => mark'[x] = mark[x]
      /\ \A x \in Objects : mark[x] \in {"gray", "black"} => mark'[x] \notin {"free", otherwhite'}
  BY <1>0, <1>1 DEF Whites, ColourInv
<1>4. \A x \in Objects : Live(x)' <=> mark'[x] \in {"gray", "black"}
  BY <1>3 DEF Live
<1>5. ControlInv'
  BY <1>0 DEF ControlInv, SafetyInv
<1>6. ColourInv'
  BY <1>0, <1>3 DEF ColourInv, isopen
<1>7. OpenInv'
  BY <1>0, <1>3 DEF SafetyInv, OpenInv, isopen, TypeOK
<1>8. PendingInv'
  BY <1>0, <1>3 DEF SafetyInv, PendingInv, TypeOK
<1>9. SweepInv'
  <2>1. \A u \in tmudata : u \in Objects /\ mark'[u] = "black"
    BY <1>0, <1>3 DEF SafetyInv, PendingInv, TypeOK
  <2>2. \A x \in Objects : x \notin tmudata /\ mark[x] # "free" => Ahead(x)'
    BY <1>0, RootGCAhead
  <2>3. \A x \in Objects : isdead(x)' => Sweeping' /\ Ahead(x)'
    BY <1>0, <1>3, <2>1, <2>2 DEF isdead, Sweeping, Whites
  <2>4. \A x \in Objects \ tmudata' : mark'[x] \in {"gray", "black"} => Ahead(x)'
    BY <1>0, <1>3, <2>2
  <2>5. \A x \in unswept' : mark'[x] # "free" /\ x \notin tmudata' /\ (x \in UpVals => ~isopen(x)')
    BY <1>0, <1>3 DEF RootGC, isopen
  <2> QED BY <1>0, <2>3, <2>4, <2>5 DEF SweepInv, Sweeping
<1>10. RootsInv'
  <2>1. \A x \in Roots : x \in Objects /\ mark[x] \in {"gray", "black"}
    <3>1. \A u \in tmudata : u \in Objects /\ mark[u] = "black"
      BY <1>0 DEF SafetyInv, PendingInv, TypeOK
    <3>2. MainThread \in Objects /\ Registry \in Objects /\ running \in Objects
      BY <1>0, KindsAssumption DEF TypeOK, Threads
    <3> QED BY <1>0, <3>1, <3>2 DEF MarkedInv, Marked, Roots
  <2>2. Roots' = Roots
    BY <1>0 DEF Roots
  <2> QED BY <1>3, <1>4, <2>1, <2>2 DEF RootsInv
<1>11. HeapInv'
  <2> USE DEF NotDead, Live
  <2>0. \A x \in Objects : x \notin Strings =>
            (mark'[x] \notin {"free", otherwhite'} <=> mark[x] \in {"gray", "black"})
    BY <1>3
  <2>1. ASSUME NEW t \in Tables, Live(t)'
        PROVE  /\ NotDead(metatable[t])'
               /\ val'[t] # Nil => NotDead(key[t])' /\ NotDead(val[t])'
    <3>1. mark[t] \in {"gray", "black"}
      BY <2>0, <2>1
    <3>2. CASE mark[t] = "black"
      <4>1. t \notin weak
        BY <1>0, <3>2 DEF ListInv
      <4> QED BY <1>0, <1>3, <3>2, <4>1 DEF TracedInv, TablesTraced, Marked
    <3>3. CASE mark[t] = "gray"
      <4>1. t \in weak
        BY <1>0, <3>3 DEF ListInv, Linked
      <4>2. NotDead(metatable[t])'
        BY <1>0, <1>3, <4>1 DEF TracedInv, WeakTraced, Marked
      <4>3. ASSUME val'[t] # Nil PROVE NotDead(key[t])' /\ NotDead(val[t])'
        <5>1. ~Cleared(t) /\ key'[t] = key[t] /\ val'[t] = val[t] /\ val[t] # Nil
          BY <1>0, <4>1, <4>3
        <5>2. \A v \in {key[t], val[t]} : v \in Objects \ Strings => ~iswhite(v)
          BY <5>1 DEF Cleared, iscleared
        <5>3. \A v \in {key[t], val[t]} : v \in Strings /\ iswhite(v) => v \in kept
          BY <1>2, <4>1, <5>1 DEF KeptStrings, Cleared
        <5>4. \A v \in {key[t], val[t]} : v \in Objects => mark[v] \notin {"free", otherwhite}
          BY <1>0, <3>3, <5>1 DEF HeapInv, TablesLive, Whites
        <5>5. \A v \in {key[t], val[t]} : v \in Objects => mark'[v] \in {"gray", "black"}
          BY <1>0, <1>3, <5>2, <5>3, <5>4 DEF iswhite, Whites
        <5> QED BY <1>3, <5>1, <5>5
      <4> QED BY <4>2, <4>3
    <3> QED BY <3>1, <3>2, <3>3
  <2>2. UdatasLive'
    BY <1>0, <1>3, <2>0 DEF ColourInv, TracedInv, UdatasTraced, UdatasLive, Marked
  <2>3. \A c \in Closures : mark[c] # "gray"
    BY <1>0 DEF ListInv, Linked, Closures
  <2>4. CClosuresLive'
    <3>1. \A c \in CClosures : val'[c] = val[c]
      BY <1>0 DEF ListInv
    <3> QED BY <1>0, <1>3, <2>0, <2>3, <3>1 DEF TracedInv, CClosuresTraced, CClosuresLive,
    Marked, Closures
  <2>5. LClosuresLive'
    <3>1. \A c \in LClosures : mark[c] = "black" => up[c] \in UpVals
      BY <1>0 DEF HeapInv, LClosuresLive, Whites
    <3> QED BY <1>0, <1>3, <2>0, <2>3, <3>1 DEF TracedInv, LClosuresTraced, LClosuresLive,
    Marked, Closures
  <2>6. StacksLive'
    BY <1>0, <1>3, <2>0 DEF ColourInv, TracedInv, StacksTraced, StacksLive, Marked
  <2>7. UpvalsLive'
    <3>1. \A uv \in UpVals : Value(uv)' = Value(uv)
      BY <1>0 DEF Value, isopen, ListInv
    <3> QED BY <1>0, <1>3, <2>0, <3>1 DEF TracedInv, UpvalsTraced, UpvalsLive, Marked
  <2> QED BY <2>1, <2>2, <2>4, <2>5, <2>6, <2>7 DEF HeapInv, TablesLive
<1> QED BY <1>0, <1>5, <1>6, <1>7, <1>8, <1>9, <1>10, <1>11 DEF SafetyInv, MarkInv, WhiteAtRest

-----------------------------------------------------------------------------
(* The sweep phases, and the steps between the phases.                     *)

\* sweeplist of one object keeps the invariant: nothing live refers to what it
\* frees, and a live upvalue of a freed thread is closed.
LEMMA SweepStep ==
  ASSUME SafetyInv, TypeOK', Sweeping, NEW o \in unswept, Sweep(o),
         \/ UNCHANGED <<gcstate, full>>
         \/ /\ unswept = {o} /\ gcstate' = "finalize"
            /\ full' = IF full = "mark" THEN "no" ELSE full
  PROVE  SafetyInv'
<1> USE Kinds, KindsApart
<1> DEFINE swept == SweptWith(o)
           dead == {x \in swept : isdead(x)}
<1>0. /\ TypeOK /\ ColourInv /\ SweepInv /\ HeapInv /\ OpenInv /\ ControlInv
      /\ currentwhite \in Whites /\ otherwhite \in Whites
      /\ otherwhite # currentwhite /\ otherwhite' = otherwhite
      /\ UNCHANGED <<currentwhite, stage, tmudata, running, basicmt>>
      /\ o \in Objects /\ mark[o] # "free" /\ o \notin tmudata /\ (o \in UpVals => ~isopen(o))
  BY OtherWhiteType DEF Sweep, SafetyInv, SweepInv, TypeOK, otherwhite, lists
<1>1. /\ mark' = [x \in Objects |-> IF x \in dead THEN "free"
                                    ELSE IF x \in swept THEN currentwhite
                                    ELSE mark[x]]
      /\ val' = [x \in Tables \cup CClosures \cup UpVals |->
                   IF x \in dead THEN Nil ELSE IF x \in ClosedBy(o) THEN Value(x) ELSE val[x]]
      /\ at' = [uv \in UpVals |-> IF uv \in dead \cup ClosedBy(o) THEN Nil ELSE at[uv]]
      /\ key' = [t \in Tables |-> IF t \in dead THEN Nil ELSE key[t]]
      /\ metatable' = [x \in Tables \cup Udatas |-> IF x \in dead THEN Nil ELSE metatable[x]]
      /\ env' = [x \in Udatas \cup Closures |-> IF x \in dead THEN Nil ELSE env[x]]
      /\ up' = [c \in LClosures |-> IF c \in dead THEN Nil ELSE up[c]]
      /\ stack' = [th \in Threads |-> IF th \in dead THEN NoStack ELSE stack[th]]
      /\ finalized' = finalized \ dead
      /\ unswept' = unswept \ {o}
  BY DEF Sweep
<1>2. /\ \A x \in swept : x = o \/ (x \in UpVals /\ isopen(x) /\ at[x][1] = o /\ o \in Threads)
      /\ \A uv \in UpVals : isopen(uv) /\ at[uv][1] = o => uv \in swept
      /\ o \in swept
      /\ \A x \in swept : x \in Objects /\ mark[x] # "free" /\ x \notin tmudata
      /\ \A x \in dead : x \in swept /\ mark[x] = otherwhite
      /\ \A x \in swept : x \notin dead => mark[x] # otherwhite
  <2>1. \A uv \in UpVals : isopen(uv) => at[uv][1] \in Threads /\ mark[uv] # "free"
    BY <1>0 DEF TypeOK, ColourInv, isopen
  <2>2. \A u \in tmudata : u \in Udatas
    BY <1>0 DEF TypeOK
  <2> QED BY <1>0, <2>1, <2>2 DEF SweptWith, OpenUpvals, isdead
<1>3. /\ \A uv \in ClosedBy(o) : uv \in UpVals /\ isopen(uv) /\ uv \in swept /\ uv \notin dead
      /\ isdead(o) =>
            \A uv \in UpVals : isopen(uv) /\ at[uv][1] = o => uv \in dead \/ uv \in ClosedBy(o)
  <2>1. \A uv \in ClosedBy(o) : uv \in UpVals /\ isopen(uv) /\ uv \in swept /\ ~isdead(uv)
    BY <1>2 DEF ClosedBy, OpenUpvals
  <2>2. isdead(o) =>
           \A uv \in UpVals : isopen(uv) /\ at[uv][1] = o => uv \in dead \/ uv \in ClosedBy(o)
    BY <1>0, <1>2 DEF ClosedBy, OpenUpvals, TypeOK, isopen
  <2> QED BY <2>1, <2>2
<1>3a. o \in dead <=> isdead(o)
  BY <1>2
<1> HIDE DEF swept, dead
<1>4. /\ \A x \in dead : mark'[x] = "free"
      /\ \A x \in swept : x \notin dead => mark'[x] = currentwhite
      /\ \A x \in Objects : x \notin swept => mark'[x] = mark[x]
      /\ \A x \in Objects : mark'[x] \notin {"free", otherwhite'} <=>
             mark[x] \notin {"free", otherwhite}
      /\ \A x \in Objects : mark'[x] = otherwhite' => mark[x] = otherwhite /\ x \notin swept
      /\ \A x \in Objects : mark'[x] \in {"gray", "black"} => mark[x] = mark'[x] /\ x \notin swept
      /\ \A x \in Objects : mark[x] # "free" /\ x \notin dead => mark'[x] # "free"
  <2>1. /\ \A x \in dead : mark'[x] = "free"
        /\ \A x \in swept : x \notin dead => mark'[x] = currentwhite
        /\ \A x \in Objects : x \notin swept => mark'[x] = mark[x]
    BY <1>1, <1>2
  <2> QED BY <1>0, <1>2, <2>1 DEF Whites
<1>5. /\ \A uv \in UpVals : at'[uv] = at[uv] \/ (at'[uv] = Nil /\ uv \in swept)
      /\ \A uv \in UpVals : isopen(uv)' =>
            isopen(uv) /\ at'[uv] = at[uv] /\ at[uv][1] \notin dead /\ uv \notin dead
      /\ \A uv \in UpVals : uv \notin swept => isopen(uv)' = isopen(uv)
  <2>1. \A uv \in UpVals : at'[uv] = IF uv \in dead \cup ClosedBy(o) THEN Nil ELSE at[uv]
    BY <1>1
  <2>2. \A uv \in UpVals : isopen(uv) /\ at[uv][1] \in dead => at[uv][1] = o
    BY <1>0, <1>2 DEF TypeOK, isopen
  <2> QED BY <1>2, <1>3, <1>3a, <2>1, <2>2 DEF isopen
<1>6. OpenInv'
  <2>1. \A uv \in UpVals : isopen(uv) => at[uv][1] \in Objects
    BY <1>0 DEF TypeOK, isopen
  <2> QED BY <1>0, <1>4, <1>5, <2>1 DEF OpenInv, isopen
<1>7. ColourInv'
  <2>1. \A x \in Objects :
           mark'[x] = mark[x] \/ (x \in swept /\ mark'[x] \in {"free", "white0", "white1"})
    BY <1>0, <1>2, <1>4 DEF Whites
  <2>2. \A uv \in UpVals : isopen(uv)' => mark'[uv] \notin {"black", "free"}
    BY <1>0, <1>4, <1>5, <2>1 DEF ColourInv
  <2>3. \A uv \in UpVals : ~isopen(uv)' => mark'[uv] # "gray"
    BY <1>0, <1>4, <1>5, <2>1 DEF ColourInv
  <2> QED BY <1>0, <2>1, <2>2, <2>3 DEF ColourInv
<1>8. SweepInv' /\ \A x \in Objects \ tmudata' : mark'[x] \in {"gray", "black"} => Sweeping'
  <2>1. ASSUME NEW x \in Objects, Ahead(x), x \notin swept PROVE Sweeping' /\ Ahead(x)'
    <3>1. x # o /\ (x \in UpVals => isopen(x)' = isopen(x) /\ (isopen(x) => at'[x] = at[x]))
      BY <1>2, <1>5, <2>1
    <3>2. CASE x \in UpVals /\ isopen(x)
      <4>1. at[x][1] \in unswept /\ at[x][1] # o
        BY <1>2, <2>1, <3>2 DEF Ahead
      <4> QED BY <1>1, <3>1, <3>2, <4>1 DEF Ahead, Sweeping
    <3>3. CASE ~(x \in UpVals /\ isopen(x))
      BY <1>1, <2>1, <3>1, <3>3 DEF Ahead, Sweeping
    <3> QED BY <3>2, <3>3
  <2>2. \A x \in Objects : isdead(x)' => Sweeping' /\ Ahead(x)'
    BY <1>0, <1>4, <2>1 DEF SweepInv, isdead
  <2>3. \A x \in Objects \ tmudata' : mark'[x] \in {"gray", "black"} => Sweeping' /\ Ahead(x)'
    BY <1>0, <1>4, <2>1 DEF SweepInv
  <2>4. \A x \in unswept' : mark'[x] # "free" /\ x \notin tmudata' /\ (x \in UpVals => ~isopen(x)')
    <3>1. \A x \in unswept' : x \in unswept /\ x \notin swept /\ x \in Objects
      BY <1>0, <1>1, <1>2 DEF SweepInv, TypeOK
    <3> QED BY <1>0, <1>4, <1>5, <3>1 DEF SweepInv
  <2>5. /\ ~Sweeping' => unswept' = {}
        /\ gcstate' = "sweep" => unswept' \cap Strings = {}
    BY <1>0, <1>1 DEF SweepInv, Sweeping
  <2> QED BY <2>2, <2>3, <2>4, <2>5 DEF SweepInv
<1>9. PendingInv'
  BY <1>0, <1>1, <1>2, <1>4 DEF SafetyInv, PendingInv, TypeOK
<1>10. ControlInv' /\ gcstate' # "propagate" /\ (gcstate' \in {"pause", "finalize"} => ~Sweeping')
  BY <1>0 DEF ControlInv, Sweeping
<1>11. WhiteAtRest'
  <2>1. ASSUME gcstate' \in {"pause", "finalize"}, NEW x \in Objects \ tmudata'
        PROVE  mark'[x] \in {"free", currentwhite'}
    <3>1. ~isdead(x)' /\ mark'[x] \notin {"gray", "black"}
      BY <1>8, <1>10, <2>1 DEF SweepInv
    <3>2. mark'[x] \in Colours /\ currentwhite' \in Whites
      BY <2>1 DEF TypeOK
    <3> QED BY <3>1, <3>2 DEF isdead, otherwhite, Colours, Whites
  <2> QED BY <2>1 DEF WhiteAtRest
<1>12. RootsInv'
  <2>1. Roots' = Roots /\ Roots \subseteq Objects
    BY <1>0, KindsAssumption DEF Roots, TypeOK, Threads
  <2> QED BY <1>0, <1>4, <2>1 DEF SafetyInv, RootsInv, Live
<1>13. HeapInv'
  <2> USE DEF NotDead, Live
  <2>0. \A x \in Objects : mark'[x] \notin {"free", otherwhite'} => x \notin dead
    BY <1>4
  <2>1. TablesLive'
    <3>1. \A t \in Tables : t \notin dead =>
             metatable'[t] = metatable[t] /\ key'[t] = key[t] /\ val'[t] = val[t]
      BY <1>1, <1>3
    <3> QED BY <1>0, <1>4, <2>0, <3>1 DEF HeapInv, TablesLive
  <2>2. UdatasLive'
    BY <1>0, <1>1, <1>4, <2>0 DEF HeapInv, UdatasLive
  <2>3. CClosuresLive'
    <3>1. \A c \in CClosures : c \notin dead => env'[c] = env[c] /\ val'[c] = val[c]
      BY <1>1, <1>3 DEF Closures
    <3> QED BY <1>0, <1>4, <2>0, <3>1 DEF HeapInv, CClosuresLive
  <2>4. LClosuresLive'
    BY <1>0, <1>1, <1>4, <2>0 DEF HeapInv, LClosuresLive, Closures
  <2>5. StacksLive'
    BY <1>0, <1>1, <1>4, <2>0 DEF HeapInv, StacksLive
  <2>6. UpvalsLive'
    <3>1. ASSUME NEW uv \in UpVals, uv \notin dead PROVE Value(uv)' = Value(uv)
      <4>1. CASE uv \in ClosedBy(o)
        BY <1>1, <3>1, <4>1 DEF Value, isopen
      <4>2. CASE uv \notin ClosedBy(o)
        <5>1. at'[uv] = at[uv] /\ val'[uv] = val[uv]
          BY <1>1, <3>1, <4>2
        <5>2. isopen(uv) => at[uv][1] \in Threads /\ at[uv][1] \notin dead
          BY <1>0, <1>5, <5>1 DEF isopen, TypeOK
        <5> QED BY <1>1, <5>1, <5>2 DEF Value, isopen
      <4> QED BY <4>1, <4>2
    <3> QED BY <1>0, <1>4, <2>0, <3>1 DEF HeapInv, UpvalsLive
  <2> QED BY <2>1, <2>2, <2>3, <2>4, <2>5, <2>6 DEF HeapInv
<1> QED BY <1>6, <1>7, <1>8, <1>9, <1>10, <1>11, <1>12, <1>13 DEF SafetyInv, MarkInv

\* Both sweep phases keep the invariant.
LEMMA SweepSafe ==
  ASSUME SafetyInv, TypeOK',
         (\E o \in Strings : SweepString(o)) \/ (\E o \in Objects : SweepObject(o))
  PROVE  SafetyInv'
<1>1. ASSUME NEW o \in Strings, SweepString(o) PROVE SafetyInv'
  BY <1>1, SweepStep DEF SweepString, Sweeping
<1>2. ASSUME NEW o \in Objects, SweepObject(o) PROVE SafetyInv'
  BY <1>2, SweepStep DEF SweepObject, Sweeping
<1> QED BY <1>1, <1>2

\* luaC_fullgc may abandon a mark phase or finish a sweep.
LEMMA FullGCSafe ==
  ASSUME SafetyInv, TypeOK', FullGC
  PROVE  SafetyInv'
<1> USE Kinds DEF machine, fields
<1>0. /\ TypeOK /\ stage = 0 /\ stage' = 0 /\ full' = "sweep"
      /\ UNCHANGED <<mark, currentwhite, stage, tmudata, finalized, fields, machine>>
      /\ UNCHANGED <<mark, at, running, basicmt, metatable, env, key, val, up, stack, otherwhite>>
      /\ gcstate' \in {"sweepstring", "sweep", "finalize"}
      /\ gcstate \in {"pause", "propagate"} => unswept' = RootGC /\ gcstate' = "sweepstring"
      /\ gcstate \notin {"pause", "propagate"} => UNCHANGED <<unswept, gcstate>>
  BY DEF FullGC, MutatorRuns, SafetyInv, SweptFirst, TypeOK, GCStates, otherwhite
<1>1. ControlInv'
  BY <1>0 DEF ControlInv
<1>2. ColourInv' /\ OpenInv' /\ PendingInv' /\ RootsInv'
  BY <1>0 DEF SafetyInv, ColourInv, OpenInv, PendingInv, RootsInv, Roots, isopen, Live
<1>3. SweepInv'
  <2>1. CASE gcstate \in {"pause", "propagate"}
    <3>1. \A x \in Objects : x \notin tmudata /\ mark[x] # "free" => Ahead(x)'
      BY <1>0, <2>1, RootGCAhead
    <3>2. \A x \in Objects : ~isdead(x)
      BY <2>1 DEF SafetyInv, SweepInv, Sweeping
    <3>3. \A x \in unswept' :
             mark'[x] # "free" /\ x \notin tmudata' /\ (x \in UpVals => ~isopen(x)')
      BY <1>0, <2>1 DEF RootGC, isopen
    <3> QED BY <1>0, <2>1, <3>1, <3>2, <3>3 DEF SweepInv, Sweeping, isdead
  <2>2. CASE gcstate \notin {"pause", "propagate"}
    BY <1>0, <2>2 DEF SafetyInv, SweepInv, Sweeping, isdead, isopen, Ahead
  <2> QED BY <2>1, <2>2
<1>4. HeapInv'
  BY <1>0 DEF SafetyInv, HeapInv, TablesLive, UdatasLive, CClosuresLive, LClosuresLive,
     UpvalsLive,
     StacksLive, NotDead, Live, Value, isopen
<1>5. WhiteAtRest' /\ gcstate' # "propagate"
  BY <1>0 DEF SafetyInv, WhiteAtRest
<1> QED BY <1>1, <1>2, <1>3, <1>4, <1>5 DEF SafetyInv, MarkInv

\* The phase changes that touch no object keep the invariant.
LEMMA PhaseEnds ==
  ASSUME SafetyInv, TypeOK', EndSweepStrings \/ EndCycle
  PROVE  SafetyInv'
<1>0. /\ UNCHANGED <<mark, currentwhite, stage, full, lists, queues, fields, machine>>
      /\ UNCHANGED <<unswept, tmudata, finalized, metatable, env, key, val, up, at, stack,
                     running, basicmt, otherwhite>>
      /\ \/ gcstate = "sweepstring" /\ gcstate' = "sweep" /\ unswept \cap Strings = {}
         \/ gcstate = "finalize" /\ gcstate' = "pause" /\ full = "no" /\ stage = 0
  BY DEF EndSweepStrings, EndCycle, MutatorRuns, queues, fields, machine, otherwhite
<1>1. ControlInv'
  BY <1>0 DEF SafetyInv, ControlInv
<1>2. ColourInv' /\ OpenInv' /\ PendingInv' /\ RootsInv'
  BY <1>0 DEF SafetyInv, ColourInv, OpenInv, PendingInv, RootsInv, Roots, isopen, Live
<1>3. SweepInv'
  BY <1>0 DEF SafetyInv, SweepInv, Sweeping, isdead, isopen, Ahead
<1>4. HeapInv'
  BY <1>0 DEF SafetyInv, HeapInv, TablesLive, UdatasLive, CClosuresLive, LClosuresLive,
     UpvalsLive,
     StacksLive, NotDead, Live, Value, isopen
<1>5. WhiteAtRest' /\ gcstate' # "propagate"
  BY <1>0 DEF SafetyInv, WhiteAtRest
<1> QED BY <1>1, <1>2, <1>3, <1>4, <1>5 DEF SafetyInv, MarkInv

\* GCTM keeps the invariant: the userdata is live when its finalizer gets it.
LEMMA GCTMSafe ==
  ASSUME SafetyInv, TypeOK', NEW u \in Udatas, NEW s \in Slots, GCTM(u, s)
  PROVE  SafetyInv'
<1> USE Kinds, KindsApart
<1>0. /\ TypeOK /\ gcstate = "finalize" /\ gcstate' = "finalize" /\ u \in tmudata
      /\ stage = 0 /\ stage' = 0 /\ full' = full /\ full = "no"
      /\ tmudata' = tmudata \ {u} /\ mark' = [mark EXCEPT ![u] = currentwhite]
      /\ UNCHANGED <<control, lists, unswept, finalized, fields, at, running, basicmt>>
      /\ UNCHANGED <<currentwhite, metatable, env, key, val, up, otherwhite>>
      /\ currentwhite \in Whites /\ otherwhite \in Whites /\ otherwhite # currentwhite
      /\ mark[u] \in {"black", currentwhite}
  BY OtherWhiteType
    DEF GCTM, MutatorRuns, makewhite, SafetyInv, PendingInv, TypeOK, control, fields, otherwhite
<1>1. /\ mark'[u] = currentwhite /\ \A x \in Objects : x # u => mark'[x] = mark[x]
      /\ \A x \in Objects : mark'[x] \notin {"free", otherwhite'} <=>
             mark[x] \notin {"free", otherwhite}
      /\ \A x \in Objects : mark'[x] = "free" <=> mark[x] = "free"
  BY <1>0 DEF TypeOK, Whites
<1>2. \A th \in Threads, k \in Slots : stack'[th][k] = stack[th][k] \/ stack'[th][k] = u
  BY <1>0 DEF GCTM, TypeOK
<1>3. NotDead(u)' /\ u \in Objects
  BY <1>0, <1>1 DEF NotDead, Live, Whites
<1>4. ControlInv' /\ OpenInv'
  BY <1>0, <1>1 DEF SafetyInv, ControlInv, OpenInv, isopen, TypeOK
<1>5. ColourInv'
  BY <1>0, <1>1 DEF SafetyInv, ColourInv, isopen, Whites
<1>6. SweepInv'
  BY <1>0, <1>1 DEF SafetyInv, SweepInv, Sweeping, isdead
<1>7. PendingInv' /\ WhiteAtRest'
  BY <1>0, <1>1 DEF SafetyInv, PendingInv, WhiteAtRest, TypeOK
<1>8. RootsInv'
  <2>1. Roots' \subseteq Roots /\ Roots \subseteq Objects
    BY <1>0, KindsAssumption DEF Roots, TypeOK, Threads
  <2> QED BY <1>1, <2>1 DEF SafetyInv, RootsInv, Live
<1>9. HeapInv'
  <2> USE DEF NotDead, Live
  <2>1. TablesLive' /\ UdatasLive'
    BY <1>0, <1>1 DEF SafetyInv, HeapInv, TablesLive, UdatasLive
  <2>2. CClosuresLive' /\ LClosuresLive'
    BY <1>0, <1>1 DEF SafetyInv, HeapInv, CClosuresLive, LClosuresLive
  <2>3. StacksLive'
    BY <1>0, <1>1, <1>2, <1>3 DEF SafetyInv, HeapInv, StacksLive
  <2>4. UpvalsLive'
    <3>1. ASSUME NEW uv \in UpVals, Live(uv)' PROVE NotDead(Value(uv))'
      <4>1. Live(uv) /\ NotDead(Value(uv))
        BY <1>1, <3>1 DEF SafetyInv, HeapInv, UpvalsLive
      <4>2. Value(uv)' = Value(uv) \/ Value(uv)' = u
        BY <1>0, <1>2 DEF Value, isopen, TypeOK
      <4> QED BY <1>1, <1>3, <4>1, <4>2
    <3> QED BY <3>1 DEF UpvalsLive
  <2> QED BY <2>1, <2>2, <2>3, <2>4 DEF HeapInv
<1> QED BY <1>0, <1>4, <1>5, <1>6, <1>7, <1>8, <1>9 DEF SafetyInv, MarkInv

-----------------------------------------------------------------------------
(* The theorems.                                                           *)

\* The state after f_luaopen satisfies the invariant.
LEMMA InitSafe == Init => SafetyInv
<1> SUFFICES ASSUME Init PROVE SafetyInv
  OBVIOUS
<1> USE Kinds, KindsApart, KindsAssumption
<1>0. TypeOK /\ \A uv \in UpVals : ~isopen(uv)
  BY InitType DEF Init, isopen
<1>1. MainThread \in Objects /\ Registry \in Objects /\ basicmt = Nil /\ running = MainThread
  BY DEF Init, Threads
<1>2. \A o \in Objects : mark[o] = IF o \in {MainThread, Registry} THEN "white0" ELSE "free"
  BY DEF Init
<1>3. ControlInv /\ ColourInv /\ OpenInv /\ PendingInv /\ WhiteAtRest /\ MarkInv
  BY <1>0, <1>1, <1>2
    DEF Init, ControlInv, ColourInv, OpenInv, PendingInv, WhiteAtRest, MarkInv, Threads
<1>4. SweepInv /\ RootsInv
  BY <1>0, <1>1, <1>2 DEF Init, SweepInv, RootsInv, Roots, Sweeping, isdead, Live, otherwhite
<1>5. HeapInv
  BY <1>0, <1>1, <1>2
    DEF Init, HeapInv, TablesLive, UdatasLive, CClosuresLive, LClosuresLive, UpvalsLive,
     StacksLive, NotDead, Live, NoStack, Threads
<1> QED BY <1>0, <1>3, <1>4, <1>5 DEF SafetyInv

\* Every step of the collector keeps the invariant.
LEMMA CollectorSafe == SafetyInv /\ TypeOK' /\ (singlestep \/ FullGC) => SafetyInv'
<1> SUFFICES ASSUME SafetyInv, TypeOK', singlestep \/ FullGC PROVE SafetyInv'
  OBVIOUS
<1>1. CASE MarkRoot
  BY <1>1, MarkRootSafe
<1>2. CASE \E o \in Linked : Propagate(o)
  BY <1>2, PropagateSafe
<1>3. CASE RemarkUpvals \/ RemarkWeak \/ RemarkGrayAgain \/ SeparateUdata
  BY <1>3, RemarkUpvalsSafe, RemarkWeakSafe, RemarkGrayAgainSafe, SeparateUdataSafe
<1>4. CASE ClearAndFlip
  BY <1>4, ClearAndFlipSafe
<1>5. CASE (\E o \in Strings : SweepString(o)) \/ (\E o \in Objects : SweepObject(o))
  BY <1>5, SweepSafe
<1>6. CASE EndSweepStrings \/ EndCycle
  BY <1>6, PhaseEnds
<1>7. CASE \E u \in Udatas, s \in Slots : GCTM(u, s)
  BY <1>7, GCTMSafe
<1>8. CASE FullGC
  BY <1>8, FullGCSafe
<1> QED BY <1>1, <1>2, <1>3, <1>4, <1>5, <1>6, <1>7, <1>8 DEF singlestep

\* Every operation of the program keeps the invariant.
LEMMA MutatorSafe == SafetyInv /\ TypeOK' /\ Mutator => SafetyInv'
<1> SUFFICES ASSUME SafetyInv, TypeOK', Mutator PROVE SafetyInv'
  OBVIOUS
<1>1. CASE \E o \in Tables \cup Udatas, m \in MetaTables \cup {Nil} : SetMetatable(o, m)
  BY <1>1, ForwardBarriers, BackBarriers
<1>2. CASE \E level \in Slots : CloseUpvals(level)
  BY <1>2, CloseUpvalsSafe
<1> QED BY <1>1, <1>2, StackOnly, Allocations, ForwardBarriers, BackBarriers DEF Mutator

\* The invariant holds in every reachable state of the collector and the
\* program, for all sets of objects, stack sizes and metatables.
THEOREM SafetyInvariant == Spec => []SafetyInv
<1>1. SafetyInv /\ [Next]_vars => SafetyInv'
  <2> SUFFICES ASSUME SafetyInv, [Next]_vars PROVE SafetyInv'
    OBVIOUS
  <2>1. TypeOK
    BY DEF SafetyInv
  <2>2. CASE singlestep \/ FullGC
    BY <2>1, <2>2, CollectorType, CollectorSafe
  <2>3. CASE Mutator
    BY <2>1, <2>3, MutatorType, MutatorSafe
  <2>4. CASE UNCHANGED vars
    <3> USE <2>4 DEF vars, control, lists, queues, fields, machine
    <3>1. /\ TypeOK' /\ ControlInv' /\ ColourInv' /\ OpenInv'
          /\ PendingInv' /\ RootsInv' /\ WhiteAtRest' /\ SweepInv'
      BY DEF SafetyInv, TypeOK, ControlInv, ColourInv, OpenInv, PendingInv, RootsInv, Roots,
         WhiteAtRest,
         SweepInv, isopen, Live, otherwhite, isdead, Ahead, Sweeping
    <3>2. HeapInv'
      BY DEF SafetyInv, HeapInv, TablesLive, UdatasLive, CClosuresLive, LClosuresLive, UpvalsLive,
         StacksLive, NotDead, Live, otherwhite, Value, isopen
    <3>3. MarkInv'
      BY DEF SafetyInv, MarkInv, ListInv, MarkedInv, TracedInv, TablesTraced, WeakTraced,
         UdatasTraced,
         CClosuresTraced, LClosuresTraced, UpvalsTraced, StacksTraced, Marked, Value, isopen
    <3> QED BY <3>1, <3>2, <3>3 DEF SafetyInv
  <2> QED BY <2>2, <2>3, <2>4 DEF Next
<1> QED BY InitSafe, <1>1, PTL DEF Spec

\* Nothing reachable is freed or condemned: what sweeplist frees, no live
\* object and no root refers to.
THEOREM MemorySafe == Spec => []NoDangling
<1>1. SafetyInv => NoDangling
  BY LiveRefs DEF NoDangling, SafetyInv, RootsInv
<1> QED BY SafetyInvariant, <1>1, PTL

\* No operation of the program makes a black object refer to a white one
\* during a mark phase: the barriers suffice.
THEOREM BarriersKeepTriColour == Spec => []TriColour
<1>1. SafetyInv => TriColour
  <2> SUFFICES ASSUME SafetyInv, gcstate = "propagate", NEW o \in Objects, o \notin tmudata,
  mark[o] = "black"
               PROVE  \A x \in Refs(o) : ~iswhite(x)
    BY DEF TriColour
  <2> USE Kinds, KindsApart
  <2>0. TracedInv /\ ColourInv /\ \A x \in Objects : mark[x] \in {"gray", "black"} => ~iswhite(x)
    BY DEF SafetyInv, MarkInv, iswhite, Whites
  <2>1. CASE o \in Tables
    BY <2>0, <2>1 DEF TracedInv, TablesTraced, Marked, Refs
  <2>2. CASE o \in Udatas
    BY <2>0, <2>2 DEF TracedInv, UdatasTraced, Marked, Refs
  <2>3. CASE o \in CClosures
    BY <2>0, <2>3 DEF TracedInv, CClosuresTraced, Marked, Refs
  <2>4. CASE o \in LClosures
    BY <2>0, <2>4 DEF TracedInv, LClosuresTraced, Marked, Refs
  <2>5. CASE o \in UpVals
    BY <2>0, <2>5 DEF TracedInv, UpvalsTraced, Marked, Refs
  <2>6. CASE o \in Threads \cup Strings
    BY <2>0, <2>6 DEF ColourInv
  <2> QED BY <2>1, <2>2, <2>3, <2>4, <2>5, <2>6 DEF Objects, FirstClass, Closures
<1> QED BY SafetyInvariant, <1>1, PTL

\* The gclist field is never used for two lists, and no gray object is in none.
THEOREM ListsDisjoint == Spec => []OneList
<1>1. SafetyInv => OneList
  BY DEF OneList, SafetyInv, MarkInv, ListInv
<1> QED BY SafetyInvariant, <1>1, PTL

\* A cycle ends with every object of the current white, the pending userdata
\* excepted.
THEOREM RestIsWhite == Spec => []WhiteAtRest
<1>1. SafetyInv => WhiteAtRest
  BY DEF SafetyInv
<1> QED BY SafetyInvariant, <1>1, PTL

\* No condemned object outlives its sweep.
THEOREM DeadIsAhead == Spec => []DeadAhead
<1>1. SafetyInv => DeadAhead
  BY DEF DeadAhead, SafetyInv, SweepInv, Ahead
<1> QED BY SafetyInvariant, <1>1, PTL

\* An open upvalue always points into a stack that is still allocated, alone
\* in its slot.
THEOREM UpvalsInPlace == Spec => []OpenUpvalsInPlace
<1>1. SafetyInv => OpenUpvalsInPlace
  BY Kinds DEF OpenUpvalsInPlace, SafetyInv, OpenInv, ColourInv, TypeOK, Colours, Whites
<1> QED BY SafetyInvariant, <1>1, PTL

-----------------------------------------------------------------------------
(* What is kept alive.                                                     *)

\* Kept(S, C) lies inside every set that contains S and is closed.
LEMMA KeptInside ==
  ASSUME NEW S, NEW C, NEW T \in SUBSET LiveObjects, S \subseteq T,
         \A x \in T \ C : Kids(x) \subseteq T
  PROVE  H!Kept(S, C) \subseteq T
BY DEF H!Kept, LiveObjects, HeapKids

\* A live object keeps live objects alive.
LEMMA LiveKidsLive ==
  ASSUME SafetyInv, NEW x \in Objects, Live(x)
  PROVE  \A y \in Kids(x) : y \in Refs(x) /\ y \in Objects /\ Live(y)
<1>1. Kids(x) \subseteq Refs(x)
  BY KindsAssumption DEF Kids, Refs
<1>2. \A y \in Refs(x) : y \in Objects /\ Live(y)
  BY LiveRefs
<1> QED BY <1>1, <1>2

\* Everything needed is live, roots and pending userdata are needed, and so is
\* what a needed object keeps alive.
LEMMA NeededClosed ==
  ASSUME SafetyInv
  PROVE  /\ H!Needed \subseteq LiveObjects
         /\ Held \cup tmudata \subseteq H!Needed
         /\ \A x \in H!Needed : Kids(x) \subseteq H!Needed
<1>1. Held \cup tmudata \subseteq LiveObjects
  BY KindsAssumption, Kinds
    DEF SafetyInv, RootsInv, Roots, Held, LiveObjects, TypeOK, Threads, Objects, FirstClass
<1>2. H!Needed \subseteq LiveObjects /\ Held \cup tmudata \subseteq H!Needed
  BY <1>1 DEF H!Needed, H!Kept
<1>3. ASSUME NEW x \in H!Needed, NEW y \in Kids(x)
      PROVE  y \in H!Needed
  <2>1. x \in Objects /\ Live(x) /\ y \in LiveObjects
    BY <1>2, <1>3, LiveKidsLive DEF LiveObjects
  <2>2. ASSUME NEW T \in SUBSET LiveObjects, Held \cup tmudata \subseteq T,
               \A z \in T : HeapKids[z] \subseteq T
        PROVE  y \in T
    BY <1>3, <2>1, <2>2 DEF H!Needed, H!Kept, HeapKids
  <2> QED BY <2>1, <2>2 DEF H!Needed, H!Kept
<1> QED BY <1>2, <1>3

\* Nothing ceases to be needed while objects and references stay the same.
LEMMA NeededStays ==
  ASSUME \A x \in Objects : Live(x)' <=> Live(x), \A x \in Objects : Kids(x)' = Kids(x),
         UNCHANGED Held, tmudata \subseteq tmudata'
  PROVE  H!Needed \subseteq H!Needed'
<1>1. LiveObjects' = LiveObjects /\ HeapKids' = HeapKids
  BY DEF LiveObjects, HeapKids
<1> QED BY <1>1 DEF H!Needed, H!Kept

\* What reallymarkobject reaches from objects that are needed is needed.
LEMMA ReachedNeeded ==
  ASSUME SafetyInv, NEW S, S \cap Objects \subseteq H!Needed
  PROVE  Reached(S) \subseteq H!Needed
<1> DEFINE direct == WhiteIn(S)
           values == direct \cup WhiteIn(UNION {Kids(uv) : uv \in direct \cap UpVals})
<1>1. \A X : WhiteIn(X) \subseteq X \cap Objects
  BY DEF WhiteIn
<1>2. direct \subseteq H!Needed
  BY <1>1
<1>3. values \subseteq H!Needed
  BY <1>1, <1>2, NeededClosed
<1> HIDE DEF values
<1>4. WhiteIn(UNION {Kids(u) : u \in values \cap Udatas}) \subseteq H!Needed
  BY <1>1, <1>3, NeededClosed
<1>5. Reached(S) = values \cup WhiteIn(UNION {Kids(u) : u \in values \cap Udatas})
  BY DEF Reached, values
<1> QED BY <1>3, <1>4, <1>5

-----------------------------------------------------------------------------
(* The mark phase changes nothing that the program can see.                *)

\* A step that keeps the live objects, what they refer to, the roots and the
\* queue is invisible.
LEMMA Invisible ==
  ASSUME TypeOK, TypeOK', \A x \in Objects : Live(x)' <=> Live(x),
         \A x \in Objects : Live(x) => Refs(x)' = Refs(x) /\ Kids(x)' = Kids(x),
         \A t \in Tables : Live(t) => metatable'[t] = metatable[t],
         \A u \in Udatas : Live(u) => (u \in finalized' <=> u \in finalized),
         UNCHANGED <<running, basicmt, tmudata>>
  PROVE  UNCHANGED H!vars
<1>1. LiveObjects' = LiveObjects
  BY DEF LiveObjects
<1>2. HeapRefs' = HeapRefs /\ HeapKids' = HeapKids
  BY DEF HeapRefs, HeapKids
<1>3. WeakTables' = WeakTables
  BY Kinds DEF WeakTables, weakkey, weakvalue
<1>4. Held' = Held
  BY DEF Held
<1>5. (finalized \cap LiveObjects)' = finalized \cap LiveObjects
  BY <1>1, Kinds DEF TypeOK, LiveObjects
<1> QED BY <1>1, <1>2, <1>3, <1>4, <1>5 DEF H!vars

\* Refs and Kids of an object depend on its fields only, and not on the key of
\* a table whose value is nil.
LEMMA SameFields ==
  ASSUME NEW x \in Objects, KindsAssumption,
         x \in Tables => /\ metatable'[x] = metatable[x] /\ val'[x] = val[x]
                         /\ key'[x] = key[x] \/ val[x] = Nil,
         x \in Udatas => metatable'[x] = metatable[x] /\ env'[x] = env[x],
         x \in CClosures => env'[x] = env[x] /\ val'[x] = val[x],
         x \in LClosures => env'[x] = env[x] /\ up'[x] = up[x],
         x \in UpVals => Value(x)' = Value(x),
         x \in Threads => stack'[x] = stack[x]
  PROVE  Refs(x)' = Refs(x) /\ Kids(x)' = Kids(x)
<1>1. Refs(x)' = Refs(x)
  BY DEF Refs
<1>2. CASE x \in Tables
  <2>1. /\ metatable'[x] = metatable[x] /\ val'[x] = val[x]
        /\ key'[x] = key[x] \/ val[x] = Nil
    BY <1>2
  <2>2. Kids(x) = Objects \cap ({metatable[x]} \cup
           (IF val[x] = Nil \/ metatable[x] \in WeakKey THEN {} ELSE {key[x]}) \cup
           (IF metatable[x] \in WeakValue THEN {} ELSE {val[x]}))
    BY <1>2 DEF Kids, weakkey, weakvalue
  <2>3. Kids(x)' = Objects \cap ({metatable'[x]} \cup
           (IF val'[x] = Nil \/ metatable'[x] \in WeakKey THEN {} ELSE {key'[x]}) \cup
           (IF metatable'[x] \in WeakValue THEN {} ELSE {val'[x]}))
    BY <1>2 DEF Kids, weakkey, weakvalue
  <2> QED BY <1>1, <2>1, <2>2, <2>3
<1>3. CASE x \notin Tables
  BY <1>1, <1>3 DEF Kids
<1> QED BY <1>1, <1>2, <1>3

\* What reallymarkobject turns gray or black was white.
LEMMA ReachedWhite == \A S : \A x \in Reached(S) : x \in Objects /\ mark[x] \in Whites
<1>1. \A X : \A x \in WhiteIn(X) : x \in Objects /\ mark[x] \in Whites
  BY DEF WhiteIn, iswhite
<1> QED BY <1>1 DEF Reached

Marking == \/ MarkRoot
           \/ \E o \in Linked : Propagate(o)
           \/ RemarkUpvals \/ RemarkWeak \/ RemarkGrayAgain
           \/ SeparateUdata

\* A step of the mark phase turns allocated objects gray or black, never back,
\* and leaves every reference where it was.
LEMMA MarkingFacts ==
  ASSUME SafetyInv, Marking
  PROVE  /\ \A x \in Objects : mark'[x] = mark[x] \/
              (mark[x] # "free" /\ mark'[x] \in {"gray", "black"})
         /\ \A x \in Objects : mark[x] \in {"gray", "black"} => mark'[x] \in {"gray", "black"}
         /\ \A x \in Objects : Live(x)' <=> Live(x)
         /\ \A x \in Objects : Refs(x)' = Refs(x) /\ Kids(x)' = Kids(x)
         /\ UNCHANGED <<currentwhite, metatable, env, val, up, at, stack, running, basicmt>>
<1> USE Kinds, KindsApart DEF queues, fields, machine, control
<1>0. /\ TypeOK /\ ~Sweeping /\ currentwhite \in Whites
      /\ UNCHANGED <<currentwhite, metatable, env, val, up, at, stack, running, basicmt>>
  BY DEF Marking, MarkRoot, Propagate, RemarkUpvals, RemarkWeak, RemarkGrayAgain, SeparateUdata,
     AtomicPart, SafetyInv, ControlInv, Sweeping, TypeOK
<1>1. \A x \in Objects : mark'[x] = mark[x] \/
              (mark[x] # "free" /\ mark'[x] \in {"gray", "black"})
  <2>1. ASSUME NEW R, \A x \in R : x \in Objects => mark[x] # "free", NEW x \in Objects
        PROVE  Painted(R)[x] = mark[x] \/
               (mark[x] # "free" /\ Painted(R)[x] \in {"gray", "black"})
    BY <2>1 DEF Painted, Shade
  <2>2. \A S : \A x \in Reached(S) : x \in Objects => mark[x] # "free"
    BY ReachedWhite DEF Whites
  <2>3. CASE MarkRoot \/ RemarkUpvals \/ RemarkWeak
    BY <2>1, <2>2, <2>3 DEF MarkRoot, RemarkUpvals, RemarkWeak
  <2>4. CASE RemarkGrayAgain
    BY <2>4 DEF RemarkGrayAgain
  <2>5. ASSUME NEW o \in Linked, Propagate(o), NEW x \in Objects
        PROVE  mark'[x] = mark[x] \/ (mark[x] # "free" /\ mark'[x] \in {"gray", "black"})
    <3>1. mark' = [Painted(Reached(Kids(o))) EXCEPT ![o] = IF StaysGray(o) THEN "gray" ELSE "black"]
      BY <2>5 DEF Propagate
    <3>2. mark[o] = "gray" /\ o \in Objects
      BY <2>5 DEF Propagate, SafetyInv, MarkInv, ListInv, Linked, Closures
    <3>3. CASE x = o
      BY <3>1, <3>2, <3>3 DEF Painted
    <3>4. CASE x # o
      <4>1. mark'[x] = Painted(Reached(Kids(o)))[x]
        BY <3>1, <3>4 DEF Painted
      <4> QED BY <2>1, <2>2, <4>1
    <3> QED BY <3>3, <3>4
  <2>6. CASE SeparateUdata
    <3> DEFINE R == tmudata' \cup WhiteIn(UNION {Kids(u) : u \in tmudata'})
    <3>1. \A u \in tmudata' : mark[u] # "free"
      BY <1>0, <2>6 DEF SeparateUdata, ToFinalize, iswhite, Whites, SafetyInv, PendingInv
    <3>2. \A x \in R : x \in Objects => mark[x] # "free"
      BY <3>1 DEF WhiteIn, iswhite, Whites
    <3>3. mark' = Painted(R)
      BY <2>6 DEF SeparateUdata
    <3> QED BY <2>1, <3>2, <3>3
  <2> QED BY <2>3, <2>4, <2>5, <2>6 DEF Marking
<1>2. \A x \in Objects : Live(x)' <=> Live(x)
  <2>1. otherwhite' = otherwhite /\ otherwhite \in Whites /\ \A x \in Objects : mark[x] # otherwhite
    BY <1>0, OtherWhiteType, NoneDead DEF otherwhite, Whites
  <2> QED BY <1>1, <2>1 DEF Live, Whites
<1>3. \A t \in Tables : key'[t] = key[t] \/ val[t] = Nil
  BY <1>0 DEF Marking, MarkRoot, Propagate, RemarkUpvals, RemarkWeak, RemarkGrayAgain,
     SeparateUdata, TypeOK
<1>4. \A x \in Objects : Refs(x)' = Refs(x) /\ Kids(x)' = Kids(x)
  BY <1>0, <1>3, SameFields, KindsAssumption DEF Value, isopen
<1> QED BY <1>0, <1>1, <1>2, <1>4

-----------------------------------------------------------------------------
(* The mark phase keeps CycleInv.                                          *)

\* tmudata is filled in the last part of atomic() only.
LEMMA MarkingQueue ==
  ASSUME SafetyInv, QueueInv, FinalizedInv, Marking
  PROVE  QueueInv' /\ FinalizedInv'
<1> USE DEF queues
<1>0. TypeOK /\ stage \in 0..4
  BY DEF SafetyInv, TypeOK
<1>1. QueueInv'
  BY <1>0 DEF QueueInv, Marking, MarkRoot, Propagate, RemarkUpvals, RemarkWeak, RemarkGrayAgain,
     SeparateUdata, AtomicPart, control
<1>2. \A u \in finalized' : u \in finalized \/ (u \in Udatas /\ iswhite(u))
  BY DEF Marking, MarkRoot, Propagate, RemarkUpvals, RemarkWeak, RemarkGrayAgain,
     SeparateUdata, ToFinalize
<1>3. \A u \in finalized' : u \in Objects /\ mark[u] # "free"
  BY <1>0, <1>2, Kinds DEF FinalizedInv, iswhite, Whites, TypeOK
<1>4. FinalizedInv'
  BY <1>3, MarkingFacts DEF FinalizedInv
<1> QED BY <1>1, <1>4

\* A weak table is linked to `weak' when what it keeps alive has been marked.
LEMMA MarkingWeak ==
  ASSUME SafetyInv, WeakKept, Marking
  PROVE  WeakKept'
<1> USE Kinds, KindsApart DEF queues, control
<1>0. /\ TypeOK /\ stage \in 0..4
      /\ \A x \in Objects : mark[x] \in {"gray", "black"} => mark'[x] \in {"gray", "black"}
      /\ \A x \in Objects : Kids(x)' = Kids(x)
      /\ weak \subseteq Objects /\ metatable' = metatable
  BY MarkingFacts DEF SafetyInv, TypeOK
<1>1. ASSUME stage' >= 2, NEW t \in weak', t \in weak, stage >= 2
      PROVE  (weakkey(t) \/ weakvalue(t))' /\ \A x \in Kids(t)' : Marked(x)'
    BY <1>0, <1>1 DEF WeakKept, Marked, weakkey, weakvalue
<1>2. CASE \E o \in Linked : Propagate(o)
  <2> PICK o \in Linked : Propagate(o)
    BY <1>2
  <2>1. stage' = stage /\ weak' \subseteq weak \cup {o}
    BY DEF Propagate
  <2>2. ASSUME NEW x \in Kids(o) PROVE Marked(x)'
    <3>0. ~Sweeping /\ TypeOK /\ o \in Objects /\ o \in gray
      BY DEF Propagate, Sweeping, SafetyInv, Linked, Closures
    <3>1. mark[o] = "gray" /\ Live(o)
      BY <3>0, OtherWhiteType DEF Propagate, SafetyInv, MarkInv, ListInv, TypeOK, Live, Whites
    <3>2. \A y \in Kids(o) : NotDead(y)
      BY <3>0, <3>1, LiveKidsLive DEF NotDead
    <3>3. Met(x, Reached(Kids(o)))
      BY <3>0, <3>2, ReachedWhole
    <3>4. x = o \/ mark'[x] = Painted(Reached(Kids(o)))[x] \/ x \notin Objects
      BY <3>0 DEF Propagate, Painted
    <3>5. x \in Objects => Painted(Reached(Kids(o)))[x] \in {"gray", "black"}
      BY <3>3 DEF Met, Painted, Shade
    <3> QED BY <1>0, <3>0, <3>1, <3>4, <3>5 DEF Marked
  <2>3. Kids(o)' = Kids(o)
    BY <1>0 DEF Linked, Closures
  <2>4. o \in weak' /\ o \notin weak => (weakkey(o) \/ weakvalue(o))'
    BY <1>0 DEF Propagate, StaysGray, weakkey, weakvalue
  <2> QED BY <1>1, <2>1, <2>2, <2>3, <2>4 DEF WeakKept
<1>3. CASE MarkRoot \/ RemarkUpvals
  BY <1>0, <1>3 DEF MarkRoot, RemarkUpvals, AtomicPart, WeakKept, SafetyInv, ControlInv
<1>4. CASE RemarkWeak
  BY <1>4 DEF RemarkWeak, WeakKept
<1>5. CASE RemarkGrayAgain \/ SeparateUdata
  BY <1>0, <1>1, <1>5 DEF RemarkGrayAgain, SeparateUdata, AtomicPart, WeakKept
<1> QED BY <1>2, <1>3, <1>4, <1>5 DEF Marking

\* propagatemark blackens a table only when its values are strong, and nothing
\* else blackens one.
LEMMA MarkingTables ==
  ASSUME SafetyInv, Marking, NEW t \in Tables, mark'[t] = "black"
  PROVE  mark[t] = "black" \/ ~weakvalue(t)
<1> USE Kinds, KindsApart
<1>1. \A R : Painted(R)[t] = mark[t] \/ Painted(R)[t] = "gray"
  BY DEF Painted, Shade
<1>2. ASSUME NEW o \in Linked, Propagate(o)
      PROVE  mark[t] = "black" \/ ~weakvalue(t)
  <2>1. mark' = [Painted(Reached(Kids(o))) EXCEPT ![o] = IF StaysGray(o) THEN "gray" ELSE "black"]
    BY <1>2 DEF Propagate
  <2>2. CASE t = o
    BY <2>1, <2>2 DEF StaysGray, Painted
  <2>3. CASE t # o
    <3>1. mark'[t] = Painted(Reached(Kids(o)))[t]
      BY <2>1, <2>3 DEF Painted
    <3> QED BY <1>1, <3>1
  <2> QED BY <2>2, <2>3
<1>3. CASE MarkRoot \/ RemarkUpvals \/ RemarkWeak \/ SeparateUdata
  BY <1>1, <1>3 DEF MarkRoot, RemarkUpvals, RemarkWeak, SeparateUdata
<1>4. CASE RemarkGrayAgain
  BY <1>4 DEF RemarkGrayAgain
<1> QED BY <1>2, <1>3, <1>4 DEF Marking

\* Black tables with weak values: none in a full collection, and otherwise no
\* pending userdata in them.
LEMMA MarkingWeakValues ==
  ASSUME SafetyInv, QueueInv, WeakGray, WeakValuesOut, Marking
  PROVE  WeakGray' /\ WeakValuesOut'
<1> USE Kinds, KindsApart DEF queues, control
<1>0. /\ TypeOK /\ UNCHANGED <<metatable, val>>
      /\ \A t \in Tables : weakvalue(t)' <=> weakvalue(t)
  BY MarkingFacts DEF SafetyInv, weakvalue
<1>1. WeakGray'
  <2>1. CASE MarkRoot
    <3>1. \A t \in Tables : t \notin tmudata /\ mark[t] # "black"
      BY <1>0, <2>1, OtherWhiteType DEF MarkRoot, SafetyInv, WhiteAtRest, TypeOK, Whites
    <3> QED BY <1>0, <3>1, MarkingTables DEF WeakGray
  <2>2. CASE ~MarkRoot
    <3>1. gcstate = "propagate" /\ full' = full
      BY <2>2 DEF Marking, Propagate, RemarkUpvals, RemarkWeak, RemarkGrayAgain, SeparateUdata,
         AtomicPart
    <3> QED BY <1>0, <3>1, MarkingTables DEF WeakGray
  <2> QED BY <2>1, <2>2
<1>2. WeakValuesOut'
  <2>1. CASE SeparateUdata
    <3> SUFFICES ASSUME NEW t \in Tables, mark'[t] = "black", weakvalue(t), val[t] \in tmudata'
                 PROVE  FALSE
      BY <1>0 DEF WeakValuesOut
    <3>0. /\ gcstate = "propagate" /\ stage = 3 /\ TracedInv
          /\ tmudata' = tmudata \cup {u \in ToFinalize : metatable[u] \in HasGC}
      BY <2>1 DEF SeparateUdata, AtomicPart, SafetyInv, MarkInv
    <3>1. mark[t] = "black"
      BY MarkingTables
    <3>2. full = "no"
      BY <3>0, <3>1 DEF SafetyInv, ControlInv, WeakGray, TypeOK
    <3>3. val[t] \in Udatas /\ iswhite(val[t])
      BY <3>0, <3>2 DEF QueueInv, ToFinalize
    <3>4. Marked(val[t])
      BY <3>0, <3>1 DEF TracedInv, TablesTraced
    <3> QED BY <3>3, <3>4 DEF Marked, iswhite, Whites
  <2>2. CASE \E o \in Linked : Propagate(o)
    <3>1. stage' = stage /\ tmudata' = tmudata
      BY <2>2 DEF Propagate
    <3> QED BY <1>0, <3>1, MarkingTables DEF WeakValuesOut
  <2>3. CASE MarkRoot \/ RemarkUpvals \/ RemarkWeak \/ RemarkGrayAgain
    <3>1. stage' # 4
      BY <2>3 DEF MarkRoot, RemarkUpvals, RemarkWeak, RemarkGrayAgain, AtomicPart, SafetyInv,
         ControlInv
    <3> QED BY <3>1 DEF WeakValuesOut
  <2> QED BY <2>1, <2>2, <2>3 DEF Marking
<1> QED BY <1>1, <1>2

\* What a full collection marks is needed: it starts at the roots and follows
\* what marked objects keep alive.
LEMMA MarkingNeeded ==
  ASSUME SafetyInv, MarksNeeded, Marking
  PROVE  MarksNeeded'
<1> USE Kinds, KindsApart DEF queues, control
<1> DEFINE N == H!Needed
           Safe(S) == \A x \in S \cap Objects : x \in N
<1> SUFFICES ASSUME full' = "mark", gcstate' = "propagate"
             PROVE  \A x \in Objects : mark'[x] \in {"gray", "black"} => x \in H!Needed'
  BY DEF MarksNeeded
<1>0. /\ TypeOK /\ ~Sweeping
      /\ Held \cup tmudata \subseteq N /\ \A x \in N : Kids(x) \subseteq N
  BY NeededClosed DEF Marking, MarkRoot, Propagate, RemarkUpvals, RemarkWeak, RemarkGrayAgain,
     SeparateUdata, AtomicPart, SafetyInv, Sweeping
<1>1. tmudata \subseteq tmudata'
  BY DEF Marking, MarkRoot, Propagate, RemarkUpvals, RemarkWeak, RemarkGrayAgain, SeparateUdata
<1>2. N \subseteq H!Needed'
  BY <1>1, MarkingFacts, NeededStays DEF Held
<1>3. \A R : \A x \in Objects : Painted(R)[x] = mark[x] \/ x \in R
  BY DEF Painted
<1>4. \A x \in Objects : mark[x] \in {"gray", "black"} => x \in N
  <2>1. CASE MarkRoot
    <3>1. gcstate \in {"pause", "finalize"}
      BY <2>1 DEF MarkRoot
    <3> QED BY <1>0, <3>1, OtherWhiteType DEF SafetyInv, WhiteAtRest, TypeOK, Whites
  <2>2. CASE ~MarkRoot
    <3>1. gcstate = "propagate" /\ full' = full
      BY <2>2 DEF Marking, Propagate, RemarkUpvals, RemarkWeak, RemarkGrayAgain, SeparateUdata,
         AtomicPart
    <3> QED BY <3>1 DEF MarksNeeded
  <2> QED BY <2>1, <2>2
<1> HIDE DEF N
<1>5. ASSUME NEW S, S \cap Objects \subseteq N PROVE Reached(S) \subseteq N
  BY <1>5, ReachedNeeded DEF N
<1>6. CASE MarkRoot \/ RemarkWeak
  <2>1. {MainThread, Registry, basicmt} \cap Objects \subseteq N /\ Remarked \cap Objects \subseteq N
    BY <1>0 DEF Held, Remarked
  <2>2. \E S : mark' = Painted(Reached(S)) /\ S \cap Objects \subseteq N
    BY <1>6, <2>1 DEF MarkRoot, RemarkWeak
  <2> QED BY <1>2, <1>3, <1>4, <1>5, <2>2
<1>7. CASE RemarkUpvals
  <2> DEFINE S == {Value(uv) : uv \in {u \in UpVals : isopen(u) /\ mark[u] = "gray"}}
  <2>1. ASSUME NEW uv \in UpVals, mark[uv] = "gray", Value(uv) \in Objects PROVE Value(uv) \in N
    <3>1. uv \in N
      BY <1>4, <2>1
    <3>2. Value(uv) \in Kids(uv)
      BY <2>1 DEF Kids, Refs
    <3> QED BY <1>0, <3>1, <3>2
  <2>2. mark' = Painted(Reached(S)) /\ S \cap Objects \subseteq N
    BY <1>7, <2>1 DEF RemarkUpvals
  <2> QED BY <1>2, <1>3, <1>4, <1>5, <2>2
<1>8. CASE RemarkGrayAgain
  BY <1>2, <1>4, <1>8 DEF RemarkGrayAgain
<1>9. ASSUME NEW o \in Linked, Propagate(o)
      PROVE  \A x \in Objects : mark'[x] \in {"gray", "black"} => x \in H!Needed'
  <2>1. mark' = [Painted(Reached(Kids(o))) EXCEPT ![o] = IF StaysGray(o) THEN "gray" ELSE "black"]
    BY <1>9 DEF Propagate
  <2>2. o \in N
    BY <1>4, <1>9 DEF Propagate, SafetyInv, MarkInv, ListInv, Linked, Closures
  <2>3. Reached(Kids(o)) \subseteq N
    BY <1>0, <1>5, <2>2
  <2>4. \A x \in Objects : x # o => mark'[x] = Painted(Reached(Kids(o)))[x]
    BY <2>1 DEF Painted
  <2> QED BY <1>2, <1>3, <1>4, <2>2, <2>3, <2>4
<1>10. CASE SeparateUdata
  <2> DEFINE K == WhiteIn(UNION {Kids(u) : u \in tmudata'})
  <2>1. mark' = Painted(tmudata' \cup K)
    BY <1>10 DEF SeparateUdata
  <2>2. LiveObjects' = LiveObjects /\ HeapKids' = HeapKids
    BY MarkingFacts DEF LiveObjects, HeapKids
  <2>3. \A u \in tmudata' : u \in LiveObjects
    <3>1. \A u \in tmudata : Live(u) /\ u \in Objects
      BY <1>0 DEF SafetyInv, RootsInv, Roots, TypeOK
    <3>2. \A u \in ToFinalize : Live(u) /\ u \in Objects
      BY <1>0, NoneDead, OtherWhiteType DEF ToFinalize, iswhite, SafetyInv, TypeOK, Live, Whites
    <3> QED BY <1>10, <3>1, <3>2 DEF SeparateUdata, LiveObjects
  <2>4. \A u \in tmudata' : \A y \in Kids(u) : y \in HeapKids[u] /\ y \in LiveObjects
    BY <2>3, LiveKidsLive DEF LiveObjects, HeapKids
  <2>5. tmudata' \subseteq H!Needed' /\ \A u \in tmudata' : Kids(u) \subseteq H!Needed'
    BY <2>2, <2>3, <2>4 DEF H!Needed, H!Kept
  <2>6. K \subseteq H!Needed'
    BY <2>5 DEF WhiteIn
  <2> QED BY <1>2, <1>3, <1>4, <2>1, <2>5, <2>6
<1> QED BY <1>6, <1>7, <1>8, <1>9, <1>10 DEF Marking

-----------------------------------------------------------------------------
(* The other steps keep CycleInv.                                          *)

\* Outside of atomic() and of the mark phase of a full collection, only its
\* first two parts say anything.
LEMMA OutsideCycle ==
  ASSUME stage' = 0, full' # "mark" \/ gcstate' # "propagate", QueueInv', FinalizedInv'
  PROVE  CycleInv'
BY DEF CycleInv, WeakKept, WeakGray, WeakValuesOut, MarksNeeded

\* What an operation of the program may do to the colour of an object: dead
\* strings and upvalues are resurrected, dead upvalues freed, and whatever
\* else changes colour is new or live before and after.
LEMMA MutatorMarks ==
  ASSUME SafetyInv, Mutator
  PROVE  /\ MutatorRuns /\ UNCHANGED <<control, unswept, tmudata, finalized>>
         /\ \A x \in Objects :
              \/ mark'[x] = mark[x]
              \/ mark[x] = "free" /\ mark'[x] = currentwhite
              \/ x \in Strings \cup UpVals /\ isdead(x) /\ mark'[x] \in {currentwhite, "free"}
              \/ Live(x) /\ mark'[x] \in {"gray", "black", currentwhite}
<1> USE Kinds, KindsApart DEF queues
<1>0. TypeOK
  BY DEF SafetyInv
<1>1. MutatorRuns /\ UNCHANGED <<control, unswept, tmudata, finalized>>
  BY DEF Mutator, Load, NewTable, NewUdata, NewCClosure, NewThread, NewString, NewLClosureShare,
     NewLClosureFind, NewLClosureOpen, NewLClosureLoad, SetTable, SetMetatable, SetBasicMt, SetEnv,
     SetCUpvalue, SetUpvalue, SetVal, SetOpenUpvalue, CloseUpvals, XMove, Resume, Yield, Allocate
<1> DEFINE Stays(x)  == mark'[x] = mark[x]
           Made(x)   == mark[x] = "free" /\ mark'[x] = currentwhite
           Back(x)   == x \in Strings \cup UpVals /\ isdead(x) /\ mark'[x] \in {currentwhite, "free"}
           Turned(x) == Live(x) /\ mark'[x] \in {"gray", "black", currentwhite}
           Fine      == \A x \in Objects : Stays(x) \/ Made(x) \/ Back(x) \/ Turned(x)
<1> SUFFICES Fine
  BY <1>1
<1>2. ASSUME NEW o \in Objects, Allocate(o) PROVE Fine
  BY <1>0, <1>2 DEF Allocate, TypeOK
<1>3. CASE \E str \in Strings, s \in Slots : NewString(str, s)
  BY <1>0, <1>3 DEF NewString, TypeOK
<1>4. CASE \E c \in LClosures, k \in Slots, uv \in UpVals, s \in Slots :
             NewLClosureFind(c, k, uv, s)
  BY <1>0, <1>4 DEF NewLClosureFind, Resurrected, TypeOK
<1>5. CASE \/ \E c \in LClosures, k \in Slots, uv \in UpVals, s \in Slots : NewLClosureOpen(c, k, uv, s)
           \/ \E c \in LClosures, uv \in UpVals, s \in Slots : NewLClosureLoad(c, uv, s)
  BY <1>0, <1>5 DEF NewLClosureOpen, NewLClosureLoad, TypeOK
<1>6. \A x \in Objects : mark[x] \in {"gray", "black"} => Live(x)
  BY <1>0, OtherWhiteType DEF Live, TypeOK, Whites
<1>7. ASSUME NEW S, gcstate = "propagate", NEW x \in Reached(S) PROVE x \in Objects /\ Live(x)
  <2>1. x \in Objects /\ mark[x] = currentwhite
    BY <1>0, <1>7, NoneDead, ReachedWhite DEF Sweeping, Whites
  <2> QED BY <1>0, <2>1, OtherWhiteType DEF Live, TypeOK, Whites
<1>8. ASSUME NEW t \in Tables, NEW vs, luaC_barriert(t, vs) PROVE Fine
  BY <1>0, <1>6, <1>8 DEF luaC_barriert, NeedsBarrier, TypeOK
<1>9. ASSUME NEW o \in Objects, NEW v, luaC_barrier(o, v) PROVE Fine
  <2>1. CASE UNCHANGED mark
    BY <2>1
  <2>2. CASE gcstate = "propagate" /\ mark' = Painted(Reached({v}))
    BY <1>7, <2>2 DEF Painted, Shade
  <2>3. CASE mark[o] = "black" /\ mark' = [mark EXCEPT ![o] = currentwhite]
    BY <1>0, <1>6, <2>3 DEF TypeOK
  <2> QED BY <1>9, <2>1, <2>2, <2>3 DEF luaC_barrier, NeedsBarrier
<1>10. CASE \E level \in Slots : CloseUpvals(level)
  <2> PICK level \in Slots : CloseUpvals(level)
    BY <1>10
  <2> DEFINE open   == {uv \in OpenUpvals(running) : at[uv][2] >= level}
             gone   == {uv \in open : isdead(uv)}
             caught == {uv \in open : mark[uv] = "gray"}
             R      == ClosedMarked(caught)
  <2>1. mark' = [o \in Objects |->
                    IF o \in gone THEN "free"
                    ELSE IF o \in caught
                    THEN IF gcstate = "propagate" THEN "black" ELSE currentwhite
                    ELSE IF o \in R THEN Shade(o) ELSE mark[o]]
    BY DEF CloseUpvals
  <2>2. \A x \in R : x \in Objects /\ Live(x)
    BY <1>7 DEF ClosedMarked
  <2>3. \A x \in gone : x \in UpVals /\ isdead(x)
    BY DEF OpenUpvals
  <2>4. \A x \in caught : x \in UpVals /\ mark[x] = "gray"
    BY DEF OpenUpvals
  <2> HIDE DEF gone, caught, R
  <2> QED BY <1>6, <2>1, <2>2, <2>3, <2>4 DEF Shade
<1>11. CASE \/ \E t \in Tables, k \in KeySet, v \in Values : SetTable(t, k, v)
            \/ \E o \in Tables \cup Udatas, m \in MetaTables \cup {Nil} : SetMetatable(o, m)
  BY <1>8, <1>9, <1>11 DEF SetTable, SetMetatable
<1>12. CASE \/ \E o \in Udatas \cup Closures, t \in Tables : SetEnv(o, t)
            \/ \E c \in CClosures, v \in Values : SetCUpvalue(c, v)
  BY <1>9, <1>12 DEF SetEnv, SetCUpvalue, SetVal, Closures
<1>13. CASE \E c \in LClosures, v \in Values : SetUpvalue(c, v)
  <2> PICK c \in LClosures, v \in Values : SetUpvalue(c, v)
    BY <1>13
  <2>1. c \in Objects /\ Live(c)
    BY InHandLive DEF SetUpvalue, NotDead
  <2>2. up[c] \in Objects
    BY <2>1 DEF SafetyInv, HeapInv, LClosuresLive
  <2> QED BY <1>9, <2>2 DEF SetUpvalue, SetVal
<1>14. CASE \/ \E t \in Tables, s \in Slots : NewTable(t, s)
            \/ \E u \in Udatas, s \in Slots : NewUdata(u, s)
            \/ \E c \in CClosures, v \in Values, s \in Slots : NewCClosure(c, v, s)
            \/ \E th \in Coroutines, s \in Slots : NewThread(th, s)
            \/ \E c, p \in LClosures, s \in Slots : NewLClosureShare(c, p, s)
  <2> HIDE DEF Fine
  <2>1. \A th \in Coroutines : th \in Threads
    BY DEF Threads
  <2> QED BY <1>2, <1>14, <2>1 DEF NewTable, NewUdata, NewCClosure, NewThread, NewLClosureShare
<1>15. CASE \/ \E v \in Values, s \in Slots : Load(v, s)
            \/ \E m \in MetaTables \cup {Nil} : SetBasicMt(m)
            \/ \E c \in LClosures, v \in Values : SetOpenUpvalue(c, v)
            \/ \E th \in Threads, s, k \in Slots : XMove(s, th, k)
            \/ \E th \in Coroutines, s \in Slots, drop \in BOOLEAN : Resume(th, s, drop)
            \/ Yield
  BY <1>15 DEF Load, SetBasicMt, SetOpenUpvalue, XMove, Resume, Yield
<1> HIDE DEF Fine
<1> QED BY <1>3, <1>4, <1>5, <1>10, <1>11, <1>12, <1>13, <1>14, <1>15 DEF Mutator

\* The program fills no queue, and frees no userdata.
LEMMA MutatorCycle ==
  ASSUME SafetyInv, CycleInv, Mutator
  PROVE  CycleInv'
<1> USE Kinds, KindsApart DEF control
<1>0. TypeOK /\ stage' = 0 /\ full' = "no"
  BY MutatorMarks DEF SafetyInv, MutatorRuns
<1>1. QueueInv'
  BY <1>0, MutatorMarks DEF CycleInv, QueueInv, MutatorRuns
<1>2. \A u \in finalized : u \in Udatas /\ mark[u] # "free"
  BY <1>0 DEF CycleInv, FinalizedInv, TypeOK
<1>3. currentwhite # "free"
  BY <1>0 DEF TypeOK, Whites
<1>4. FinalizedInv'
  BY <1>2, <1>3, MutatorMarks DEF FinalizedInv
<1> QED BY <1>0, <1>1, <1>4, OutsideCycle

\* A swept object is freed when it is dead, and then it is no longer among the
\* finalized ones.
LEMMA SweepCycle ==
  ASSUME SafetyInv, CycleInv,
         (\E o \in Strings : SweepString(o)) \/ (\E o \in Objects : SweepObject(o))
  PROVE  CycleInv'
<1> PICK o \in Objects : /\ Sweep(o) /\ Sweeping
                         /\ gcstate' \in {"sweepstring", "sweep", "finalize"}
  BY Kinds DEF SweepString, SweepObject, Sweeping
<1>0. TypeOK /\ stage' = 0
  BY DEF Sweep, SafetyInv, ControlInv, Sweeping
<1>1. QueueInv'
  BY DEF QueueInv
<1>2. FinalizedInv'
  <2> DEFINE dead == {x \in SweptWith(o) : isdead(x)}
  <2>1. /\ finalized' = finalized \ dead
        /\ \A x \in Objects : x \notin dead => mark'[x] \in {currentwhite, mark[x]}
    BY DEF Sweep
  <2>2. \A u \in finalized : u \in Objects /\ mark[u] # "free"
    BY <1>0, Kinds DEF CycleInv, FinalizedInv, TypeOK
  <2> HIDE DEF dead
  <2> QED BY <1>0, <2>1, <2>2 DEF FinalizedInv, TypeOK, Whites
<1> QED BY <1>0, <1>1, <1>2, OutsideCycle

\* The flip, the ends of the phases, the finalizers and the start of a full
\* collection free nothing.
LEMMA PhaseCycle ==
  ASSUME SafetyInv, CycleInv,
         \/ ClearAndFlip \/ EndSweepStrings \/ EndCycle \/ FullGC
         \/ \E u \in Udatas, s \in Slots : GCTM(u, s)
  PROVE  CycleInv'
<1> USE Kinds, KindsApart DEF control, queues
<1>0. /\ TypeOK /\ stage' = 0 /\ finalized' = finalized
      /\ full' # "mark" \/ gcstate' # "propagate"
  BY DEF ClearAndFlip, EndSweepStrings, EndCycle, FullGC, GCTM, MutatorRuns, SafetyInv, ControlInv
<1>1. QueueInv'
  BY DEF QueueInv, ClearAndFlip, EndSweepStrings, EndCycle, FullGC, GCTM, MutatorRuns
<1>2. \A x \in Objects : mark[x] # "free" => mark'[x] # "free"
  BY <1>0 DEF ClearAndFlip, EndSweepStrings, EndCycle, FullGC, GCTM, makewhite, TypeOK, Whites
<1>3. FinalizedInv'
  BY <1>0, <1>2 DEF CycleInv, FinalizedInv, TypeOK
<1> QED BY <1>0, <1>1, <1>3, OutsideCycle

\* CycleInv holds in every reachable state.
THEOREM CycleInvariant == Spec => []CycleInv
<1>1. Init => CycleInv
  BY KindsAssumption DEF Init, CycleInv, QueueInv, FinalizedInv, WeakKept, WeakGray, WeakValuesOut, MarksNeeded
<1>2. SafetyInv /\ CycleInv /\ [Next]_vars => CycleInv'
  <2> SUFFICES ASSUME SafetyInv, CycleInv, [Next]_vars PROVE CycleInv'
    OBVIOUS
  <2>1. CASE Marking
    BY <2>1, MarkingQueue, MarkingWeak, MarkingWeakValues, MarkingNeeded DEF CycleInv
  <2>2. CASE singlestep \/ FullGC
    <3>1. \/ Marking
          \/ (\E o \in Strings : SweepString(o)) \/ (\E o \in Objects : SweepObject(o))
          \/ ClearAndFlip \/ EndSweepStrings \/ EndCycle \/ FullGC
          \/ \E u \in Udatas, s \in Slots : GCTM(u, s)
      BY <2>2 DEF singlestep, Marking
    <3> QED BY <2>1, <3>1, SweepCycle, PhaseCycle
  <2>3. CASE Mutator
    BY <2>3, MutatorCycle
  <2>4. CASE UNCHANGED vars
    <3>1. UNCHANGED <<mark, control, weak, tmudata, finalized, key, val, metatable>>
      BY <2>4 DEF vars, lists, queues, fields
    <3>2. H!Needed' = H!Needed
      BY <2>4 DEF vars, control, lists, queues, fields, machine, H!Needed, H!Kept, LiveObjects, HeapKids,
         Live, otherwhite, Kids, Refs, Held, Value, isopen, weakkey, weakvalue
    <3>3. /\ \A t : weakkey(t)' = weakkey(t) /\ weakvalue(t)' = weakvalue(t)
          /\ \A x : Kids(x)' = Kids(x) /\ Marked(x)' = Marked(x)
      BY <2>4 DEF vars, fields, machine, weakkey, weakvalue, Kids, Refs, Value, isopen, Marked
    <3> QED BY <3>1, <3>2, <3>3 DEF control, CycleInv, QueueInv, FinalizedInv, WeakKept, WeakGray, WeakValuesOut,
       MarksNeeded
  <2> QED BY <2>2, <2>3, <2>4 DEF Next
<1> QED BY SafetyInvariant, <1>1, <1>2, PTL DEF Spec

-----------------------------------------------------------------------------
(* The flip.                                                               *)

\* When the white is flipped, what is marked is what is live, strings in weak
\* tables apart, and weak tables have lost their cleared entries.
LEMMA FlipFacts ==
  ASSUME SafetyInv, ClearAndFlip
  PROVE  /\ gcstate = "propagate" /\ stage = 4 /\ gray = {}
         /\ \A x \in Objects : Live(x)' => Live(x)
         /\ \A x \in Objects : mark[x] \in {"gray", "black"} => Live(x)'
         /\ \A x \in Objects \ Strings : Live(x)' => mark[x] \in {"gray", "black"}
         /\ \A t \in Tables : t \in weak /\ Cleared(t) => key'[t] = Nil /\ val'[t] = Nil
         /\ \A t \in Tables : ~(t \in weak /\ Cleared(t)) => key'[t] = key[t] /\ val'[t] = val[t]
         /\ \A x \in CClosures \cup UpVals : val'[x] = val[x]
         /\ UNCHANGED <<full, tmudata, finalized, metatable, env, up, at, stack, running, basicmt>>
<1> USE Kinds, KindsApart
<1> DEFINE kept == WhiteIn(UNION {KeptStrings(t) : t \in weak})
<1>0. /\ TypeOK /\ weak \subseteq Tables
      /\ gcstate = "propagate" /\ stage = 4 /\ gray = {}
      /\ mark' = [o \in Objects |-> IF o \in kept THEN "gray" ELSE mark[o]]
      /\ key' = [t \in Tables |-> IF t \in weak /\ Cleared(t) THEN Nil ELSE key[t]]
      /\ val' = [o \in Tables \cup CClosures \cup UpVals |->
                   IF o \in weak /\ Cleared(o) THEN Nil ELSE val[o]]
      /\ UNCHANGED <<full, tmudata, finalized, metatable, env, up, at, stack, running, basicmt>>
      /\ currentwhite \in Whites /\ otherwhite \in Whites
      /\ otherwhite # currentwhite /\ otherwhite' = currentwhite
      /\ \A x \in Objects : mark[x] \in {"free", currentwhite, "gray", "black"}
  BY OtherWhiteType, NoneDead
    DEF ClearAndFlip, SafetyInv, MarkInv, ListInv, TypeOK, machine, Sweeping, otherwhite, Whites
<1>1. \A x \in kept : x \in Strings /\ mark[x] = currentwhite
  BY <1>0 DEF WhiteIn, KeptStrings, iswhite, Whites
<1> HIDE DEF kept
<1>2. /\ \A x \in Objects : Live(x)' => Live(x)
      /\ \A x \in Objects : mark[x] \in {"gray", "black"} => Live(x)'
      /\ \A x \in Objects \ Strings : Live(x)' => mark[x] \in {"gray", "black"}
  BY <1>0, <1>1 DEF Live, Whites
<1> QED BY <1>0, <1>2

\* The steps that start a sweep.
LEMMA SweepStarts ==
  ASSUME SafetyInv, Next, ~Sweeping, Sweeping'
  PROVE  ClearAndFlip \/ (FullGC /\ full = "no" /\ full' = "sweep")
BY MutatorMarks
  DEF Next, singlestep, MarkRoot, Propagate, RemarkUpvals, RemarkWeak, RemarkGrayAgain, AtomicPart,
    SeparateUdata, SweepString, EndSweepStrings, SweepObject, GCTM, EndCycle, FullGC,
    MutatorRuns, Sweeping, control

\* No pending userdata is a weak value when a mark phase ends, also in a table
\* that became weak after it had been traversed.
THEOREM WeakValuesCleared == Spec => WeakValuesGone
<1>1. SafetyInv /\ CycleInv /\ [Next]_vars =>
        [~Sweeping /\ Sweeping' /\ full' # "sweep" =>
           (\A t \in Tables : Live(t) /\ weakvalue(t) => val[t] \notin tmudata)']_vars
  <2> SUFFICES ASSUME SafetyInv, CycleInv, Next, ~Sweeping, Sweeping', full' # "sweep",
                      NEW t \in Tables, Live(t)', weakvalue(t)'
               PROVE  val'[t] \notin tmudata'
    OBVIOUS
  <2> USE Kinds, KindsApart, KindsAssumption
  <2>1. ClearAndFlip
    BY SweepStarts
  <2>2. /\ tmudata' = tmudata /\ weakvalue(t) /\ mark[t] \in {"gray", "black"}
        /\ stage = 4 /\ gcstate = "propagate" /\ gray = {}
    BY <2>1, FlipFacts DEF weakvalue
  <2>3. TypeOK /\ ListInv
    BY <2>2 DEF SafetyInv, MarkInv
  <2>4. CASE mark[t] = "black"
    <3>1. t \notin weak /\ val[t] \notin tmudata
      BY <2>2, <2>3, <2>4 DEF ListInv, CycleInv, WeakValuesOut
    <3> QED BY <2>1, <2>2, <3>1, FlipFacts
  <2>5. CASE mark[t] = "gray"
    <3>1. t \in weak
      BY <2>2, <2>3, <2>5 DEF ListInv, Linked
    <3>2. CASE Cleared(t)
      BY <2>1, <2>2, <2>3, <3>1, <3>2, FlipFacts DEF TypeOK
    <3>3. CASE ~Cleared(t)
      <4>1. val'[t] = val[t]
        BY <2>1, <3>3, FlipFacts
      <4>2. val[t] \notin Udatas \cap finalized
        BY <3>3 DEF Cleared, iscleared
      <4> QED BY <2>2, <2>3, <4>1, <4>2 DEF SafetyInv, PendingInv, TypeOK
    <3> QED BY <3>2, <3>3
  <2> QED BY <2>2, <2>4, <2>5
<1>2. Spec => []SafetyInv /\ []CycleInv
  BY SafetyInvariant, CycleInvariant
<1> QED BY <1>1, <1>2, PTL DEF Spec, WeakValuesGone

\* A full collection is complete.
THEOREM FullGCComplete == Spec => FullGCPrecise
<1>1. SafetyInv /\ SafetyInv' /\ CycleInv /\ [Next]_vars =>
        [/\ full = "mark" /\ ~Sweeping /\ Sweeping' =>
              \A o \in Objects \ Strings : Live(o)' => o \in H!Needed
         /\ full = "mark" /\ full' = "no" => (\A o \in Objects : mark[o] # "free" => Live(o))']_vars
  <2> SUFFICES ASSUME SafetyInv, SafetyInv', CycleInv, Next
               PROVE  /\ full = "mark" /\ ~Sweeping /\ Sweeping' =>
                           \A o \in Objects \ Strings : Live(o)' => o \in H!Needed
                      /\ full = "mark" /\ full' = "no" =>
                           (\A o \in Objects : mark[o] # "free" => Live(o))'
    OBVIOUS
  <2>1. ASSUME full = "mark", ~Sweeping, Sweeping', NEW o \in Objects \ Strings, Live(o)'
        PROVE  o \in H!Needed
    <3>1. ClearAndFlip
      BY <2>1, SweepStarts
    <3> QED BY <2>1, <3>1, FlipFacts DEF CycleInv, MarksNeeded
  <2>2. ASSUME full = "mark", full' = "no", NEW o \in Objects, mark'[o] # "free"
        PROVE  Live(o)'
    <3>1. gcstate' = "finalize"
      BY <2>2, MutatorMarks
        DEF Next, singlestep, MarkRoot, Propagate, RemarkUpvals, RemarkWeak, RemarkGrayAgain,
          SeparateUdata, ClearAndFlip, SweepString, EndSweepStrings, SweepObject, GCTM, EndCycle,
          FullGC, MutatorRuns, control
    <3>2. ~isdead(o)'
      BY <3>1 DEF SafetyInv, SweepInv, Sweeping
    <3> QED BY <2>2, <3>2 DEF Live, isdead
  <2> QED BY <2>1, <2>2
<1>2. Spec => []SafetyInv /\ []CycleInv
  BY SafetyInvariant, CycleInvariant
<1> QED BY <1>1, <1>2, PTL DEF Spec, FullGCPrecise

-----------------------------------------------------------------------------
(* The refinement, step by step.                                           *)

\* Nothing that exists for Heap refers to anything that does not.
LEMMA HeapSound == SafetyInv => H!Sound
<1> SUFFICES ASSUME SafetyInv PROVE H!Sound
  OBVIOUS
<1> USE Kinds, KindsApart
<1>0. TypeOK
  BY DEF SafetyInv
<1>1. Held \subseteq LiveObjects /\ tmudata \subseteq LiveObjects
  BY NeededClosed
<1>2. tmudata \subseteq finalized \cap LiveObjects
  BY <1>1 DEF SafetyInv, PendingInv
<1>3. WeakTables \subseteq LiveObjects
  BY DEF WeakTables, LiveObjects
<1>4. \A o \in LiveObjects : HeapKids[o] \subseteq HeapRefs[o] /\ HeapRefs[o] \subseteq LiveObjects
  BY LiveKidsLive, LiveRefs DEF LiveObjects, HeapKids, HeapRefs
<1>5. ASSUME NEW o \in LiveObjects \ WeakTables PROVE HeapKids[o] = HeapRefs[o]
  <2>1. o \in Objects /\ Live(o)
    BY DEF LiveObjects
  <2>2. Kids(o) = Refs(o)
    <3>1. CASE o \in Tables
      <4>1. ~weakkey(o) /\ ~weakvalue(o)
        BY <2>1, <3>1 DEF WeakTables
      <4> QED BY <3>1, <4>1, KindsAssumption DEF Kids, Refs
    <3>2. CASE o \notin Tables
      BY <3>2 DEF Kids
    <3> QED BY <3>1, <3>2
  <2> QED BY <2>1, <2>2 DEF HeapKids, HeapRefs
<1> QED BY <1>1, <1>2, <1>3, <1>4, <1>5 DEF H!Sound

\* The mark phase, up to its last part, changes nothing that the program can
\* see.
LEMMA MarkingHidden ==
  ASSUME SafetyInv, TypeOK', Marking, ~SeparateUdata
  PROVE  UNCHANGED H!vars
<1>1. TypeOK /\ UNCHANGED <<tmudata, finalized>>
  BY DEF Marking, MarkRoot, Propagate, RemarkUpvals, RemarkWeak, RemarkGrayAgain, queues, SafetyInv
<1> QED BY <1>1, MarkingFacts, Invisible

\* Nor do the ends of the phases, and the start of a full collection.
LEMMA PhaseHidden ==
  ASSUME SafetyInv, TypeOK', EndSweepStrings \/ EndCycle \/ FullGC
  PROVE  UNCHANGED H!vars
<1>1. /\ TypeOK
      /\ UNCHANGED <<mark, currentwhite, tmudata, finalized, metatable, env, key, val, up, at, stack,
                     running, basicmt>>
  BY DEF EndSweepStrings, EndCycle, FullGC, queues, fields, machine, SafetyInv
<1>2. /\ \A x \in Objects : Live(x)' <=> Live(x)
      /\ \A x \in Objects : Refs(x)' = Refs(x) /\ Kids(x)' = Kids(x)
  BY <1>1 DEF Live, otherwhite, Refs, Kids, weakkey, weakvalue, Value, isopen
<1> QED BY <1>1, <1>2, Invisible

\* A sweep frees what is dead for the program already: a live object keeps its
\* fields, and a live upvalue of a dead thread its value.
LEMMA SweepHidden ==
  ASSUME SafetyInv, TypeOK',
         (\E o \in Strings : SweepString(o)) \/ (\E o \in Objects : SweepObject(o))
  PROVE  UNCHANGED H!vars
<1> PICK o \in unswept : Sweep(o)
  BY DEF SweepString, SweepObject
<1> USE Kinds, KindsApart
<1> DEFINE swept == SweptWith(o)
           dead == {x \in swept : isdead(x)}
<1>0. /\ TypeOK /\ currentwhite \in Whites /\ otherwhite # currentwhite /\ otherwhite' = otherwhite
      /\ UNCHANGED <<tmudata, running, basicmt>>
      /\ mark' = [x \in Objects |-> IF x \in dead THEN "free"
                                    ELSE IF x \in swept THEN currentwhite ELSE mark[x]]
      /\ val' = [x \in Tables \cup CClosures \cup UpVals |->
                   IF x \in dead THEN Nil ELSE IF x \in ClosedBy(o) THEN Value(x) ELSE val[x]]
      /\ at' = [uv \in UpVals |-> IF uv \in dead \cup ClosedBy(o) THEN Nil ELSE at[uv]]
      /\ key' = [t \in Tables |-> IF t \in dead THEN Nil ELSE key[t]]
      /\ metatable' = [x \in Tables \cup Udatas |-> IF x \in dead THEN Nil ELSE metatable[x]]
      /\ env' = [x \in Udatas \cup Closures |-> IF x \in dead THEN Nil ELSE env[x]]
      /\ up' = [c \in LClosures |-> IF c \in dead THEN Nil ELSE up[c]]
      /\ stack' = [th \in Threads |-> IF th \in dead THEN NoStack ELSE stack[th]]
      /\ finalized' = finalized \ dead
  BY OtherWhiteType DEF Sweep, SafetyInv, TypeOK, otherwhite
<1>1. /\ \A x \in swept : mark[x] # "free"
      /\ \A uv \in UpVals : isopen(uv) /\ at[uv][1] \in dead => uv \in dead \cup ClosedBy(o)
      /\ \A uv \in ClosedBy(o) : uv \in UpVals /\ isopen(uv)
  <2>1. mark[o] # "free" /\ o \in Objects
    BY <1>0 DEF SafetyInv, SweepInv, TypeOK
  <2>2. \A uv \in UpVals : isopen(uv) => at[uv][1] \in Threads /\ mark[uv] # "free"
    BY <1>0 DEF TypeOK, SafetyInv, ColourInv, isopen
  <2> QED BY <2>1, <2>2 DEF SweptWith, OpenUpvals, ClosedBy
<1>2. \A x \in Objects : x \in dead <=> x \in swept /\ mark[x] = otherwhite
  BY DEF isdead
<1> HIDE DEF dead, swept
<1>3. \A x \in Objects : Live(x)' <=> Live(x)
  BY <1>0, <1>1, <1>2 DEF Live, Whites
<1>4. \A x \in Objects : Live(x) => x \notin dead
  BY <1>2 DEF Live
<1>5. ASSUME NEW x \in Objects, Live(x)
      PROVE  Refs(x)' = Refs(x) /\ Kids(x)' = Kids(x)
  <2>1. x \in UpVals => Value(x)' = Value(x)
    <3>1. ASSUME x \in UpVals, x \in ClosedBy(o) PROVE Value(x)' = Value(x)
      BY <1>0, <1>4, <1>5, <3>1 DEF Value, isopen
    <3>2. ASSUME x \in UpVals, x \notin ClosedBy(o), isopen(x) PROVE Value(x)' = Value(x)
      <4>1. at'[x] = at[x] /\ at[x][1] \notin dead /\ at[x][1] \in Threads
        BY <1>0, <1>1, <1>4, <1>5, <3>2 DEF TypeOK, isopen
      <4> QED BY <1>0, <3>2, <4>1 DEF Value, isopen
    <3>3. ASSUME x \in UpVals, x \notin ClosedBy(o), ~isopen(x) PROVE Value(x)' = Value(x)
      BY <1>0, <1>4, <1>5, <3>3 DEF Value, isopen
    <3> QED BY <3>1, <3>2, <3>3
  <2>2. x \notin dead /\ (x \in Tables \cup CClosures => x \notin ClosedBy(o))
    BY <1>1, <1>4, <1>5
  <2>3. x \in Tables => metatable'[x] = metatable[x] /\ val'[x] = val[x] /\ key'[x] = key[x]
    BY <1>0, <2>2
  <2>4. /\ x \in Udatas => metatable'[x] = metatable[x] /\ env'[x] = env[x]
        /\ x \in CClosures => env'[x] = env[x] /\ val'[x] = val[x]
        /\ x \in LClosures => env'[x] = env[x] /\ up'[x] = up[x]
        /\ x \in Threads => stack'[x] = stack[x]
    BY <1>0, <2>2 DEF Closures
  <2> QED BY <2>1, <2>3, <2>4, SameFields, KindsAssumption
<1>6. /\ \A t \in Tables : Live(t) => metatable'[t] = metatable[t]
      /\ \A u \in Udatas : Live(u) => (u \in finalized' <=> u \in finalized)
  BY <1>0, <1>4
<1> QED BY <1>0, <1>3, <1>5, <1>6, Invisible

\* At the end of the mark phase all that a marked object keeps alive is marked;
\* the pending userdata follow in the last part of atomic().
LEMMA MarkedClosed ==
  ASSUME SafetyInv, WeakKept, gcstate = "propagate", stage >= 3, gray = {},
         NEW x \in Objects, mark[x] \in {"gray", "black"}, x \in tmudata => stage = 4
  PROVE  \A y \in Kids(x) : Marked(y)
<1> USE Kinds, KindsApart
<1>0. /\ TypeOK /\ ListInv /\ TracedInv /\ ColourInv
      /\ stage \in 0..4
  BY DEF SafetyInv, MarkInv, TypeOK
<1>1. x \in Linked /\ mark[x] = "gray" => x \in Threads \/ x \in weak
  BY <1>0 DEF ListInv
<1>2. CASE x \in Tables
  <2>1. CASE mark[x] = "black"
    BY <1>0, <1>2, <2>1 DEF TracedInv, TablesTraced, Kids, Marked
  <2>2. CASE mark[x] = "gray"
    BY <1>0, <1>1, <1>2, <2>2 DEF Linked, WeakKept
  <2> QED BY <2>1, <2>2
<1>3. CASE x \in Udatas
  BY <1>0, <1>3 DEF TracedInv, UdatasTraced, ColourInv, Kids, Refs, Marked
<1>4. CASE x \in CClosures
  <2>1. mark[x] = "black"
    BY <1>0, <1>1, <1>4 DEF Linked, Closures, ListInv
  <2> QED BY <1>0, <1>4, <2>1 DEF TracedInv, CClosuresTraced, Kids, Refs, Marked
<1>5. CASE x \in LClosures
  <2>1. mark[x] = "black"
    BY <1>0, <1>1, <1>5 DEF Linked, Closures, ListInv
  <2> QED BY <1>0, <1>5, <2>1 DEF TracedInv, LClosuresTraced, Kids, Refs, Marked
<1>6. CASE x \in UpVals
  BY <1>0, <1>6 DEF TracedInv, UpvalsTraced, Kids, Refs, Marked
<1>7. CASE x \in Threads
  BY <1>0, <1>7 DEF TracedInv, StacksTraced, ColourInv, Kids, Refs, Marked
<1>8. CASE x \in Strings
  BY <1>8 DEF Kids, Refs, Closures
<1> QED BY <1>2, <1>3, <1>4, <1>5, <1>6, <1>7, <1>8 DEF Objects, FirstClass, Closures

\* luaC_separateudata queues nothing that is needed without the help of a
\* pending userdata: all of that is marked.
LEMMA SeparateQueues ==
  ASSUME SafetyInv, TypeOK', CycleInv, SeparateUdata
  PROVE  H!Queue
<1> USE Kinds, KindsApart
<1> DEFINE M == {x \in Objects : mark[x] \in {"gray", "black"}}
<1>0. /\ TypeOK /\ gcstate = "propagate" /\ stage = 3 /\ gray = {}
      /\ finalized' = finalized \cup ToFinalize
      /\ tmudata' = tmudata \cup {u \in ToFinalize : metatable[u] \in HasGC}
      /\ MarkedInv /\ WeakKept
  BY DEF SeparateUdata, AtomicPart, SafetyInv, MarkInv, CycleInv
<1>1. /\ LiveObjects' = LiveObjects /\ HeapRefs' = HeapRefs /\ HeapKids' = HeapKids
      /\ Held' = Held /\ WeakTables' = WeakTables
  <2>1. Marking
    BY DEF Marking
  <2> QED BY <2>1, MarkingFacts
    DEF LiveObjects, HeapRefs, HeapKids, Held, WeakTables, weakkey, weakvalue
<1>2. M \subseteq LiveObjects
  BY <1>0, OtherWhiteType DEF LiveObjects, Live, TypeOK, Whites
<1>3. Held \subseteq M
  BY <1>0, KindsAssumption DEF Held, MarkedInv, Marked, TypeOK, Threads
<1>4. \A x \in M \ tmudata : Kids(x) \subseteq M
  <2>1. \A x \in M : Kids(x) \subseteq Objects
    BY DEF Kids, Refs
  <2> QED BY <1>0, <2>1, MarkedClosed DEF Marked
<1>5. H!InUse \subseteq M
  <2> HIDE DEF M
  <2> QED BY <1>2, <1>3, <1>4, KeptInside DEF H!InUse
<1>6. ToFinalize \cap M = {}
  BY DEF ToFinalize, iswhite, Whites
<1>7. /\ tmudata \subseteq tmudata' /\ finalized \subseteq finalized'
      /\ tmudata' \ tmudata \subseteq ToFinalize /\ ToFinalize \cap finalized = {}
      /\ finalized' \ finalized = ToFinalize
  BY <1>0 DEF ToFinalize
<1>8. ToFinalize \subseteq LiveObjects
  <2>1. \A u \in ToFinalize : u \in Objects /\ mark[u] = currentwhite
    BY <1>0, NoneDead DEF ToFinalize, iswhite, Sweeping, Whites
  <2> QED BY <1>0, <2>1, OtherWhiteType DEF LiveObjects, Live, TypeOK, Whites
<1> HIDE DEF M
<1> QED BY <1>1, <1>5, <1>6, <1>7, <1>8 DEF H!Queue

\* The entry that cleartable removes from a weak table refers to something
\* that is gone or finalized.
LEMMA ClearedLoses ==
  ASSUME SafetyInv, TypeOK', CycleInv, ClearAndFlip, NEW o \in weak, Cleared(o), Live(o)'
  PROVE  H!LosesEntry(o)
<1> USE Kinds, KindsApart, KindsAssumption
<1>0. /\ TypeOK /\ ListInv /\ TracedInv /\ WeakKept /\ stage = 4
      /\ o \in Tables /\ Live(o) /\ val[o] # Nil
      /\ metatable' = metatable /\ key'[o] = Nil /\ val'[o] = Nil
  BY FlipFacts DEF SafetyInv, MarkInv, CycleInv, ListInv, Cleared
<1>1. o \in WeakTables
  BY <1>0 DEF WeakTables, WeakKept
<1>2. /\ HeapRefs[o] = Objects \cap {metatable[o], key[o], val[o]}
      /\ HeapRefs'[o] = Objects \cap {metatable[o]}
      /\ HeapKids'[o] = Objects \cap {metatable[o]}
      /\ Objects \cap {metatable[o]} \subseteq HeapKids[o]
  <2>1. Refs(o) = Objects \cap {metatable[o], key[o], val[o]}
    BY <1>0 DEF Refs
  <2>2. Refs(o)' = Objects \cap {metatable[o]} /\ Kids(o)' = Objects \cap {metatable[o]}
    BY <1>0 DEF Refs, Kids, weakvalue
  <2>3. Objects \cap {metatable[o]} \subseteq Kids(o)
    BY <1>0 DEF Kids
  <2> QED BY <1>0, <2>1, <2>2, <2>3 DEF HeapRefs, HeapKids
<1>3. ASSUME NEW v \in {key[o], val[o]}, v \in Objects \ Strings, iswhite(v)
      PROVE  v \notin LiveObjects' /\ v # metatable[o]
  <2>1. mark[v] \notin {"gray", "black"}
    BY <1>3 DEF iswhite, Whites
  <2>2. v # metatable[o]
    BY <1>0, <1>3, <2>1 DEF TracedInv, WeakTraced, Marked
  <2> QED BY <1>3, <2>1, <2>2, FlipFacts DEF LiveObjects
<1>4. ASSUME val[o] \in Udatas \cap finalized
      PROVE  val[o] \in finalized \cap LiveObjects /\ val[o] # metatable[o]
  <2>1. val[o] \in Refs(o)
    BY <1>0, <1>4 DEF Refs
  <2>2. val[o] \in Objects /\ Live(val[o])
    BY <1>0, <2>1, LiveRefs
  <2>3. metatable[o] \in Tables \cup {Nil}
    BY <1>0 DEF TypeOK, TableOrNil
  <2>4. val[o] # metatable[o]
    BY <1>4, <2>3
  <2> QED BY <1>4, <2>2, <2>4 DEF LiveObjects
<1>5. \E x \in HeapRefs[o] \ HeapRefs'[o] : x \notin LiveObjects' \/ x \in finalized \cap LiveObjects
  <2>1. CASE iscleared(key[o], TRUE)
    BY <1>2, <1>3, <2>1 DEF iscleared
  <2>2. CASE iscleared(val[o], FALSE)
    BY <1>2, <1>3, <1>4, <2>2 DEF iscleared
  <2> QED BY <2>1, <2>2 DEF Cleared
<1> QED BY <1>1, <1>2, <1>5 DEF H!LosesEntry

\* The flip is the moment at which what nothing needs disappears.
LEMMA FlipCollects ==
  ASSUME SafetyInv, TypeOK', CycleInv, H!Sound', ClearAndFlip
  PROVE  H!Collect
<1> USE Kinds, KindsApart, KindsAssumption
<1> DEFINE M == {x \in Objects : mark[x] \in {"gray", "black"}}
<1>0. /\ TypeOK /\ gcstate = "propagate" /\ stage = 4 /\ gray = {}
      /\ MarkedInv /\ WeakKept
      /\ UNCHANGED <<tmudata, finalized, metatable, env, up, at, stack, running, basicmt>>
  BY FlipFacts DEF SafetyInv, MarkInv, CycleInv
<1>1. H!Needed \subseteq LiveObjects'
  <2>1. M \subseteq LiveObjects /\ M \subseteq LiveObjects'
    BY FlipFacts DEF LiveObjects
  <2>2. Held \cup tmudata \subseteq M
    BY <1>0 DEF Held, MarkedInv, Marked, TypeOK, Threads, SafetyInv, PendingInv
  <2>3. \A x \in M \ {} : Kids(x) \subseteq M
    <3>1. \A x \in M : Kids(x) \subseteq Objects
      BY DEF Kids, Refs
    <3> QED BY <1>0, <3>1, MarkedClosed DEF Marked
  <2> HIDE DEF M
  <2> QED BY <2>1, <2>2, <2>3, KeptInside DEF H!Needed
<1>2. LiveObjects' \subseteq LiveObjects
  BY FlipFacts DEF LiveObjects
<1>3. ASSUME NEW o \in LiveObjects'
      PROVE  (HeapRefs'[o] = HeapRefs[o] /\ HeapKids'[o] = HeapKids[o]) \/ H!LosesEntry(o)
  <2>1. o \in Objects /\ Live(o) /\ Live(o)'
    BY <1>2 DEF LiveObjects
  <2>2. CASE o \in weak /\ Cleared(o)
    BY <2>1, <2>2, ClearedLoses
  <2>3. CASE ~(o \in weak /\ Cleared(o))
    <3>1. o \in UpVals => Value(o)' = Value(o)
      BY <1>0, FlipFacts DEF Value, isopen
    <3>2. o \in Tables => metatable'[o] = metatable[o] /\ val'[o] = val[o] /\ key'[o] = key[o]
      BY <1>0, <2>3, FlipFacts
    <3>3. Refs(o)' = Refs(o) /\ Kids(o)' = Kids(o)
      BY <1>0, <2>1, <3>1, <3>2, FlipFacts, SameFields
    <3> QED BY <2>1, <3>3 DEF HeapRefs, HeapKids
  <2> QED BY <2>2, <2>3
<1>4. WeakTables' = WeakTables \cap LiveObjects'
  BY <1>0, <1>2 DEF WeakTables, LiveObjects, weakkey, weakvalue
<1>5. /\ finalized' \cap LiveObjects' = (finalized \cap LiveObjects) \cap LiveObjects'
      /\ Held' = Held
  BY <1>0, <1>2 DEF Held
<1> QED BY <1>0, <1>1, <1>2, <1>3, <1>4, <1>5 DEF H!Collect

\* GCTM gives a pending userdata to a slot of the running thread, which an open
\* upvalue may share.
LEMMA GCTMFinalizes ==
  ASSUME SafetyInv, TypeOK', NEW u \in Udatas, NEW s \in Slots, GCTM(u, s)
  PROVE  H!Finalize(u)
<1> USE Kinds, KindsApart, KindsAssumption
<1> DEFINE Sharing == {o \in LiveObjects : o = running \/ (o \in UpVals /\ at[o] = <<running, s>>)}
           S == IF metatable[u] \in HasGC THEN Sharing ELSE {}
<1>0. /\ TypeOK /\ u \in tmudata /\ tmudata' = tmudata \ {u}
      /\ mark' = [mark EXCEPT ![u] = currentwhite]
      /\ metatable[u] \in HasGC => /\ stack[running][s] = Nil
                                   /\ stack' = [stack EXCEPT ![running][s] = u]
      /\ metatable[u] \notin HasGC => stack' = stack
      /\ UNCHANGED <<currentwhite, finalized, metatable, env, key, val, up, at, running, basicmt>>
  BY DEF GCTM, SafetyInv, control, fields, makewhite
<1>1. \A x \in Objects : Live(x)' <=> Live(x)
  <2>1. Live(u)
    BY <1>0 DEF SafetyInv, RootsInv, Roots
  <2>2. otherwhite' = otherwhite /\ otherwhite # currentwhite /\ currentwhite # "free"
    BY <1>0, OtherWhiteType DEF otherwhite, TypeOK, Whites
  <2> QED BY <1>0, <2>1, <2>2 DEF Live, TypeOK
<1>2. LiveObjects' = LiveObjects
  BY <1>1 DEF LiveObjects
<1>3. WeakTables' = WeakTables /\ Held' = Held
  BY <1>0, <1>1 DEF WeakTables, weakkey, weakvalue, Held
<1>4. S \in SUBSET LiveObjects
  OBVIOUS
<1>5. ASSUME NEW o \in Objects, o \notin UpVals, o \notin Threads
      PROVE  Refs(o)' = Refs(o) /\ Kids(o)' = Kids(o)
  BY <1>0, <1>5, SameFields
<1>6. ASSUME NEW th \in Threads
      PROVE  /\ Kids(th) = Refs(th) /\ Kids(th)' = Refs(th)'
             /\ Refs(th)' = IF metatable[u] \in HasGC /\ th = running THEN Refs(th) \cup {u}
                            ELSE Refs(th)
  <2>1. /\ Kids(th) = Refs(th) /\ Kids(th)' = Refs(th)'
        /\ Refs(th) = Objects \cap {stack[th][k] : k \in Slots}
        /\ Refs(th)' = Objects \cap {stack'[th][k] : k \in Slots}
    BY DEF Refs, Kids, Closures
  <2>2. CASE metatable[u] \in HasGC /\ th = running
    <3>1. /\ stack[th][s] = Nil /\ stack'[th][s] = u
          /\ \A k \in Slots : k # s => stack'[th][k] = stack[th][k]
      BY <1>0, <2>2 DEF TypeOK
    <3> QED BY <2>1, <2>2, <3>1
  <2>3. CASE ~(metatable[u] \in HasGC /\ th = running)
    <3>1. stack'[th] = stack[th]
      BY <1>0, <2>3 DEF TypeOK
    <3> QED BY <2>1, <2>3, <3>1
  <2> QED BY <2>2, <2>3
<1>7. ASSUME NEW uv \in UpVals
      PROVE  /\ Kids(uv) = Refs(uv) /\ Kids(uv)' = Refs(uv)'
             /\ Refs(uv)' = IF metatable[u] \in HasGC /\ at[uv] = <<running, s>>
                            THEN Refs(uv) \cup {u} ELSE Refs(uv)
  <2>1. /\ Kids(uv) = Refs(uv) /\ Kids(uv)' = Refs(uv)'
        /\ Refs(uv) = Objects \cap {Value(uv)} /\ Refs(uv)' = Objects \cap {Value(uv)'}
    BY DEF Refs, Kids, Closures
  <2>2. CASE metatable[u] \in HasGC /\ at[uv] = <<running, s>>
    <3>1. isopen(uv) /\ isopen(uv)' /\ at[uv][1] = running /\ at[uv][2] = s /\ at' = at
      BY <1>0, <2>2 DEF isopen, TypeOK
    <3>2. Value(uv) = Nil /\ Value(uv)' = u
      BY <1>0, <2>2, <3>1 DEF Value, TypeOK
    <3> QED BY <2>1, <2>2, <3>2
  <2>3. CASE ~(metatable[u] \in HasGC /\ at[uv] = <<running, s>>)
    <3>1. CASE isopen(uv)
      <4>1. /\ at[uv] \in Threads \X Slots /\ at'[uv] = at[uv]
            /\ isopen(uv)'
        BY <1>0, <3>1 DEF isopen, TypeOK
      <4>2. at[uv][1] \in Threads /\ at[uv][2] \in Slots /\ at[uv] = <<at[uv][1], at[uv][2]>>
        BY <4>1
      <4>3. stack'[at[uv][1]][at[uv][2]] = stack[at[uv][1]][at[uv][2]]
        BY <1>0, <2>3, <4>2 DEF TypeOK
      <4>4. Value(uv)' = Value(uv)
        BY <3>1, <4>1, <4>3 DEF Value
      <4> QED BY <2>1, <2>3, <4>4
    <3>2. CASE ~isopen(uv)
      <4>1. Value(uv)' = Value(uv)
        BY <1>0, <3>2 DEF isopen, Value
      <4> QED BY <2>1, <2>3, <4>1
    <3> QED BY <3>1, <3>2
  <2> QED BY <2>2, <2>3
<1>8. running \in Threads
  BY <1>0 DEF TypeOK
<1>9. \A o \in Objects : /\ Refs(o)' = IF o \in S /\ Live(o) THEN Refs(o) \cup {u} ELSE Refs(o)
                         /\ Kids(o)' = IF o \in S /\ Live(o) THEN Kids(o) \cup {u} ELSE Kids(o)
                    \/ ~Live(o)
  BY <1>5, <1>6, <1>7, <1>8 DEF LiveObjects
<1>10. HeapRefs' = [o \in Objects |-> IF o \in S THEN HeapRefs[o] \cup {u} ELSE HeapRefs[o]]
  BY <1>1, <1>9 DEF HeapRefs, LiveObjects
<1>11. HeapKids' = [o \in Objects |-> IF o \in S THEN HeapKids[o] \cup {u} ELSE HeapKids[o]]
  BY <1>1, <1>9 DEF HeapKids, LiveObjects
<1> HIDE DEF S
<1> QED BY <1>0, <1>2, <1>3, <1>4, <1>10, <1>11 DEF H!Finalize

\* Whatever the program does, it frees nothing that is live, gives back nothing
\* that is condemned but strings and upvalues, and finalizes nothing.
LEMMA MutatorPrograms ==
  ASSUME SafetyInv, TypeOK', CycleInv, H!Sound', Mutator
  PROVE  H!Program
<1> USE Kinds, KindsApart
<1>0. /\ TypeOK /\ currentwhite \in Whites /\ currentwhite' = currentwhite
      /\ otherwhite' = otherwhite /\ otherwhite # currentwhite /\ otherwhite \in Whites
      /\ UNCHANGED <<tmudata, finalized>>
  BY MutatorMarks, OtherWhiteType DEF SafetyInv, TypeOK, otherwhite, control
<1>1. \A x \in Objects : Live(x) => Live(x)'
  BY <1>0, MutatorMarks DEF Live, isdead, Whites
<1>2. \A u \in finalized : u \in Udatas /\ (Live(u)' <=> Live(u))
  <2>1. \A u \in finalized : u \in Udatas /\ mark[u] # "free"
    BY <1>0 DEF CycleInv, FinalizedInv, TypeOK
  <2> QED BY <1>0, <1>1, <2>1, MutatorMarks DEF Live
<1>3. LiveObjects \subseteq LiveObjects' /\ (finalized \cap LiveObjects)' = finalized \cap LiveObjects
  BY <1>0, <1>1, <1>2 DEF LiveObjects
<1> QED BY <1>0, <1>3 DEF H!Program

\* Every step of the collector is a step of the abstract one or invisible.
LEMMA CollectorSteps ==
  ASSUME SafetyInv, TypeOK', CycleInv, H!Sound', singlestep \/ FullGC
  PROVE  H!Collector \/ UNCHANGED H!vars
<1>1. CASE Marking
  <2>1. CASE SeparateUdata
    BY <2>1, SeparateQueues DEF H!Collector
  <2> QED BY <1>1, <2>1, MarkingHidden
<1>2. CASE ClearAndFlip
  BY <1>2, FlipCollects DEF H!Collector
<1>3. CASE (\E o \in Strings : SweepString(o)) \/ (\E o \in Objects : SweepObject(o))
  BY <1>3, SweepHidden
<1>4. CASE EndSweepStrings \/ EndCycle \/ FullGC
  BY <1>4, PhaseHidden
<1>5. CASE \E u \in Udatas, s \in Slots : GCTM(u, s)
  BY <1>5, GCTMFinalizes, Kinds DEF H!Collector
<1> QED BY <1>1, <1>2, <1>3, <1>4, <1>5 DEF singlestep, Marking

\* What the refinement needs of the states before and after a step.
Before == SafetyInv /\ CycleInv
After  == TypeOK /\ H!Sound

\* Both hold in every reachable state.
LEMMA HeapInvariant == Spec => [](Before /\ After)
<1>1. SafetyInv => TypeOK
  BY DEF SafetyInv
<1> QED BY <1>1, SafetyInvariant, CycleInvariant, HeapSound, PTL DEF Before, After

\* LuaGC implements Heap: for every set of objects, however the steps of the
\* collector fall between the operations of the program, the program sees a
\* heap from which only what it cannot use disappears.
THEOREM Refinement == Spec => IsHeap
<1>1. Init => H!Init
  BY InitSafe, HeapSound DEF Init, H!Init
<1>2. Before /\ After' /\ [Next]_vars => [H!Next]_(H!vars)
  <2> SUFFICES ASSUME SafetyInv, CycleInv, TypeOK', H!Sound', [Next]_vars
               PROVE  H!Next \/ UNCHANGED H!vars
    BY DEF Before, After
  <2>1. CASE singlestep \/ FullGC
    BY <2>1, CollectorSteps DEF H!Next
  <2>2. CASE Mutator
    BY <2>2, MutatorPrograms DEF H!Next
  <2>3. CASE UNCHANGED vars
    BY <2>3 DEF vars, control, lists, queues, fields, machine, H!vars, LiveObjects, HeapRefs, HeapKids,
       WeakTables, Held, Live, otherwhite, Kids, Refs, Value, isopen, weakkey, weakvalue
  <2> QED BY <2>1, <2>2, <2>3 DEF Next
<1> QED BY <1>1, <1>2, HeapInvariant, PTL DEF Spec, IsHeap, H!Spec

\* The collector's own steps are those of the abstract collector: none of them
\* moves a reference of the program.
THEOREM Transparent == Spec => CollectorTransparent
<1>1. Before /\ After' /\ [Next]_vars =>
        [singlestep \/ FullGC => [H!Collector]_(H!vars)]_vars
  BY CollectorSteps DEF Before, After
<1> QED BY <1>1, HeapInvariant, PTL DEF Spec, CollectorTransparent

=============================================================================
