------------------------------ MODULE LuaGCHeap ------------------------------
(***************************************************************************)
(* LuaGC implements the heap of module Heap: its steps are the steps of a  *)
(* collector that frees garbage at once and of a program that allocates    *)
(* and moves references, or they are invisible.                            *)
(***************************************************************************)
EXTENDS LuaGCInv

\* A condemned object is gone for the program before its memory is freed.
LiveObjects == {o \in Objects : Live(o)}

\* The objects the program holds directly.
Held == {MainThread, Registry, running} \cup ({basicmt} \cap Objects)

HeapRefs   == [o \in Objects |-> IF Live(o) THEN Refs(o) ELSE {}]
HeapKids   == [o \in Objects |-> IF Live(o) THEN Kids(o) ELSE {}]
WeakTables == {t \in Tables : Live(t) /\ (weakkey(t) \/ weakvalue(t))}

H == INSTANCE Heap WITH
  Object <- Objects, live <- LiveObjects, refs <- HeapRefs, strong <- HeapKids,
  weaktables <- WeakTables, roots <- Held, pending <- tmudata,
  finalized <- finalized \cap LiveObjects

\* What the refinement rests on, with SafetyInv.  tmudata is not empty before
\* the last part of atomic() when a full collection has met pending userdata.
QueueInv == full = "no" /\ (gcstate = "pause" \/ (gcstate = "propagate" /\ stage < 4)) =>
              tmudata = {}
\* A finalized userdata is still allocated.
FinalizedInv == \A u \in finalized : mark[u] # "free"
\* When weak tables have been traversed again, `weak' holds no other tables,
\* and all that they keep alive is marked.
WeakKept == stage >= 2 => \A t \in weak : /\ weakkey(t) \/ weakvalue(t)
                                         /\ \A x \in Kids(t) : Marked(x)
\* A full collection keeps every weak table it meets gray, ...
WeakGray == full = "mark" /\ gcstate = "propagate" =>
              \A t \in Tables : mark[t] = "black" => ~weakvalue(t)
\* ... and one that became weak behind the back of an incremental one has no
\* pending userdata as its value.
WeakValuesOut == stage = 4 => \A t \in Tables : mark[t] = "black" /\ weakvalue(t) =>
                                val[t] \notin tmudata
\* A full collection marks nothing but what is needed.
MarksNeeded == full = "mark" /\ gcstate = "propagate" =>
                 \A o \in Objects : mark[o] \in {"gray", "black"} => o \in H!Needed

CycleInv == /\ QueueInv /\ FinalizedInv /\ WeakKept /\ WeakGray
            /\ WeakValuesOut /\ MarksNeeded

\* The program, whatever it does and wherever the steps of the collector fall
\* between its operations, sees such a heap: nothing it can use disappears,
\* and no userdata it can use without the help of a pending one is finalized.
IsHeap == H!Spec

\* The steps of singlestep and luaC_fullgc change the heap only as a collector
\* may: none of them moves a reference of the program or allocates, and a weak
\* table loses an entry only to an object that is gone or finalized.
CollectorTransparent == [][singlestep \/ FullGC => [H!Collector]_(H!vars)]_vars

\* A full collection is complete: whatever an interrupted cycle had marked or
\* queued before, when luaC_fullgc has marked nothing is live but what is
\* needed (strings apart: weak tables keep theirs), and when it returns nothing
\* is allocated but what is live.
FullGCPrecise ==
  [][/\ full = "mark" /\ ~Sweeping /\ Sweeping' =>
          \A o \in Objects \ Strings : Live(o)' => o \in H!Needed
     /\ full = "mark" /\ full' = "no" => (\A o \in Objects : mark[o] # "free" => Live(o))']_vars
=============================================================================
