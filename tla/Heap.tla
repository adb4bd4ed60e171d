-------------------------------- MODULE Heap --------------------------------
(***************************************************************************)
(* What a garbage collector promises to any program, after sections 2.10   *)
(* and 2.10.1 of the manual: a heap from which objects disappear at once,  *)
(* and only those that nothing needs.  It knows no colour, no phase and no *)
(* barrier.  LuaGCHeap shows that LuaGC implements it.                     *)
(***************************************************************************)
CONSTANT Object

VARIABLES
  live,       \* the objects that exist
  refs,       \* what each of them refers to
  strong,     \* what of it the object keeps alive
  weaktables, \* the objects that do not keep all of it alive
  roots,      \* the objects the program holds directly
  pending,    \* the userdata whose finalizers are still to be called
  finalized   \* these, those whose finalizers were called, and those that had none

vars == <<live, refs, strong, weaktables, roots, pending, finalized>>

\* What is kept alive from the objects of S, without passing through those of
\* Closed: the least set that contains S and what its own objects keep alive.
Kept(S, Closed) ==
  {o \in live : \A T \in SUBSET live :
                  S \subseteq T /\ (\A x \in T \ Closed : strong[x] \subseteq T) => o \in T}

\* What the program can still use, the userdata it is yet to finalize included.
Needed == Kept(roots \cup pending, {})

\* What it can use without the help of a userdata that awaits its finalizer.
InUse == Kept(roots, pending)

\* Nothing that exists refers to anything that does not.
Sound ==
  /\ roots \subseteq live
  /\ pending \subseteq finalized /\ finalized \subseteq live
  /\ weaktables \subseteq live
  /\ \A o \in live : strong[o] \subseteq refs[o] /\ refs[o] \subseteq live
  /\ \A o \in live \ weaktables : strong[o] = refs[o]

Init == Sound /\ finalized = {}

\* The program allocates objects and moves references as it likes.
Program ==
  /\ live \subseteq live'
  /\ UNCHANGED <<pending, finalized>>
  /\ Sound'

\* The collector queues garbage for finalization, each object once.
Queue ==
  /\ UNCHANGED <<live, refs, strong, weaktables, roots>>
  /\ pending \subseteq pending' /\ finalized \subseteq finalized'
  /\ pending' \ pending \subseteq finalized' \ finalized
  /\ \A u \in finalized' \ finalized : u \in live \ InUse

\* A weak table loses an entry that refers to what is gone or finalized.
LosesEntry(o) ==
  /\ o \in weaktables
  /\ refs'[o] \subseteq refs[o] /\ strong'[o] \subseteq strong[o]
  /\ \E x \in refs[o] \ refs'[o] : x \notin live' \/ x \in finalized

\* Some of what nothing needs disappears.  The objects that stay refer to what
\* they referred to, but for the entries of weak tables.
Collect ==
  /\ Needed \subseteq live' /\ live' \subseteq live
  /\ \A o \in live' : (refs'[o] = refs[o] /\ strong'[o] = strong[o]) \/ LosesEntry(o)
  /\ weaktables' = weaktables \cap live'
  /\ finalized' = finalized \cap live'
  /\ UNCHANGED <<roots, pending>>
  /\ Sound'

\* A pending userdata is handed to its finalizer, if it still has one: objects
\* that share a place of the program come to refer to it.
Finalize(u) ==
  /\ u \in pending
  /\ pending' = pending \ {u}
  /\ \E S \in SUBSET live :
       /\ refs' = [o \in Object |-> IF o \in S THEN refs[o] \cup {u} ELSE refs[o]]
       /\ strong' = [o \in Object |-> IF o \in S THEN strong[o] \cup {u} ELSE strong[o]]
  /\ UNCHANGED <<live, weaktables, roots, finalized>>

Collector == Queue \/ Collect \/ \E u \in Object : Finalize(u)

Next == Program \/ Collector
Spec == Init /\ [][Next]_vars
=============================================================================
