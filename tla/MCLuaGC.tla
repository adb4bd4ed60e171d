------------------------------- MODULE MCLuaGC -------------------------------
(* Small instances of LuaGC.  The model values are declared here so that the *)
(* configurations can share them.                                            *)
EXTENDS LuaGCHeap, TLC

CONSTANTS t0, t1, u1, u2, lc1, lc2, cc1, uv1, uv2, th1, str1

\* Closures are interchangeable, and so are upvalues.
ClosureSymmetry == Permutations({lc1, lc2}) \cup Permutations({uv1, uv2})

\* Bounds of the runs with metatables: a metatable holds nothing but its
\* metamethods; the program stores nothing in the registry.
BareMetatables == \A t \in MetaTables \ {Registry} : metatable[t] = Nil /\ key[t] = Nil
BareRegistry   == metatable[Registry] = Nil /\ key[Registry] = Nil
=============================================================================
