----------------------------- MODULE MCLuaCall -----------------------------
(* Small instances of LuaCall.                                             *)
EXTENDS LuaCallInv, TLC

CONSTANTS co1, co2, u1, u2

\* The coroutines are interchangeable.
CoroutineSymmetry == Permutations(Coroutines)
=============================================================================
