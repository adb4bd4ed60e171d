----------------------------- MODULE MCLuaTable -----------------------------
(* A small instance of LuaTable. *)
EXTENDS LuaTable
CONSTANTS o1, s1, v1

\* The integers collide with each other and with the others; a string of hash 3 has
\* the node newkey takes first as its main position.
MCHashes ==
  {h \in [Keys -> {0, 1, 3}] :
    h[1] = 0 /\ h[2] = 1 /\ h[3] = 0 /\ h[s1] \in {1, 3} /\ h[o1] \in {0, 1}}
=============================================================================
