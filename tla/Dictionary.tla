----------------------------- MODULE Dictionary -----------------------------
(***************************************************************************)
(* What a Lua table promises: a function from keys to values, nil for all  *)
(* but a few of them, and a traversal that gives every field that is       *)
(* present once, in some order, while fields may be changed and cleared    *)
(* but not created.                                                        *)
(***************************************************************************)
EXTENDS Naturals

CONSTANTS Keys, Values, Nil

VARIABLES
  map,         \* the value of each key
  traversing,  \* whether a traversal is under way
  left         \* the fields it has still to give

vars == <<map, traversing, left>>

Init == map = [k \in Keys |-> Nil] /\ traversing = FALSE /\ left = {}

\* A field that does not exist ends the traversal: what next does is undefined.
Assign(k, v) ==
  /\ map' = [map EXCEPT ![k] = v]
  /\ traversing' = (traversing /\ map[k] # Nil)
  /\ left' = IF map[k] = Nil THEN {} ELSE IF v = Nil THEN left \ {k} ELSE left

Begin ==
  /\ ~traversing /\ traversing' = TRUE
  /\ left' = {k \in Keys : map[k] # Nil}
  /\ UNCHANGED map

Give(k) ==
  /\ UNCHANGED <<map, traversing>>
  /\ traversing /\ k \in left
  /\ left' = left \ {k}

End == traversing /\ left = {} /\ traversing' = FALSE /\ UNCHANGED <<map, left>>

Next ==
  \/ \E k \in Keys, v \in Values \cup {Nil} : Assign(k, v)
  \/ Begin
  \/ \E k \in Keys : Give(k)
  \/ End

Spec == Init /\ [][Next]_vars
=============================================================================
