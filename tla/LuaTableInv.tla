----------------------------- MODULE LuaTableInv -----------------------------
(***************************************************************************)
(* The inductive invariant of a table: its chains, the places of its keys, *)
(* and what it holds.                                                      *)
(*                                                                         *)
(* A chain is a linked list; next is a function from nodes to nodes and    *)
(* NULL.  What the chain from a node on is, is said by sets of nodes and   *)
(* not by walking, so that what newkey does to it can be reasoned about    *)
(* without induction.                                                      *)
(***************************************************************************)
EXTENDS LuaTable

IsList(next) ==
  NULL \notin DOMAIN next /\ next \in [DOMAIN next -> DOMAIN next \cup {NULL}]

\* S is left by no link.
Closed(next, S) == \A x \in S : next[x] \in S \cup {NULL}

\* The nodes of the chain from node n on.
Chain(next, n) ==
  {o \in DOMAIN next : \A S \in SUBSET DOMAIN next : n \in S /\ Closed(next, S) => o \in S}

\* Every chain ends.
Acyclic(next) == \A S \in SUBSET DOMAIN next : S # {} => \E x \in S : next[x] \notin S

\* No two nodes are followed by the same one.
Linear(next) ==
  \A x, y \in DOMAIN next : next[x] = next[y] /\ next[x] # NULL => x = y

\* No node is followed by n, and n by none.
Unlinked(next, n) == n \in DOMAIN next /\ next[n] = NULL /\ \A x \in DOMAIN next : next[x] # n

\* f is linked behind m; f takes the place of m, which p precedes.
LinkedBehind(next, m, f) == [next EXCEPT ![f] = next[m], ![m] = f]
Replaced(next, p, m, f)  == [next EXCEPT ![p] = f, ![f] = next[m], ![m] = NULL]

-----------------------------------------------------------------------------
(* One table.                                                              *)

Nodes(tb) == 0..sizenode(tb) - 1
links(tb) == [n \in Nodes(tb) |-> tb.node[n].next]
mp(tb, n) == mainposition(tb, tb.node[n].k)

NodeType(size) == [k : Keys \cup {Nil}, dead : BOOLEAN, v : Values \cup {Nil},
                   next : 0..size - 1 \cup {NULL}]

\* The tables of these sizes.
TablesOf(nasize, lsize) ==
  [sizearray : {nasize}, array : [1..nasize -> Values \cup {Nil}],
   lsizenode : {lsize}, node : [0..twoto[lsize] - 1 -> NodeType(twoto[lsize])],
   lastfree : 0..twoto[lsize], dummy : BOOLEAN, ok : BOOLEAN]

IsTable(tb) ==
  /\ tb.sizearray \in Nat /\ tb.lsizenode \in Nat
  /\ tb \in TablesOf(tb.sizearray, tb.lsizenode)

\* A node that never had a key is in no chain; a dead key has no value.
NodesOK(tb) ==
  \A n \in Nodes(tb) :
    /\ tb.node[n].k = Nil => tb.node[n] = FreeNode /\ Unlinked(links(tb), n)
    /\ tb.node[n].dead => tb.node[n].v = Nil

ChainsOK(tb) == Acyclic(links(tb)) /\ Linear(links(tb))

\* A key is in the chain of its main position, and if any key has this main
\* position then the one that is there has.
PlacesOK(tb) ==
  \A n \in Nodes(tb) : tb.node[n].k # Nil =>
    /\ n \in Chain(links(tb), mp(tb, n))
    /\ tb.node[mp(tb, n)].k # Nil /\ mp(tb, mp(tb, n)) = mp(tb, n)

\* No key is alive in two nodes, and a dead copy of it comes behind.
KeysOK(tb) ==
  \A n, m \in Nodes(tb) :
    tb.node[n].k # Nil /\ tb.node[n].k = tb.node[m].k /\ ~tb.node[n].dead /\ n # m =>
      tb.node[m].dead /\ m \in Chain(links(tb), n)

\* The array has integer keys only, and no node has one of these.
ArrayOK(tb) ==
  /\ \A i \in 1..tb.sizearray : tb.array[i] # Nil => i \in Keys
  /\ \A n \in Nodes(tb) : tb.node[n].k \notin 1..tb.sizearray

\* No node from lastfree on is free; the dummynode is never used.
FreeOK(tb) ==
  IF tb.dummy THEN tb.lsizenode = 0 /\ tb.node[0].k = Nil
  ELSE \A n \in Nodes(tb) : n >= tb.lastfree => tb.node[n].k # Nil

TableOK(tb) ==
  IsTable(tb) /\ NodesOK(tb) /\ ChainsOK(tb) /\ PlacesOK(tb) /\ KeysOK(tb) /\ ArrayOK(tb) /\ FreeOK(tb)

-----------------------------------------------------------------------------

\* The key of a traversal is still in the table.
CurOK ==
  cur \in Keys \cup {Nil, Off} /\
  (cur \in Keys => cur \in 1..t.sizearray \/ \E n \in Nodes(t) : t.node[n].k = cur)

TableInv ==
  /\ hash \in Hashes /\ fields \in [Keys -> Values \cup {Nil}]
  /\ TableOK(t) /\ t.ok /\ HoldsFields /\ CurOK
=============================================================================
