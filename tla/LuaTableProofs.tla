--------------------------- MODULE LuaTableProofs ---------------------------
(***************************************************************************)
(* Tables for every hash function: each function of ltable.c keeps the     *)
(* invariant of LuaTableInv and does to the fields what it should, from    *)
(* the insertion of one key over the loops of resize to luaH_set; the      *)
(* traversal, the dictionary a table implements and the border that is its *)
(* length follow.                                                          *)
(***************************************************************************)
EXTENDS ChainTheorems

-----------------------------------------------------------------------------
(* Sizes.                                                                  *)

\* twoto (lobject.h:359) is what its recursion says.
LEMMA TwotoDef == /\ twoto \in [Nat -> Nat] /\ twoto[0] = 1
                  /\ \A n \in Nat : twoto[n + 1] = 2 * twoto[n]
<1> DEFINE g == [p \in Nat \X Nat |-> 2 * p[2]]
<1>1. g \in [Nat \X Nat -> Nat] /\ \A n, x \in Nat : g[<<n, x>>] = 2 * x OBVIOUS
<1> HIDE DEF g
<1>0. 1 \in Nat OBVIOUS
<1>2. PICK f : Iterates(f, Nat, 1, g) BY <1>0, <1>1, Iteration
<1>3. \A n \in Nat : f[n + 1] = 2 * f[n] BY <1>1, <1>2 DEF Iterates
<1>4. \A n \in Nat : n # 0 => f[n] = 2 * f[n - 1]
  <2> TAKE n \in Nat
  <2> HAVE n # 0
  <2>1. n - 1 \in Nat /\ (n - 1) + 1 = n OBVIOUS
  <2> QED BY <2>1, <1>3
<1>5. f = [n \in Nat |-> IF n = 0 THEN 1 ELSE 2 * f[n - 1]]
  BY <1>2, <1>4 DEF Iterates
<1>6. twoto = [n \in Nat |-> IF n = 0 THEN 1 ELSE 2 * twoto[n - 1]]
  BY <1>5 DEF twoto
<1>7. \A n \in Nat : twoto[n + 1] = 2 * twoto[n] BY <1>6
<1>8. twoto[0] = 1 BY <1>6
<1> DEFINE T == {n \in Nat : twoto[n] \in Nat}
<1>9. Nat \subseteq T
  <2>1. 0 \in T BY <1>8
  <2>2. \A n \in Nat : n \in T => n + 1 \in T BY <1>7
  <2> HIDE DEF T
  <2> QED BY <2>1, <2>2, SetInduction
<1> QED BY <1>6, <1>7, <1>8, <1>9

\* 2^n is greater than n.
LEMMA TwotoGrows == \A n \in Nat : twoto[n] \in Nat /\ twoto[n] > n
<1> DEFINE T == {n \in Nat : twoto[n] > n}
<1>1. 0 \in T BY TwotoDef
<1>2. \A n \in Nat : n \in T => n + 1 \in T
  <2> SUFFICES ASSUME NEW n \in Nat, n \in T PROVE twoto[n + 1] > n + 1 OBVIOUS
  <2>1. twoto[n] \in Nat /\ twoto[n] > n /\ twoto[n + 1] = 2 * twoto[n] BY TwotoDef
  <2> QED BY <2>1
<1>3. Nat \subseteq T
  <2> HIDE DEF T
  <2> QED BY <1>1, <1>2, SetInduction
<1> QED BY <1>3, TwotoDef

\* setnodevector asks for as many nodes as it needs: 2^ceillog2(x) is at least x.
LEMMA Ceillog2Enough ==
  ASSUME NEW x \in Nat \ {0}
  PROVE  ceillog2(x) \in Nat /\ x <= twoto[ceillog2(x)]
<1> DEFINE T == {n \in Nat : x <= twoto[n]}
<1>1. x \in T BY TwotoGrows
<1>2. PICK m \in T : \A n \in T : m <= n
  <2> HIDE DEF T
  <2>1. T \in SUBSET Nat BY DEF T
  <2> QED BY <1>1, <2>1, Least
<1>3. \A n \in 0..m - 1 : twoto[n] < x
  <2> TAKE n \in 0..m - 1
  <2>1. n \in Nat /\ n < m OBVIOUS
  <2>2. n \notin T BY <2>1, <1>2
  <2> QED BY <2>1, <2>2, TwotoGrows
<1>4. m \in 0..x BY <1>1, <1>2
<1>5. \E n \in 0..x : x <= twoto[n] /\ \A k \in 0..n - 1 : twoto[k] < x
  BY <1>2, <1>3, <1>4
<1> QED BY <1>5 DEF ceillog2

-----------------------------------------------------------------------------
(* Places.                                                                 *)

\* The nodes of a table, with their numbers and their links.
LEMMA NodesType ==
  ASSUME NEW tb, IsTable(tb)
  PROVE  /\ sizenode(tb) \in Nat \ {0} /\ Nodes(tb) \subseteq Nat /\ 0 \in Nodes(tb)
         /\ DOMAIN tb.node = Nodes(tb) /\ NULL \notin Nodes(tb)
         /\ \A n \in Nodes(tb) : /\ tb.node[n] \in NodeType(sizenode(tb))
                                 /\ tb.node[n].next \in Nodes(tb) \cup {NULL}
<1>1. twoto[tb.lsizenode] \in Nat \ {0} BY TwotoGrows DEF IsTable
<1>2. tb.node \in [0..twoto[tb.lsizenode] - 1 -> NodeType(twoto[tb.lsizenode])]
  BY DEF IsTable, TablesOf
<1> QED BY <1>1, <1>2 DEF sizenode, Nodes, NULL, NodeType

\* The main position of a key is a node, for every hash (hashmod and lmod, ltable.c:56).
LEMMA PositionType ==
  ASSUME hash \in Hashes, NEW tb, IsTable(tb), NEW key \in Keys
  PROVE  mainposition(tb, key) \in Nodes(tb)
<1>1. hash[key] \in Nat BY TableAssumption
<1>2. sizenode(tb) \in Nat \ {0} BY NodesType
<1>3. \A a \in Nat, b \in Nat \ {0} : a % b \in 0..b - 1 OBVIOUS
<1>4. CASE key \in Strings BY <1>1, <1>2, <1>3, <1>4 DEF mainposition, Nodes
<1>5. CASE key \notin Strings
  <2> DEFINE d == IF sizenode(tb) <= 2 THEN 1 ELSE sizenode(tb) - 1
  <2>1. d \in Nat \ {0} /\ d <= sizenode(tb) BY <1>2
  <2>2. hash[key] % d \in 0..d - 1 BY <2>1, <1>1, <1>3
  <2>3. mainposition(tb, key) = hash[key] % d BY <1>5 DEF mainposition
  <2> HIDE DEF d
  <2> QED BY <1>2, <2>1, <2>2, <2>3 DEF Nodes
<1> QED BY <1>4, <1>5

\* The links of a table lead from nodes to nodes and end.
LEMMA LinksAreList ==
  ASSUME NEW tb, IsTable(tb)
  PROVE  /\ IsList(links(tb)) /\ DOMAIN links(tb) = Nodes(tb)
         /\ \A n \in Nodes(tb) : links(tb)[n] = tb.node[n].next
BY NodesType DEF IsList, links

\* The walk of luaH_get and findindex returns the first node of a chain that fits.
LEMMA FirstInFinds ==
  ASSUME NEW tb, IsTable(tb), ChainsOK(tb), NEW n \in Nodes(tb), NEW fit \in SUBSET Nodes(tb)
  PROVE  LET at == FirstIn(tb, n, fit)
             C(x) == Chain(links(tb), x)
         IN  IF at = NULL THEN C(n) \cap fit = {}
             ELSE at \in C(n) \cap fit /\ \A o \in C(n) \cap fit : o \in C(at)
<1>1. /\ IsList(links(tb)) /\ DOMAIN links(tb) = Nodes(tb) /\ DOMAIN tb.node = Nodes(tb)
      /\ \A m \in Nodes(tb) : links(tb)[m] = tb.node[m].next
      /\ Acyclic(links(tb)) /\ NULL \notin Nodes(tb)
  BY LinksAreList, NodesType DEF ChainsOK
<1>2. PICK f : Searches(f, links(tb), fit) BY <1>1, SearchExists
<1> DEFINE IsNode(h) == h = [m \in DOMAIN tb.node \cup {NULL} |->
                            IF m = NULL \/ m \in fit THEN m ELSE h[tb.node[m].next]]
<1>3. \A h : Searches(h, links(tb), fit) <=> IsNode(h)
  <2> TAKE h
  <2>1. [m \in Nodes(tb) \cup {NULL} |-> IF m = NULL \/ m \in fit THEN m ELSE h[links(tb)[m]]]
          = [m \in DOMAIN tb.node \cup {NULL} |-> IF m = NULL \/ m \in fit THEN m ELSE h[tb.node[m].next]]
    BY <1>1
  <2> QED BY <1>1, <2>1 DEF Searches
<1>4. PICK h : IsNode(h) /\ FirstIn(tb, n, fit) = h[n]
  BY <1>2, <1>3 DEF FirstIn
<1>5. Searches(h, links(tb), fit) BY <1>3, <1>4
<1>6. IF h[n] = NULL THEN Chain(links(tb), n) \cap fit = {}
      ELSE /\ h[n] \in Chain(links(tb), n) \cap fit
           /\ \A o \in Chain(links(tb), n) \cap fit : o \in Chain(links(tb), h[n])
  <2> HIDE DEF IsNode
  <2> QED BY <1>1, <1>5, SearchFinds
<1> QED BY <1>4, <1>6

\* The place of a key: its cell, or the node that has it alive.
LEMMA GetFinds ==
  ASSUME hash \in Hashes, NEW tb, TableOK(tb), NEW key \in Keys
  PROVE  /\ key \in 1..tb.sizearray => luaH_get(tb, key) = Cell(key)
         /\ \A n \in Nodes(tb) : HasKey(tb.node[n], key) =>
              key \notin 1..tb.sizearray /\ luaH_get(tb, key) = InNode(n)
         /\ (key \notin 1..tb.sizearray /\ \A n \in Nodes(tb) : ~HasKey(tb.node[n], key)) =>
              luaH_get(tb, key) = NoPlace
<1> DEFINE fit == {n \in Nodes(tb) : HasKey(tb.node[n], key)}
           at  == FirstIn(tb, mainposition(tb, key), fit)
<1>1. IsTable(tb) /\ ChainsOK(tb) /\ DOMAIN tb.node = Nodes(tb) /\ NULL \notin Nodes(tb)
  BY NodesType DEF TableOK
<1>2. mainposition(tb, key) \in Nodes(tb) BY <1>1, PositionType
<1>3. IF at = NULL THEN Chain(links(tb), mainposition(tb, key)) \cap fit = {}
      ELSE at \in Chain(links(tb), mainposition(tb, key)) \cap fit
  BY <1>1, <1>2, FirstInFinds
<1>4. fit = {n \in DOMAIN tb.node : HasKey(tb.node[n], key)} BY <1>1
<1>5. luaH_get(tb, key) = IF key \in 1..tb.sizearray THEN Cell(key)
                          ELSE IF at = NULL THEN NoPlace ELSE InNode(at)
  BY <1>4 DEF luaH_get
<1>6. key # Nil BY TableAssumption
<1>7. ASSUME NEW n \in fit PROVE n \in Chain(links(tb), mainposition(tb, key))
  <2>1. tb.node[n].k = key BY DEF HasKey
  <2> QED BY <2>1, <1>6 DEF TableOK, PlacesOK, mp
<1>8. \A n, m \in fit : n = m
  BY <1>6 DEF TableOK, KeysOK, HasKey
<1>9. \A n \in fit : key \notin 1..tb.sizearray
  BY DEF TableOK, ArrayOK, HasKey
<1> HIDE DEF at
<1> QED BY <1>1, <1>3, <1>5, <1>7, <1>8, <1>9

\* The value of a key is that of its cell, or of the node that has it alive.
LEMMA ValueIs ==
  ASSUME hash \in Hashes, NEW tb, TableOK(tb), NEW key \in Keys
  PROVE  /\ key \in 1..tb.sizearray => Value(tb, key) = tb.array[key]
         /\ \A n \in Nodes(tb) : HasKey(tb.node[n], key) => Value(tb, key) = tb.node[n].v
         /\ (key \notin 1..tb.sizearray /\ \A n \in Nodes(tb) : ~HasKey(tb.node[n], key)) =>
              Value(tb, key) = Nil
BY GetFinds DEF Value, ValueAt, Cell, InNode, NoPlace

-----------------------------------------------------------------------------
(* Nodes and what is stored in them.                                       *)

\* getfreepos (ltable.c:382) returns the last node that never had a key, and NULL only
\* when there is none.
LEMMA FreePos ==
  ASSUME NEW tb, TableOK(tb), ~tb.dummy
  PROVE  LET n == getfreepos(tb)
         IN  /\ n # NULL => /\ n \in Nodes(tb) /\ n < tb.lastfree /\ tb.node[n].k = Nil
                            /\ \A m \in Nodes(tb) : m > n => tb.node[m].k # Nil
             /\ n = NULL => \A m \in Nodes(tb) : tb.node[m].k # Nil
<1> DEFINE free == {n \in Nodes(tb) : n < tb.lastfree /\ tb.node[n].k = Nil}
<1>1. /\ IsTable(tb) /\ DOMAIN tb.node = Nodes(tb) /\ Nodes(tb) \subseteq Nat
      /\ NULL \notin Nodes(tb)
  BY NodesType DEF TableOK
<1>2. \A n \in Nodes(tb) : tb.node[n].k = Nil => n < tb.lastfree
  <2>1. tb.lastfree \in Nat BY <1>1, NodesType DEF IsTable, TablesOf
  <2> QED BY <1>1, <2>1 DEF TableOK, FreeOK
<1>3. getfreepos(tb) = IF free = {} THEN NULL ELSE Max(free) BY <1>1 DEF getfreepos
<1>4. ASSUME free # {}
      PROVE  Max(free) \in free /\ \A m \in free : m <= Max(free)
  <2> HIDE DEF free
  <2>1. free \in SUBSET Nat /\ sizenode(tb) \in Nat /\ \A m \in free : m <= sizenode(tb)
    BY <1>1, NodesType DEF Nodes, free
  <2>2. \E x \in free : \A y \in free : y <= x BY <1>4, <2>1, Greatest
  <2>3. \E x \in free : \A y \in free : x >= y BY <2>1, <2>2
  <2>4. Max(free) \in free /\ \A y \in free : Max(free) >= y BY <2>3 DEF Max
  <2> QED BY <2>1, <2>4
<1> HIDE DEF free
<1>5. CASE free = {}
  <2>1. \A m \in Nodes(tb) : tb.node[m].k # Nil BY <1>5, <1>2 DEF free
  <2> QED BY <1>3, <1>5, <2>1
<1>6. CASE free # {}
  <2>1. \A m \in Nodes(tb) : m > Max(free) => tb.node[m].k # Nil
    <3> SUFFICES ASSUME NEW m \in Nodes(tb), m > Max(free), tb.node[m].k = Nil PROVE FALSE
      OBVIOUS
    <3>1. m \in free BY <1>2 DEF free
    <3>2. Max(free) \in Nat /\ m \in Nat BY <1>1, <1>4, <1>6 DEF free
    <3> QED BY <3>1, <3>2, <1>4, <1>6
  <2> QED BY <1>1, <1>3, <1>4, <1>6, <2>1 DEF free
<1> QED BY <1>5, <1>6

\* A table with other nodes.
WithNodes(tb, nodes, lastfree) == [tb EXCEPT !.node = nodes, !.lastfree = lastfree]

\* A table with other nodes is one of the same sizes and main positions.
LEMMA WithNodesFacts ==
  ASSUME NEW tb, IsTable(tb), NEW lastfree \in 0..sizenode(tb),
         NEW nodes \in [Nodes(tb) -> NodeType(sizenode(tb))]
  PROVE  LET new == WithNodes(tb, nodes, lastfree)
         IN  /\ IsTable(new) /\ new.node = nodes /\ new.lastfree = lastfree
             /\ new.sizearray = tb.sizearray /\ new.array = tb.array /\ new.dummy = tb.dummy
             /\ new.lsizenode = tb.lsizenode /\ new.ok = tb.ok
             /\ Nodes(new) = Nodes(tb) /\ sizenode(new) = sizenode(tb)
             /\ \A key : mainposition(new, key) = mainposition(tb, key)
<1> DEFINE new == WithNodes(tb, nodes, lastfree)
<1>1. tb \in TablesOf(tb.sizearray, tb.lsizenode) BY DEF IsTable
<1>2. /\ new.node = nodes /\ new.lastfree = lastfree
      /\ new.sizearray = tb.sizearray /\ new.array = tb.array /\ new.dummy = tb.dummy
      /\ new.lsizenode = tb.lsizenode /\ new.ok = tb.ok
  BY <1>1 DEF TablesOf, WithNodes
<1>3. new \in TablesOf(tb.sizearray, tb.lsizenode)
  BY <1>1 DEF TablesOf, WithNodes, Nodes, sizenode
<1> HIDE DEF new
<1>4. IsTable(new) BY <1>2, <1>3 DEF IsTable
<1> QED BY <1>2, <1>4 DEF Nodes, sizenode, mainposition, new

\* nodes with the key and its value in node i
Filled(tb, nodes, i, key, v, all) ==
  /\ all \in [Nodes(tb) -> NodeType(sizenode(tb))]
  /\ all[i].k = key /\ ~all[i].dead /\ all[i].v = v /\ all[i].next = nodes[i].next
  /\ \A n \in Nodes(tb) \ {i} : all[n] = nodes[n]

\* A key put into node i of these nodes, with its value: only node i changes.
LEMMA IntoStored ==
  ASSUME NEW tb, IsTable(tb), NEW lastfree \in 0..sizenode(tb), NEW i \in Nodes(tb),
         NEW nodes \in [Nodes(tb) -> NodeType(sizenode(tb))],
         NEW key \in Keys, NEW v \in Values \cup {Nil}
  PROVE  \E all : /\ Filled(tb, nodes, i, key, v, all)
                  /\ StoreAt(Into(tb, nodes, i, lastfree, key).t,
                             Into(tb, nodes, i, lastfree, key).at, v)
                       = WithNodes(tb, all, lastfree)
<1> DEFINE new == Into(tb, nodes, i, lastfree, key)
           mid == [nodes EXCEPT ![i].k = key, ![i].dead = FALSE]
           all == [mid EXCEPT ![i].v = v]
<1>1. new.at = InNode(i) /\ new.t = WithNodes(tb, mid, lastfree) BY DEF Into, WithNodes
<1>2. mid \in [Nodes(tb) -> NodeType(sizenode(tb))] BY DEF NodeType
<1>3. /\ mid[i].k = key /\ mid[i].dead = FALSE /\ mid[i].next = nodes[i].next
      /\ \A n \in Nodes(tb) \ {i} : mid[n] = nodes[n]
  BY DEF NodeType
<1>4. StoreAt(new.t, new.at, v) = [WithNodes(tb, mid, lastfree) EXCEPT !.node[i].v = v]
  BY <1>1 DEF StoreAt, InNode
<1> HIDE DEF mid
<1>5. all \in [Nodes(tb) -> NodeType(sizenode(tb))] BY <1>2 DEF NodeType
<1>6. [WithNodes(tb, mid, lastfree) EXCEPT !.node[i].v = v] = WithNodes(tb, all, lastfree)
  BY <1>2 DEF WithNodes, IsTable, TablesOf
<1>7. /\ all[i].k = key /\ all[i].dead = FALSE /\ all[i].v = v /\ all[i].next = nodes[i].next
      /\ \A n \in Nodes(tb) \ {i} : all[n] = nodes[n]
  BY <1>2, <1>3 DEF NodeType
<1>8. Filled(tb, nodes, i, key, v, all) BY <1>5, <1>7 DEF Filled
<1> QED BY <1>4, <1>6, <1>8

-----------------------------------------------------------------------------
(* What an insertion makes of a table.                                     *)

Absent(tb, key) == key \notin 1..tb.sizearray /\ \A n \in Nodes(tb) : ~HasKey(tb.node[n], key)

\* Nothing but nodes has changed.
SameParts(tb, new) ==
  /\ new.sizearray = tb.sizearray /\ new.array = tb.array /\ new.lsizenode = tb.lsizenode
  /\ new.dummy = tb.dummy /\ new.ok = tb.ok
  /\ Nodes(new) = Nodes(tb) /\ sizenode(new) = sizenode(tb)
  /\ \A key : mainposition(new, key) = mainposition(tb, key)

NodeKeys(tb) == {tb.node[n].k : n \in Nodes(tb)} \ {Nil}
NoneDead(tb) == \A n \in Nodes(tb) : ~tb.node[n].dead

Inserted(tb, new, key, v) ==
  /\ TableOK(new) /\ SameParts(tb, new)
  /\ \A k \in Keys : Value(new, k) = IF k = key THEN v ELSE Value(tb, k)
  /\ NodeKeys(new) \subseteq NodeKeys(tb) \cup {key}
  /\ NoneDead(tb) => NoneDead(new)

\* A node with this key and this value, alive.
Holds(tb, k, v) == \E n \in Nodes(tb) : HasKey(tb.node[n], k) /\ tb.node[n].v = v

\* A value that is not nil is that of the cell or of a node with the key.
LEMMA ValueHeld ==
  ASSUME hash \in Hashes, NEW tb, TableOK(tb), NEW k \in Keys, NEW v, v # Nil
  PROVE  Value(tb, k) = v <=>
           IF k \in 1..tb.sizearray THEN tb.array[k] = v ELSE Holds(tb, k, v)
<1>1. CASE k \in 1..tb.sizearray BY <1>1, ValueIs
<1>2. CASE k \notin 1..tb.sizearray /\ \A n \in Nodes(tb) : ~HasKey(tb.node[n], k)
  BY <1>2, ValueIs DEF Holds
<1>3. CASE k \notin 1..tb.sizearray /\ \E n \in Nodes(tb) : HasKey(tb.node[n], k)
  <2>1. \A n \in Nodes(tb) : HasKey(tb.node[n], k) => Value(tb, k) = tb.node[n].v
    BY ValueIs
  <2> QED BY <1>3, <2>1 DEF Holds
<1> QED BY <1>1, <1>2, <1>3

\* A key has the same value in a table whose nodes hold it with the same values.
LEMMA ValueSame ==
  ASSUME hash \in Hashes, NEW tb, TableOK(tb), NEW new, TableOK(new), SameParts(tb, new),
         NEW k \in Keys,
         \A v : v # Nil => (Holds(tb, k, v) <=> Holds(new, k, v))
  PROVE  Value(new, k) = Value(tb, k)
<1>1. \A v : v # Nil => (Value(tb, k) = v <=> Value(new, k) = v)
  BY ValueHeld DEF SameParts
<1> QED BY <1>1

-----------------------------------------------------------------------------
(* The three ways in which newkey makes room for a key.                    *)

\* The main position is free, or its value is nil: the key takes the node, and its place
\* in the chain, from the one that was there (ltable.c:425).
LEMMA InsertAtMain ==
  ASSUME hash \in Hashes, NEW tb, TableOK(tb), ~tb.dummy,
         NEW key \in Keys, Absent(tb, key), NEW v \in Values \cup {Nil},
         tb.node[mainposition(tb, key)].v = Nil,
         NEW new, IsTable(new), SameParts(tb, new), new.lastfree = tb.lastfree,
         LET m == mainposition(tb, key)
         IN  /\ new.node[m].k = key /\ ~new.node[m].dead /\ new.node[m].v = v
             /\ new.node[m].next = tb.node[m].next
             /\ \A n \in Nodes(tb) \ {m} : new.node[n] = tb.node[n]
  PROVE  Inserted(tb, new, key, v)
<1> DEFINE m == mainposition(tb, key)
<1>1. /\ IsTable(tb) /\ m \in Nodes(tb) /\ key # Nil
      /\ IsList(links(tb)) /\ DOMAIN links(tb) = Nodes(tb)
  BY PositionType, LinksAreList, TableAssumption DEF TableOK
<1>2. links(new) = links(tb) BY DEF links, SameParts
<1> HIDE DEF m
<1>3. /\ new.node[m].k = key /\ ~new.node[m].dead /\ new.node[m].v = v
      /\ \A n \in Nodes(tb) \ {m} : new.node[n] = tb.node[n]
      /\ tb.node[m].v = Nil /\ mainposition(tb, key) = m
  BY DEF m
<1>4. \A n \in Nodes(tb) : tb.node[n].k = key => tb.node[n].dead
  BY DEF Absent, HasKey
<1>5. /\ \A n \in Nodes(tb) \ {m} : mp(new, n) = mp(tb, n)
      /\ mp(new, m) = m
  BY <1>3 DEF mp, SameParts
<1>6. NodesOK(new)
  BY <1>1, <1>2, <1>3 DEF TableOK, NodesOK, SameParts
<1>7. ChainsOK(new) BY <1>2 DEF TableOK, ChainsOK
<1>8. PlacesOK(new)
  <2> SUFFICES ASSUME NEW n \in Nodes(tb), new.node[n].k # Nil
               PROVE  /\ n \in Chain(links(tb), mp(new, n))
                      /\ new.node[mp(new, n)].k # Nil /\ mp(new, mp(new, n)) = mp(new, n)
    BY <1>2 DEF PlacesOK, SameParts
  <2>1. CASE n = m
    <3>1. m \in Chain(links(tb), m) BY <1>1, ChainStart
    <3> QED BY <2>1, <3>1, <1>1, <1>3, <1>5
  <2>2. CASE n # m
    <3>1. /\ n \in Chain(links(tb), mp(tb, n)) /\ mp(new, n) = mp(tb, n)
          /\ tb.node[mp(tb, n)].k # Nil /\ mp(tb, mp(tb, n)) = mp(tb, n)
      BY <2>2, <1>3, <1>5 DEF TableOK, PlacesOK
    <3>2. CASE mp(tb, n) = m BY <3>1, <3>2, <1>1, <1>3, <1>5
    <3>3. CASE mp(tb, n) # m
      <4>1. mp(tb, n) \in Nodes(tb)
        <5>1. tb.node[n].k \in Keys BY <2>2, <1>1, <1>3, NodesType DEF NodeType
        <5> QED BY <5>1, <1>1, PositionType DEF mp
      <4> QED BY <4>1, <3>1, <3>3, <1>3, <1>5
    <3> QED BY <3>2, <3>3
  <2> QED BY <2>1, <2>2
<1>9. KeysOK(new)
  <2> SUFFICES ASSUME NEW n \in Nodes(tb), NEW o \in Nodes(tb), n # o, new.node[n].k # Nil,
                      new.node[n].k = new.node[o].k, ~new.node[n].dead
               PROVE  new.node[o].dead /\ o \in Chain(links(tb), n)
    BY <1>2 DEF KeysOK, SameParts
  <2>1. CASE n = m
    <3>1. tb.node[o].k = key /\ tb.node[o].dead BY <2>1, <1>3, <1>4
    <3>2. o \in Chain(links(tb), m) BY <3>1, <1>1, <1>3 DEF TableOK, PlacesOK, mp
    <3> QED BY <2>1, <3>1, <3>2, <1>3
  <2>2. CASE o = m BY <2>2, <1>3, <1>4
  <2>3. CASE n # m /\ o # m BY <2>3, <1>3 DEF TableOK, KeysOK
  <2> QED BY <2>1, <2>2, <2>3
<1>10. ArrayOK(new)
  BY <1>3 DEF TableOK, ArrayOK, SameParts, Absent
<1>11. FreeOK(new)
  BY <1>1, <1>3 DEF TableOK, FreeOK, SameParts
<1>12. TableOK(new) BY <1>6, <1>7, <1>8, <1>9, <1>10, <1>11 DEF TableOK
<1>13. Value(new, key) = v
  <2>1. HasKey(new.node[m], key) BY <1>3 DEF HasKey
  <2> QED BY <2>1, <1>1, <1>3, <1>12, ValueIs DEF SameParts
<1>14. ASSUME NEW k \in Keys, k # key PROVE Value(new, k) = Value(tb, k)
  <2>1. \A w : w # Nil => (Holds(tb, k, w) <=> Holds(new, k, w))
    BY <1>3, <1>14 DEF Holds, HasKey, SameParts
  <2> QED BY <2>1, <1>12, ValueSame
<1>15. NodeKeys(new) \subseteq NodeKeys(tb) \cup {key}
  BY <1>3 DEF NodeKeys, SameParts
<1>16. NoneDead(tb) => NoneDead(new)
  BY <1>3 DEF NoneDead, SameParts
<1> QED BY <1>12, <1>13, <1>14, <1>15, <1>16 DEF Inserted

\* A node that never had a key.
LEMMA FreeIsFree ==
  ASSUME NEW tb, TableOK(tb), NEW f \in Nodes(tb), tb.node[f].k = Nil
  PROVE  tb.node[f] = FreeNode /\ Unlinked(links(tb), f)
BY DEF TableOK, NodesOK

\* The node at the main position belongs there: the key goes into the free node, which
\* is linked behind it (ltable.c:418).
LEMMA InsertBehind ==
  ASSUME hash \in Hashes, NEW tb, TableOK(tb), ~tb.dummy,
         NEW key \in Keys, Absent(tb, key), NEW v \in Values \cup {Nil},
         NEW m, m = mainposition(tb, key), tb.node[m].v # Nil, mp(tb, m) = m,
         NEW f \in Nodes(tb), tb.node[f].k = Nil, f < tb.lastfree,
         \A n \in Nodes(tb) : n > f => tb.node[n].k # Nil,
         NEW new, IsTable(new), SameParts(tb, new), new.lastfree = f,
         new.node[f].k = key, ~new.node[f].dead, new.node[f].v = v,
         links(new) = LinkedBehind(links(tb), m, f),
         \A n \in Nodes(tb) \ {f} : /\ new.node[n].k = tb.node[n].k
                                    /\ new.node[n].dead = tb.node[n].dead
                                    /\ new.node[n].v = tb.node[n].v
                                    /\ n # m => new.node[n] = tb.node[n]
  PROVE  Inserted(tb, new, key, v)
<1> DEFINE next == links(tb)
           after == LinkedBehind(next, m, f)
<1>1. /\ IsTable(tb) /\ m \in Nodes(tb) /\ key # Nil
      /\ IsList(next) /\ DOMAIN next = Nodes(tb) /\ Acyclic(next) /\ Linear(next)
  BY PositionType, LinksAreList, TableAssumption DEF TableOK, ChainsOK
<1>2. Unlinked(next, f) /\ tb.node[f] = FreeNode BY FreeIsFree
<1>3. tb.node[m].k # Nil /\ m # f /\ ~tb.node[m].dead
  BY <1>1, <1>2 DEF TableOK, NodesOK, FreeNode
<1>4. \A n \in Nodes(tb) : tb.node[n].k = key => tb.node[n].dead
  BY DEF Absent, HasKey
<1>5. tb.node[m].k # key BY <1>1, <1>3, <1>4
<1>6. links(new) = after OBVIOUS
<1> HIDE DEF next
<1>7. /\ DOMAIN after = DOMAIN next /\ IsList(after)
      /\ after[f] = next[m] /\ after[m] = f
      /\ \A x \in DOMAIN next \ {f, m} : after[x] = next[x]
  BY <1>1, <1>2, <1>3, LinkedFacts
<1>8. \A n \in Nodes(tb) : \A o \in Chain(next, n) : o \in Chain(after, n)
  BY <1>1, <1>2, <1>3, LinkedGrows
<1>9. /\ Acyclic(after) /\ Linear(after) /\ f \in Chain(after, m)
      /\ \A o \in Chain(next, m) : o # m => o \in Chain(after, f)
  BY <1>1, <1>2, <1>3, LinkedChains
<1> HIDE DEF after
<1>10. /\ \A n \in Nodes(tb) \ {f} : mp(new, n) = mp(tb, n)
       /\ mp(new, f) = m
  BY DEF mp, SameParts
<1>11. NodesOK(new)
  <2> SUFFICES ASSUME NEW n \in Nodes(tb)
               PROVE  /\ new.node[n].k = Nil => new.node[n] = FreeNode /\ Unlinked(after, n)
                      /\ new.node[n].dead => new.node[n].v = Nil
    BY <1>6 DEF NodesOK, SameParts
  <2>1. new.node[n].dead => new.node[n].v = Nil
    BY DEF TableOK, NodesOK
  <2>2. ASSUME new.node[n].k = Nil PROVE new.node[n] = FreeNode /\ Unlinked(after, n)
    <3>1. n # f /\ n # m /\ tb.node[n].k = Nil BY <1>1, <1>3, <2>2
    <3>2. new.node[n] = FreeNode /\ Unlinked(next, n)
      BY <3>1, FreeIsFree DEF next
    <3>3. Unlinked(after, n) BY <3>1, <3>2, <1>1, <1>7 DEF Unlinked
    <3> QED BY <3>2, <3>3
  <2> QED BY <2>1, <2>2
<1>12. ChainsOK(new) BY <1>6, <1>9 DEF ChainsOK
<1>13. PlacesOK(new)
  <2> SUFFICES ASSUME NEW n \in Nodes(tb), new.node[n].k # Nil
               PROVE  /\ n \in Chain(after, mp(new, n))
                      /\ new.node[mp(new, n)].k # Nil /\ mp(new, mp(new, n)) = mp(new, n)
    BY <1>6 DEF PlacesOK, SameParts
  <2>1. CASE n = f BY <2>1, <1>1, <1>3, <1>9, <1>10
  <2>2. CASE n # f
    <3>1. /\ n \in Chain(next, mp(tb, n)) /\ mp(new, n) = mp(tb, n)
          /\ tb.node[mp(tb, n)].k # Nil /\ mp(tb, mp(tb, n)) = mp(tb, n)
      BY <2>2, <1>10 DEF TableOK, PlacesOK, next
    <3>2. mp(tb, n) \in Nodes(tb)
      <4>1. tb.node[n].k \in Keys BY <2>2, <1>1, NodesType DEF NodeType
      <4> QED BY <4>1, <1>1, PositionType DEF mp
    <3>3. mp(tb, n) # f BY <3>1, <1>2
    <3> QED BY <3>1, <3>2, <3>3, <1>8, <1>10
  <2> QED BY <2>1, <2>2
<1>14. KeysOK(new)
  <2> SUFFICES ASSUME NEW n \in Nodes(tb), NEW o \in Nodes(tb), n # o, new.node[n].k # Nil,
                      new.node[n].k = new.node[o].k, ~new.node[n].dead
               PROVE  new.node[o].dead /\ o \in Chain(after, n)
    BY <1>6 DEF KeysOK, SameParts
  <2>1. CASE n = f
    <3>1. tb.node[o].k = key /\ tb.node[o].dead /\ new.node[o].dead /\ o # m
      BY <2>1, <1>4, <1>5
    <3>2. o \in Chain(next, m) BY <3>1, <1>1 DEF TableOK, PlacesOK, mp, next
    <3> QED BY <2>1, <3>1, <3>2, <1>9
  <2>2. CASE o = f BY <2>2, <1>4
  <2>3. CASE n # f /\ o # f
    <3>1. tb.node[o].dead /\ o \in Chain(next, n) BY <2>3 DEF TableOK, KeysOK, next
    <3> QED BY <3>1, <2>3, <1>8
  <2> QED BY <2>1, <2>2, <2>3
<1>15. ArrayOK(new)
  BY DEF TableOK, ArrayOK, SameParts, Absent
<1>16. FreeOK(new)
  <2>1. \A n \in Nodes(tb) : n >= f => new.node[n].k # Nil
    <3> TAKE n \in Nodes(tb)
    <3>1. n \in Nat /\ f \in Nat BY <1>1, NodesType
    <3> QED BY <3>1, <1>1
  <2> QED BY <2>1 DEF FreeOK, SameParts
<1>17. TableOK(new) BY <1>11, <1>12, <1>13, <1>14, <1>15, <1>16 DEF TableOK
<1>18. Value(new, key) = v
  <2>1. HasKey(new.node[f], key) BY DEF HasKey
  <2> QED BY <2>1, <1>17, ValueIs DEF SameParts
<1>19. ASSUME NEW k \in Keys, k # key PROVE Value(new, k) = Value(tb, k)
  <2>0. k # Nil BY TableAssumption
  <2>1. \A w : w # Nil => (Holds(tb, k, w) <=> Holds(new, k, w))
    BY <1>19, <2>0 DEF Holds, HasKey, SameParts
  <2> QED BY <2>1, <1>17, ValueSame
<1>20. NodeKeys(new) \subseteq NodeKeys(tb) \cup {key}
  BY DEF NodeKeys, SameParts
<1>21. NoneDead(tb) => NoneDead(new)
  BY DEF NoneDead, SameParts
<1> QED BY <1>17, <1>18, <1>19, <1>20, <1>21 DEF Inserted

\* The node at the main position belongs elsewhere: it moves to the free node, and the
\* key takes its place (ltable.c:410).
LEMMA InsertMoving ==
  ASSUME hash \in Hashes, NEW tb, TableOK(tb), ~tb.dummy,
         NEW key \in Keys, Absent(tb, key), NEW v \in Values \cup {Nil},
         NEW m, m = mainposition(tb, key), tb.node[m].v # Nil, mp(tb, m) # m,
         NEW f \in Nodes(tb), tb.node[f].k = Nil, f < tb.lastfree,
         \A n \in Nodes(tb) : n > f => tb.node[n].k # Nil,
         NEW p \in Nodes(tb), tb.node[p].next = m,
         NEW new, IsTable(new), SameParts(tb, new), new.lastfree = f,
         new.node[m].k = key, ~new.node[m].dead, new.node[m].v = v,
         links(new) = Replaced(links(tb), p, m, f),
         \A n \in Nodes(tb) \ {m} : LET o == IF n = f THEN m ELSE n
                                   IN  /\ new.node[n].k = tb.node[o].k
                                       /\ new.node[n].dead = tb.node[o].dead
                                       /\ new.node[n].v = tb.node[o].v
                                       /\ n \notin {p, f} => new.node[n] = tb.node[n]
  PROVE  Inserted(tb, new, key, v)
<1> DEFINE next == links(tb)
           after == Replaced(next, p, m, f)
           Now(n) == IF n = m THEN f ELSE n
           Was(n) == IF n = f THEN m ELSE n
<1>1. /\ IsTable(tb) /\ m \in Nodes(tb) /\ key # Nil
      /\ IsList(next) /\ DOMAIN next = Nodes(tb) /\ Acyclic(next) /\ Linear(next)
      /\ next[p] = m
  BY PositionType, LinksAreList, TableAssumption DEF TableOK, ChainsOK
<1>2. Unlinked(next, f) /\ tb.node[f] = FreeNode BY FreeIsFree
<1>3. tb.node[m].k # Nil /\ m # f /\ ~tb.node[m].dead
  BY <1>1, <1>2 DEF TableOK, NodesOK, FreeNode
<1>4. \A n \in Nodes(tb) : tb.node[n].k = key => tb.node[n].dead
  BY DEF Absent, HasKey
<1>5. links(new) = after OBVIOUS
<1> HIDE DEF next
<1>6. /\ DOMAIN after = DOMAIN next /\ IsList(after)
      /\ Acyclic(after) /\ Linear(after)
      /\ \A n \in Nodes(tb) \ {f} : \A o \in Chain(next, n) : Now(o) \in Chain(after, Now(n))
  BY <1>1, <1>2, <1>3, ReplacedChains
<1>7. p # m /\ p # f
  <2>1. {m} \in SUBSET DOMAIN next BY <1>1
  <2>2. next[m] \notin {m} BY <2>1, <1>1 DEF Acyclic
  <2> QED BY <2>2, <1>1, <1>2 DEF Unlinked, IsList
<1>8. /\ after[p] = f /\ after[f] = next[m] /\ after[m] = NULL
      /\ \A x \in Nodes(tb) \ {p, f, m} : after[x] = next[x]
  BY <1>1, <1>3, <1>7 DEF Replaced, IsList
<1> HIDE DEF after
<1>9. /\ \A n \in Nodes(tb) \ {m} : mp(new, n) = mp(tb, Was(n))
      /\ mp(new, m) = m
  BY DEF mp, SameParts
\* no key is where it belongs when m is its main position
<1>10. ASSUME NEW n \in Nodes(tb), tb.node[n].k # Nil
       PROVE  /\ n \in Chain(next, mp(tb, n)) /\ mp(tb, n) \in Nodes(tb) \ {m, f}
              /\ tb.node[mp(tb, n)].k # Nil /\ mp(tb, mp(tb, n)) = mp(tb, n)
  <2>1. tb.node[n].k \in Keys BY <1>1, <1>10, NodesType DEF NodeType
  <2>2. mp(tb, n) \in Nodes(tb) BY <2>1, <1>1, PositionType DEF mp
  <2>3. /\ n \in Chain(next, mp(tb, n))
        /\ tb.node[mp(tb, n)].k # Nil /\ mp(tb, mp(tb, n)) = mp(tb, n)
    BY <1>10 DEF TableOK, PlacesOK, next
  <2> QED BY <2>2, <2>3, <1>2
<1>11. \A n \in Nodes(tb) : tb.node[n].k # key
  <2> SUFFICES ASSUME NEW n \in Nodes(tb), tb.node[n].k = key PROVE FALSE OBVIOUS
  <2>1. mp(tb, n) = m BY DEF mp
  <2> QED BY <2>1, <1>1, <1>10
<1>12. NodesOK(new)
  <2> SUFFICES ASSUME NEW n \in Nodes(tb)
               PROVE  /\ new.node[n].k = Nil => new.node[n] = FreeNode /\ Unlinked(after, n)
                      /\ new.node[n].dead => new.node[n].v = Nil
    BY <1>5 DEF NodesOK, SameParts
  <2>1. new.node[n].dead => new.node[n].v = Nil
    BY <1>1 DEF TableOK, NodesOK
  <2>2. ASSUME new.node[n].k = Nil PROVE new.node[n] = FreeNode /\ Unlinked(after, n)
    <3>1. n # f /\ n # m /\ tb.node[n].k = Nil BY <1>1, <1>3, <2>2
    <3>2. tb.node[n] = FreeNode /\ Unlinked(next, n)
      BY <3>1, FreeIsFree DEF next
    <3>3. n # p BY <3>2, <1>1 DEF FreeNode, next, Unlinked, IsList
    <3>4. new.node[n] = tb.node[n] BY <3>1, <3>3
    <3>5. Unlinked(after, n) BY <3>1, <3>2, <3>3, <1>1, <1>6, <1>8 DEF Unlinked
    <3> QED BY <3>2, <3>4, <3>5
  <2> QED BY <2>1, <2>2
<1>13. ChainsOK(new) BY <1>5, <1>6 DEF ChainsOK
<1>14. PlacesOK(new)
  <2> SUFFICES ASSUME NEW n \in Nodes(tb), new.node[n].k # Nil
               PROVE  /\ n \in Chain(after, mp(new, n))
                      /\ new.node[mp(new, n)].k # Nil /\ mp(new, mp(new, n)) = mp(new, n)
    BY <1>5 DEF PlacesOK, SameParts
  <2>1. CASE n = m
    <3>1. m \in Chain(after, m) BY <1>1, <1>6, ChainStart
    <3> QED BY <2>1, <3>1, <1>1, <1>9
  <2>2. CASE n # m
    <3>1. /\ tb.node[Was(n)].k # Nil /\ Was(n) \in Nodes(tb) /\ Now(Was(n)) = n
          /\ mp(new, n) = mp(tb, Was(n))
      BY <2>2, <1>1, <1>3, <1>9
    <3> DEFINE a == mp(tb, Was(n))
    <3>2. /\ Was(n) \in Chain(next, a) /\ a \in Nodes(tb) \ {m, f}
          /\ tb.node[a].k # Nil /\ mp(tb, a) = a
      BY <3>1, <1>10
    <3> HIDE DEF a
    <3>3. Now(Was(n)) \in Chain(after, Now(a)) /\ Now(a) = a BY <3>2, <1>6
    <3>4. new.node[a].k # Nil /\ mp(new, a) = a BY <3>2, <1>9
    <3> QED BY <3>1, <3>3, <3>4 DEF a
  <2> QED BY <2>1, <2>2
<1>15. KeysOK(new)
  <2> SUFFICES ASSUME NEW n \in Nodes(tb), NEW o \in Nodes(tb), n # o, new.node[n].k # Nil,
                      new.node[n].k = new.node[o].k, ~new.node[n].dead
               PROVE  new.node[o].dead /\ o \in Chain(after, n)
    BY <1>5 DEF KeysOK, SameParts
  <2>1. n # m /\ o # m BY <1>1, <1>11
  <2>2. /\ Was(n) \in Nodes(tb) /\ Was(o) \in Nodes(tb) /\ Was(n) # Was(o)
        /\ Now(Was(n)) = n /\ Now(Was(o)) = o /\ Was(n) # f
    BY <2>1, <1>1, <1>3
  <2>3. tb.node[Was(o)].dead /\ Was(o) \in Chain(next, Was(n))
    BY <2>1, <2>2 DEF TableOK, KeysOK, next
  <2>4. Now(Was(o)) \in Chain(after, Now(Was(n))) BY <2>2, <2>3, <1>6
  <2> QED BY <2>1, <2>2, <2>3, <2>4
<1>16. ArrayOK(new)
  BY <1>1 DEF TableOK, ArrayOK, SameParts, Absent
<1>17. FreeOK(new)
  <2>1. \A n \in Nodes(tb) : n >= f => new.node[n].k # Nil
    <3> TAKE n \in Nodes(tb)
    <3>1. n \in Nat /\ f \in Nat BY <1>1, NodesType
    <3> QED BY <3>1, <1>1, <1>3
  <2> QED BY <2>1 DEF FreeOK, SameParts
<1>18. TableOK(new) BY <1>12, <1>13, <1>14, <1>15, <1>16, <1>17 DEF TableOK
<1>19. Value(new, key) = v
  <2>1. HasKey(new.node[m], key) BY DEF HasKey
  <2> QED BY <2>1, <1>1, <1>18, ValueIs DEF SameParts
<1>20. ASSUME NEW k \in Keys, k # key PROVE Value(new, k) = Value(tb, k)
  <2>0. k # Nil BY TableAssumption
  <2>1. ASSUME NEW w, Holds(tb, k, w) PROVE Holds(new, k, w)
    <3>1. PICK n \in Nodes(tb) : HasKey(tb.node[n], k) /\ tb.node[n].v = w BY <2>1 DEF Holds
    <3>2. n # f BY <3>1, <2>0 DEF HasKey
    <3>3. Now(n) \in Nodes(tb) /\ Now(n) # m /\ Was(Now(n)) = n BY <3>2, <1>1, <1>3
    <3>4. HasKey(new.node[Now(n)], k) /\ new.node[Now(n)].v = w BY <3>1, <3>3 DEF HasKey
    <3> QED BY <3>3, <3>4 DEF Holds, SameParts
  <2>2. ASSUME NEW w, Holds(new, k, w) PROVE Holds(tb, k, w)
    <3>1. PICK n \in Nodes(tb) : HasKey(new.node[n], k) /\ new.node[n].v = w
      BY <2>2 DEF Holds, SameParts
    <3>2. n # m BY <3>1, <1>20 DEF HasKey
    <3>3. Was(n) \in Nodes(tb) BY <1>1
    <3>4. HasKey(tb.node[Was(n)], k) /\ tb.node[Was(n)].v = w BY <3>1, <3>2 DEF HasKey
    <3> QED BY <3>3, <3>4 DEF Holds
  <2> QED BY <2>1, <2>2, <1>18, ValueSame
<1>21. NodeKeys(new) \subseteq NodeKeys(tb) \cup {key}
  <2> SUFFICES ASSUME NEW n \in Nodes(tb), new.node[n].k # key
               PROVE  new.node[n].k \in {tb.node[o].k : o \in Nodes(tb)}
    BY DEF NodeKeys, SameParts
  <2>1. n # m /\ Was(n) \in Nodes(tb) BY <1>1
  <2> QED BY <2>1
<1>22. NoneDead(tb) => NoneDead(new)
  BY <1>1 DEF NoneDead, SameParts
<1> QED BY <1>18, <1>19, <1>20, <1>21, <1>22 DEF Inserted

\* The links of one node change and nothing else.
LEMMA NextSet ==
  ASSUME NEW N, NEW size, NEW nodes \in [N -> NodeType(size)], NEW i \in N,
         NEW x \in 0..size - 1 \cup {NULL}
  PROVE  LET new == [nodes EXCEPT ![i].next = x]
         IN  /\ new \in [N -> NodeType(size)] /\ new[i].next = x
             /\ new[i].k = nodes[i].k /\ new[i].dead = nodes[i].dead /\ new[i].v = nodes[i].v
             /\ \A n \in N \ {i} : new[n] = nodes[n]
BY DEF NodeType

\* newkey with room keeps the table in order and adds one field, whichever of its three
\* ways it takes (ltable.c:399).
LEMMA InsertGood ==
  ASSUME hash \in Hashes, NEW tb, TableOK(tb), ~tb.dummy,
         NEW key \in Keys, Absent(tb, key), NEW v \in Values \cup {Nil},
         tb.node[mainposition(tb, key)].v = Nil \/ getfreepos(tb) # NULL
  PROVE  LET new == Insert(tb, key) IN Inserted(tb, StoreAt(new.t, new.at, v), key, v)
<1> DEFINE m == mainposition(tb, key)
           f == getfreepos(tb)
           new == StoreAt(Insert(tb, key).t, Insert(tb, key).at, v)
<1>1. /\ IsTable(tb) /\ m \in Nodes(tb) /\ Nodes(tb) \subseteq Nat /\ NULL \notin Nodes(tb)
      /\ tb.node \in [Nodes(tb) -> NodeType(sizenode(tb))]
      /\ tb.lastfree \in 0..sizenode(tb)
  BY PositionType, NodesType DEF TableOK, IsTable, TablesOf, Nodes, sizenode
<1>2. \A n \in Nodes(tb) : links(tb)[n] = tb.node[n].next BY DEF links
<1>3. CASE tb.node[m].v = Nil
  <2>1. Insert(tb, key) = Into(tb, tb.node, m, tb.lastfree, key) BY <1>3 DEF Insert
  <2>2. PICK all : Filled(tb, tb.node, m, key, v, all) /\ new = WithNodes(tb, all, tb.lastfree)
    <3> HIDE DEF m
    <3> QED BY <2>1, <1>1, IntoStored
  <2> HIDE DEF new
  <2>3. IsTable(new) /\ SameParts(tb, new) /\ new.node = all /\ new.lastfree = tb.lastfree
    BY <2>2, <1>1, WithNodesFacts DEF SameParts, Filled
  <2> QED BY <2>2, <2>3, <1>3, InsertAtMain DEF new, Filled
<1>4. CASE tb.node[m].v # Nil
  <2>1. /\ f # NULL /\ f \in Nodes(tb) /\ f < tb.lastfree /\ tb.node[f].k = Nil
        /\ \A n \in Nodes(tb) : n > f => tb.node[n].k # Nil
    BY <1>4, FreePos
  <2>2. tb.node[f] = FreeNode /\ Unlinked(links(tb), f) BY <2>1, FreeIsFree
  <2>3. tb.node[m].k # Nil /\ m # f BY <1>1, <1>4, <2>1 DEF TableOK, NodesOK, FreeNode
  <2>4. f \in 0..sizenode(tb) /\ f \in 0..sizenode(tb) - 1
    BY <2>1, <1>1, NodesType DEF Nodes
  <2>5. tb.node[m].next \in 0..sizenode(tb) - 1 \cup {NULL} BY <1>1 DEF NodeType
  <2> HIDE DEF m, f
  <2>6. CASE mainposition(tb, tb.node[m].k) = m
    <3> DEFINE one == [tb.node EXCEPT ![f].next = tb.node[m].next]
               nodes == [one EXCEPT ![m].next = f]
    <3>1. Insert(tb, key) = Into(tb, nodes, f, f, key) BY <1>4, <2>1, <2>6 DEF Insert, m, f
    <3>a. /\ one \in [Nodes(tb) -> NodeType(sizenode(tb))]
          /\ one[f].next = tb.node[m].next /\ \A n \in Nodes(tb) \ {f} : one[n] = tb.node[n]
      BY <1>1, <2>1, <2>5, NextSet
    <3> HIDE DEF one
    <3>2. /\ nodes \in [Nodes(tb) -> NodeType(sizenode(tb))]
          /\ nodes[m].next = f /\ nodes[m].k = one[m].k /\ nodes[m].dead = one[m].dead
          /\ nodes[m].v = one[m].v /\ \A n \in Nodes(tb) \ {m} : nodes[n] = one[n]
      BY <1>1, <2>1, <2>4, <3>a, NextSet
    <3>3. /\ nodes[f].next = tb.node[m].next /\ nodes[m].next = f
          /\ nodes[m].k = tb.node[m].k /\ nodes[m].dead = tb.node[m].dead
          /\ nodes[m].v = tb.node[m].v
          /\ \A n \in Nodes(tb) \ {f, m} : nodes[n] = tb.node[n]
      BY <1>1, <2>1, <2>3, <3>a, <3>2
    <3> HIDE DEF nodes
    <3>4. PICK all : Filled(tb, nodes, f, key, v, all) /\ new = WithNodes(tb, all, f)
      BY <3>1, <3>2, <1>1, <2>1, <2>4, IntoStored
    <3> HIDE DEF new
    <3>5. IsTable(new) /\ SameParts(tb, new) /\ new.node = all /\ new.lastfree = f
      BY <3>4, <1>1, <2>4, WithNodesFacts DEF SameParts, Filled
    <3>6. links(new) = LinkedBehind(links(tb), m, f)
      <4> DEFINE then(n) == IF n = m THEN f ELSE IF n = f THEN tb.node[m].next ELSE tb.node[n].next
      <4>1. \A n \in Nodes(tb) : new.node[n].next = then(n)
        BY <3>3, <3>4, <3>5, <1>1, <2>1, <2>3 DEF Filled
      <4>2. links(new) = [n \in Nodes(tb) |-> then(n)] BY <4>1, <3>5 DEF links, SameParts
      <4>3. LinkedBehind(links(tb), m, f) = [n \in Nodes(tb) |-> then(n)]
        BY <1>1, <1>2, <2>1, <2>3 DEF links, LinkedBehind
      <4> QED BY <4>2, <4>3
    <3>7. mp(tb, m) = m /\ m = mainposition(tb, key) BY <2>6 DEF mp, m
    <3>8. \A n \in Nodes(tb) \ {f} : /\ new.node[n].k = tb.node[n].k
                                     /\ new.node[n].dead = tb.node[n].dead
                                     /\ new.node[n].v = tb.node[n].v
                                     /\ n # m => new.node[n] = tb.node[n]
      BY <3>3, <3>4, <3>5 DEF Filled
    <3> QED BY <1>4, <2>1, <3>4, <3>5, <3>6, <3>7, <3>8, InsertBehind DEF new, Filled
  <2>7. CASE mainposition(tb, tb.node[m].k) # m
    <3> DEFINE p == CHOOSE q \in DOMAIN tb.node : tb.node[q].next = m
               nodes == Moved(tb, m, f)
    <3>1. Insert(tb, key) = Into(tb, nodes, m, f, key) BY <1>4, <2>1, <2>7 DEF Insert, m, f
    <3>2. p \in Nodes(tb) /\ tb.node[p].next = m
      <4>1. m \in Chain(links(tb), mp(tb, m)) BY <1>1, <2>3 DEF TableOK, PlacesOK
      <4>2. mp(tb, m) \in Nodes(tb) /\ mp(tb, m) # m
        <5>1. tb.node[m].k \in Keys BY <1>1, <2>3 DEF NodeType
        <5> QED BY <5>1, <1>1, <2>7, PositionType DEF mp
      <4>3. \E q \in Chain(links(tb), mp(tb, m)) : links(tb)[q] = m
        BY <4>1, <4>2, <1>1, LinksAreList, ChainBefore
      <4>4. \E q \in DOMAIN tb.node : tb.node[q].next = m
        BY <4>3, <1>1, <1>2 DEF Chain, links
      <4> QED BY <4>4, <1>1
    <3>3. p # m /\ p # f
      <4>1. Acyclic(links(tb)) /\ DOMAIN links(tb) = Nodes(tb) BY DEF TableOK, ChainsOK, links
      <4>2. {m} \in SUBSET Nodes(tb) BY <1>1
      <4>3. links(tb)[m] \notin {m} BY <4>1, <4>2 DEF Acyclic
      <4> HIDE DEF p
      <4> QED BY <3>2, <4>3, <1>1, <1>2, <2>2 DEF FreeNode
    <3>4. nodes = [tb.node EXCEPT ![p].next = f, ![f] = tb.node[m], ![m] = FreeNode] BY DEF Moved
    <3> HIDE DEF p, nodes
    <3>5. FreeNode \in NodeType(sizenode(tb)) BY DEF FreeNode, NodeType
    <3>6. nodes \in [Nodes(tb) -> NodeType(sizenode(tb))]
      <4>1. [tb.node[p] EXCEPT !.next = f] \in NodeType(sizenode(tb))
        BY <1>1, <2>4, <3>2 DEF NodeType
      <4>2. nodes = [tb.node EXCEPT ![p] = [tb.node[p] EXCEPT !.next = f], ![f] = tb.node[m],
                                   ![m] = FreeNode]
        BY <3>4
      <4> QED BY <4>1, <4>2, <3>5, <1>1, <2>1, <3>2
    <3>7. /\ nodes[f] = tb.node[m] /\ nodes[m] = FreeNode /\ nodes[p].next = f
          /\ nodes[p].k = tb.node[p].k /\ nodes[p].dead = tb.node[p].dead
          /\ nodes[p].v = tb.node[p].v
          /\ \A n \in Nodes(tb) \ {f, m, p} : nodes[n] = tb.node[n]
      BY <3>2, <3>3, <3>4, <1>1, <2>1, <2>3 DEF NodeType
    <3>8. PICK all : Filled(tb, nodes, m, key, v, all) /\ new = WithNodes(tb, all, f)
      BY <3>1, <3>6, <1>1, <2>1, <2>4, IntoStored
    <3> HIDE DEF new
    <3>9. IsTable(new) /\ SameParts(tb, new) /\ new.node = all /\ new.lastfree = f
      BY <3>8, <1>1, <2>4, WithNodesFacts DEF SameParts, Filled
    <3>10. links(new) = Replaced(links(tb), p, m, f)
      <4> DEFINE then(n) == IF n = m THEN NULL ELSE IF n = f THEN tb.node[m].next
                            ELSE IF n = p THEN f ELSE tb.node[n].next
      <4>1. \A n \in Nodes(tb) : new.node[n].next = then(n)
        BY <3>2, <3>3, <3>7, <3>8, <3>9, <1>1, <2>1, <2>3 DEF FreeNode, Filled
      <4>2. links(new) = [n \in Nodes(tb) |-> then(n)] BY <4>1, <3>9 DEF links, SameParts
      <4>3. Replaced(links(tb), p, m, f) = [n \in Nodes(tb) |-> then(n)]
        BY <1>1, <1>2, <2>1, <2>3, <3>2, <3>3 DEF links, Replaced
      <4> QED BY <4>2, <4>3
    <3>11. mp(tb, m) # m /\ m = mainposition(tb, key) BY <2>7 DEF mp, m
    <3>12. \A n \in Nodes(tb) \ {m} : LET o == IF n = f THEN m ELSE n
                                      IN  /\ new.node[n].k = tb.node[o].k
                                          /\ new.node[n].dead = tb.node[o].dead
                                          /\ new.node[n].v = tb.node[o].v
                                          /\ n \notin {p, f} => new.node[n] = tb.node[n]
      BY <3>7, <3>8, <3>9 DEF Filled
    <3>13. new.node[m].k = key /\ ~new.node[m].dead /\ new.node[m].v = v
      BY <3>8, <3>9 DEF Filled
    <3>14. Inserted(tb, new, key, v)
      BY <1>4, <2>1, <3>2, <3>9, <3>10, <3>11, <3>12, <3>13, InsertMoving, SMTT(60)
    <3> QED BY <3>14 DEF new
  <2> QED BY <2>6, <2>7
<1> QED BY <1>3, <1>4

-----------------------------------------------------------------------------
(* Assignment to a table that has room.                                    *)

\* Other values, and keys that die, do not change the shape of a table.
LEMMA SameShape ==
  ASSUME hash \in Hashes, NEW tb, TableOK(tb), NEW new, IsTable(new),
         new.sizearray = tb.sizearray, new.lsizenode = tb.lsizenode,
         new.dummy = tb.dummy, new.lastfree = tb.lastfree,
         \A i \in 1..tb.sizearray : new.array[i] # Nil => i \in Keys,
         \A n \in Nodes(tb) :
           /\ new.node[n].k = tb.node[n].k /\ new.node[n].next = tb.node[n].next
           /\ tb.node[n].dead => new.node[n].dead
           /\ new.node[n].dead => new.node[n].v = Nil
           /\ tb.node[n].k = Nil => new.node[n] = tb.node[n]
  PROVE  TableOK(new)
<1>1. Nodes(new) = Nodes(tb) /\ sizenode(new) = sizenode(tb) BY DEF Nodes, sizenode
<1>2. links(new) = links(tb) BY <1>1 DEF links
<1>3. \A key : mainposition(new, key) = mainposition(tb, key) BY <1>1 DEF mainposition
<1>4. \A n \in Nodes(tb) : mp(new, n) = mp(tb, n) BY <1>3 DEF mp
<1>5. NodesOK(new) BY <1>1, <1>2 DEF TableOK, NodesOK
<1>6. ChainsOK(new) BY <1>2 DEF TableOK, ChainsOK
<1>7. PlacesOK(new)
  <2> SUFFICES ASSUME NEW n \in Nodes(tb), tb.node[n].k # Nil
               PROVE  /\ n \in Chain(links(tb), mp(tb, n))
                      /\ new.node[mp(tb, n)].k # Nil /\ mp(new, mp(tb, n)) = mp(tb, n)
    BY <1>1, <1>2, <1>4 DEF PlacesOK
  <2>1. /\ n \in Chain(links(tb), mp(tb, n))
        /\ tb.node[mp(tb, n)].k # Nil /\ mp(tb, mp(tb, n)) = mp(tb, n)
    BY DEF TableOK, PlacesOK
  <2>2. mp(tb, n) \in Nodes(tb)
    <3>1. tb.node[n].k \in Keys BY NodesType DEF NodeType, TableOK
    <3> QED BY <3>1, PositionType DEF mp, TableOK
  <2> QED BY <2>1, <2>2, <1>4
<1>8. KeysOK(new) BY <1>1, <1>2 DEF TableOK, KeysOK
<1>9. ArrayOK(new) BY <1>1 DEF TableOK, ArrayOK
<1>10. FreeOK(new)
  <2>1. 0 \in Nodes(tb) BY NodesType DEF TableOK
  <2> QED BY <1>1, <2>1 DEF TableOK, FreeOK
<1> QED BY <1>5, <1>6, <1>7, <1>8, <1>9, <1>10 DEF TableOK

\* What an assignment to a key makes of a table that has room.
SameSizes(tb, new) ==
  /\ new.sizearray = tb.sizearray /\ new.lsizenode = tb.lsizenode
  /\ new.dummy = tb.dummy /\ new.ok = tb.ok
Updated(tb, new, key, v) ==
  /\ TableOK(new) /\ SameSizes(tb, new)
  /\ \A k \in Keys : Value(new, k) = IF k = key THEN v ELSE Value(tb, k)
  /\ NodeKeys(new) \subseteq NodeKeys(tb) \cup ({key} \ (1..tb.sizearray))
  /\ NoneDead(tb) => NoneDead(new)

\* The same keys in the same nodes.
SameNodes(tb, new) ==
  /\ SameSizes(tb, new)
  /\ \A n \in Nodes(tb) : /\ new.node[n].k = tb.node[n].k /\ new.node[n].next = tb.node[n].next
                          /\ new.node[n].dead = tb.node[n].dead

\* An assignment to a key that has a cell or a node changes its value only.
LEMMA StoreGood ==
  ASSUME hash \in Hashes, NEW tb, TableOK(tb), NEW key \in Keys, ~Absent(tb, key),
         NEW v \in Values \cup {Nil}
  PROVE  LET new == StoreAt(tb, luaH_get(tb, key), v)
         IN  /\ luaH_get(tb, key) # NoPlace
             /\ Updated(tb, new, key, v) /\ SameNodes(tb, new)
<1> DEFINE new == StoreAt(tb, luaH_get(tb, key), v)
<1>1. tb \in TablesOf(tb.sizearray, tb.lsizenode) /\ IsTable(tb) BY DEF TableOK, IsTable
<1>2. /\ DOMAIN tb.node = Nodes(tb) /\ tb.node \in [Nodes(tb) -> NodeType(sizenode(tb))]
      /\ tb.array \in [1..tb.sizearray -> Values \cup {Nil}]
  BY <1>1 DEF TablesOf, Nodes, sizenode
<1>3. CASE key \in 1..tb.sizearray
  <2>1. luaH_get(tb, key) = Cell(key) BY <1>3, GetFinds
  <2>2. new = [tb EXCEPT !.array[key] = v] BY <2>1 DEF StoreAt, Cell
  <2>3. /\ new.sizearray = tb.sizearray /\ new.lsizenode = tb.lsizenode /\ new.dummy = tb.dummy
        /\ new.lastfree = tb.lastfree /\ new.ok = tb.ok /\ new.node = tb.node
        /\ new.array = [tb.array EXCEPT ![key] = v]
    BY <2>2, <1>1 DEF TablesOf
  <2>4. new.array \in [1..tb.sizearray -> Values \cup {Nil}] BY <2>3, <1>2
  <2>5. new \in TablesOf(tb.sizearray, tb.lsizenode) BY <2>2, <2>3, <2>4, <1>1 DEF TablesOf
  <2> HIDE DEF new
  <2>6. IsTable(new) BY <2>3, <2>5, <1>1 DEF IsTable
  <2>7. \A i \in 1..tb.sizearray : new.array[i] # Nil => i \in Keys
    BY <2>3, <1>2 DEF TableOK, ArrayOK
  <2>8. TableOK(new)
    <3>1. \A o \in Nodes(tb) : new.node[o].dead => new.node[o].v = Nil
      BY <2>3 DEF TableOK, NodesOK
    <3> QED BY <2>3, <2>6, <2>7, <3>1, SameShape
  <2>9. Nodes(new) = Nodes(tb) BY <2>3 DEF Nodes, sizenode
  <2>10. Value(new, key) = v BY <2>3, <2>8, <1>2, <1>3, ValueIs
  <2>11. ASSUME NEW k \in Keys, k # key PROVE Value(new, k) = Value(tb, k)
    <3>1. CASE k \in 1..tb.sizearray
      <4>1. new.array[k] = tb.array[k] BY <2>3, <2>11, <1>2
      <4>2. Value(tb, k) = tb.array[k] BY <3>1, ValueIs
      <4>3. Value(new, k) = new.array[k] BY <3>1, <2>3, <2>8, ValueIs
      <4> QED BY <4>1, <4>2, <4>3
    <3>2. CASE k \notin 1..tb.sizearray
      <4>1. \A w : Holds(new, k, w) <=> Holds(tb, k, w) BY <2>3, <2>9 DEF Holds
      <4>2. \A w : w # Nil => (Value(tb, k) = w <=> Value(new, k) = w)
        BY <3>2, <4>1, <2>3, <2>8, ValueHeld
      <4> QED BY <4>2
    <3> QED BY <3>1, <3>2
  <2>12. NodeKeys(new) = NodeKeys(tb) /\ (NoneDead(tb) => NoneDead(new))
    BY <2>3, <2>9 DEF NodeKeys, NoneDead
  <2>13. SameNodes(tb, new) BY <2>3 DEF SameNodes, SameSizes
  <2> QED BY <2>1, <2>3, <2>8, <2>10, <2>11, <2>12, <2>13 DEF Updated, SameSizes, Cell, NoPlace, new
<1>4. CASE key \notin 1..tb.sizearray
  <2>1. PICK n \in Nodes(tb) : HasKey(tb.node[n], key) BY <1>4 DEF Absent
  <2>2. luaH_get(tb, key) = InNode(n) BY <2>1, GetFinds
  <2> DEFINE nodes == [tb.node EXCEPT ![n].v = v]
  <2>3. new = [tb EXCEPT !.node = nodes] BY <2>2, <1>1 DEF StoreAt, InNode, TablesOf
  <2>4. /\ nodes \in [Nodes(tb) -> NodeType(sizenode(tb))]
        /\ nodes[n].v = v /\ nodes[n].k = tb.node[n].k /\ nodes[n].dead = tb.node[n].dead
        /\ nodes[n].next = tb.node[n].next
        /\ \A o \in Nodes(tb) \ {n} : nodes[o] = tb.node[o]
    BY <1>2 DEF NodeType
  <2> HIDE DEF nodes
  <2>5. /\ new.sizearray = tb.sizearray /\ new.lsizenode = tb.lsizenode /\ new.dummy = tb.dummy
        /\ new.lastfree = tb.lastfree /\ new.ok = tb.ok /\ new.node = nodes
        /\ new.array = tb.array
    BY <2>3, <1>1 DEF TablesOf
  <2>6. new \in TablesOf(tb.sizearray, tb.lsizenode)
    BY <2>3, <2>4, <1>1 DEF TablesOf, Nodes, sizenode
  <2> HIDE DEF new
  <2>7. IsTable(new) BY <2>5, <2>6, <1>1 DEF IsTable
  <2>8. key # Nil /\ tb.node[n].k = key /\ ~tb.node[n].dead
    BY <2>1, TableAssumption DEF HasKey
  <2>9. TableOK(new)
    <3>1. \A o \in Nodes(tb) :
            /\ new.node[o].k = tb.node[o].k /\ new.node[o].next = tb.node[o].next
            /\ tb.node[o].dead => new.node[o].dead
            /\ new.node[o].dead => new.node[o].v = Nil
            /\ tb.node[o].k = Nil => new.node[o] = tb.node[o]
      BY <2>4, <2>5, <2>8 DEF TableOK, NodesOK
    <3>2. \A i \in 1..tb.sizearray : new.array[i] # Nil => i \in Keys
      BY <2>5 DEF TableOK, ArrayOK
    <3> QED BY <3>1, <3>2, <2>5, <2>7, SameShape
  <2>10. Nodes(new) = Nodes(tb) /\ sizenode(new) = sizenode(tb) BY <2>5 DEF Nodes, sizenode
  <2>11. SameParts(tb, new) BY <2>5, <2>10 DEF SameParts, mainposition
  <2>12. Value(new, key) = v
    <3>1. HasKey(new.node[n], key) BY <2>4, <2>5, <2>8 DEF HasKey
    <3> QED BY <3>1, <2>4, <2>5, <2>9, <2>10, ValueIs
  <2>13. ASSUME NEW k \in Keys, k # key PROVE Value(new, k) = Value(tb, k)
    <3>1. \A w : w # Nil => (Holds(tb, k, w) <=> Holds(new, k, w))
      BY <2>4, <2>5, <2>8, <2>10, <2>13 DEF Holds, HasKey
    <3> QED BY <3>1, <2>9, <2>11, ValueSame
  <2>14. NodeKeys(new) = NodeKeys(tb) /\ (NoneDead(tb) => NoneDead(new))
    <3>1. \A o \in Nodes(tb) : new.node[o].k = tb.node[o].k /\ new.node[o].dead = tb.node[o].dead
      BY <2>4, <2>5
    <3> QED BY <3>1, <2>10 DEF NodeKeys, NoneDead
  <2>15. SameNodes(tb, new) BY <2>4, <2>5 DEF SameNodes, SameSizes
  <2> QED BY <2>2, <2>5, <2>9, <2>12, <2>13, <2>14, <2>15
             DEF Updated, SameSizes, InNode, NoPlace, new
<1> QED BY <1>3, <1>4

\* luaH_set with room assigns one field (ltable.c:494).
LEMMA PutGood ==
  ASSUME hash \in Hashes, NEW tb, TableOK(tb), NEW key \in Keys, NEW v \in Values \cup {Nil},
         Absent(tb, key) =>
           ~tb.dummy /\ (tb.node[mainposition(tb, key)].v = Nil \/ getfreepos(tb) # NULL)
  PROVE  /\ Updated(tb, Put(tb, key, v), key, v)
         /\ ~Absent(tb, key) => SameNodes(tb, Put(tb, key, v))
<1>1. CASE Absent(tb, key)
  <2>1. luaH_get(tb, key) = NoPlace BY <1>1, GetFinds DEF Absent
  <2>2. Put(tb, key, v) = StoreAt(Insert(tb, key).t, Insert(tb, key).at, v)
    BY <2>1 DEF Put, NoPlace
  <2>3. Inserted(tb, Put(tb, key, v), key, v) BY <1>1, <2>2, InsertGood
  <2> QED BY <1>1, <2>3 DEF Inserted, Updated, SameParts, SameSizes, Absent
<1>2. CASE ~Absent(tb, key)
  <2>1. /\ luaH_get(tb, key) # NoPlace
        /\ Updated(tb, StoreAt(tb, luaH_get(tb, key), v), key, v)
        /\ SameNodes(tb, StoreAt(tb, luaH_get(tb, key), v))
    BY <1>2, StoreGood
  <2>2. luaH_get(tb, key).in # "none"
    <3>1. key \in 1..tb.sizearray \/ \E n \in Nodes(tb) : HasKey(tb.node[n], key)
      BY <1>2 DEF Absent
    <3>2. luaH_get(tb, key) = Cell(key) \/ \E n \in Nodes(tb) : luaH_get(tb, key) = InNode(n)
      BY <3>1, GetFinds
    <3> QED BY <3>2 DEF Cell, InNode
  <2> QED BY <2>1, <2>2, <1>2 DEF Put
<1> QED BY <1>1, <1>2

-----------------------------------------------------------------------------
(* Room.                                                                   *)

\* A table whose keys are among as many as it has nodes has a node for one of
\* them that it has not.
LEMMA RoomFor ==
  ASSUME NEW tb, TableOK(tb), NoneDead(tb), ~tb.dummy,
         NEW K, IsFiniteSet(K), Cardinality(K) <= sizenode(tb), NodeKeys(tb) \subseteq K,
         NEW key \in K, Absent(tb, key)
  PROVE  getfreepos(tb) # NULL
<1> SUFFICES ASSUME getfreepos(tb) = NULL PROVE FALSE OBVIOUS
<1>1. \A n \in Nodes(tb) : tb.node[n].k # Nil BY FreePos
<1>2. IsTable(tb) BY DEF TableOK
<1>3. sizenode(tb) \in Nat \ {0} BY <1>2, NodesType
<1>4. Cardinality(Nodes(tb)) = sizenode(tb) BY <1>3, FS_Interval DEF Nodes
<1>5. IsFiniteSet(K \ {key}) /\ Cardinality(K \ {key}) = Cardinality(K) - 1 /\ Cardinality(K) \in Nat
  BY FS_RemoveElement, FS_CardinalityType
<1> DEFINE f == [n \in Nodes(tb) |-> tb.node[n].k]
<1>6. \A n \in Nodes(tb) : f[n] \in K \ {key}
  BY <1>1 DEF NodeKeys, Absent, HasKey, NoneDead
<1>7. \A n, m \in Nodes(tb) : f[n] = f[m] => n = m
  BY <1>1 DEF TableOK, KeysOK, NoneDead
<1>8. f \in Injection(Nodes(tb), K \ {key})
  BY <1>6, <1>7 DEF Injection, IsInjective
<1>9. Cardinality(Nodes(tb)) <= Cardinality(K \ {key}) BY <1>5, <1>8, FS_Injection
<1> QED BY <1>3, <1>4, <1>5, <1>9

\* What numusearray and numusehash count is the keys that have values.
LEMMA UsedAre ==
  ASSUME hash \in Hashes, NEW tb, TableOK(tb)
  PROVE  /\ Used(tb) \subseteq Keys /\ IsFiniteSet(Used(tb))
         /\ \A k \in Keys : k \in Used(tb) <=> Value(tb, k) # Nil
<1>1. IsTable(tb) /\ tb.sizearray \in Nat /\ DOMAIN tb.node = Nodes(tb)
  BY NodesType DEF TableOK, IsTable
<1> DEFINE A == {i \in 1..tb.sizearray : tb.array[i] # Nil}
           M == {n \in Nodes(tb) : tb.node[n].v # Nil}
           B == {tb.node[n].k : n \in M}
<1>2. Used(tb) = A \cup B BY <1>1 DEF Used
<1>3. \A n \in M : tb.node[n].k \in Keys /\ HasKey(tb.node[n], tb.node[n].k)
  <2> TAKE n \in M
  <2>1. tb.node[n].k # Nil /\ ~tb.node[n].dead BY DEF TableOK, NodesOK, FreeNode
  <2>2. tb.node[n].k \in Keys \cup {Nil} BY <1>1, NodesType DEF NodeType
  <2> QED BY <2>1, <2>2 DEF HasKey
<1>4. A \subseteq Keys BY DEF TableOK, ArrayOK
<1>5. IsFiniteSet(A)
  <2>1. IsFiniteSet(1..tb.sizearray) BY <1>1, FS_Interval
  <2> QED BY <2>1, FS_Subset
<1>6. IsFiniteSet(B)
  <2>1. IsFiniteSet(Nodes(tb)) BY <1>1, NodesType, FS_Interval DEF Nodes
  <2>2. IsFiniteSet(M) BY <2>1, FS_Subset
  <2> DEFINE f == [n \in M |-> tb.node[n].k]
  <2> HIDE DEF M
  <2>3. f \in Surjection(M, B) BY DEF Surjection
  <2> QED BY <2>2, <2>3, FS_Surjection
<1>7. IsFiniteSet(A \cup B)
  <2> HIDE DEF A, B
  <2> QED BY <1>5, <1>6, FS_Union
<1>8. ASSUME NEW k \in Keys PROVE k \in Used(tb) <=> Value(tb, k) # Nil
  <2>1. CASE k \in 1..tb.sizearray
    <3>1. Value(tb, k) = tb.array[k] BY <2>1, ValueIs
    <3>2. k \notin B BY <2>1 DEF TableOK, ArrayOK
    <3> QED BY <3>1, <3>2, <2>1, <1>2
  <2>2. CASE k \notin 1..tb.sizearray
    <3>1. k \in B => Value(tb, k) # Nil BY <1>3, ValueIs
    <3>2. ASSUME k \notin B PROVE Value(tb, k) = Nil
      <4>1. \A n \in Nodes(tb) : HasKey(tb.node[n], k) => tb.node[n].v = Nil BY <3>2 DEF HasKey
      <4> QED BY <4>1, <2>2, ValueIs
    <3> QED BY <3>1, <3>2, <2>2, <1>2
  <2> QED BY <2>1, <2>2
<1> QED BY <1>2, <1>3, <1>4, <1>7, <1>8

-----------------------------------------------------------------------------
(* A table without keys in its nodes, and the one resize starts from.      *)

\* A table whose nodes are new has the fields of its array.
LEMMA BlankIs ==
  ASSUME hash \in Hashes, NEW tb, IsTable(tb), \A n \in Nodes(tb) : tb.node[n] = FreeNode,
         tb.dummy => tb.lsizenode = 0, ~tb.dummy => tb.lastfree = sizenode(tb),
         \A i \in 1..tb.sizearray : tb.array[i] # Nil => i \in Keys
  PROVE  /\ TableOK(tb) /\ NodeKeys(tb) = {} /\ NoneDead(tb)
         /\ \A k \in Keys : Value(tb, k) = IF k \in 1..tb.sizearray THEN tb.array[k] ELSE Nil
<1>1. /\ NULL \notin Nodes(tb) /\ 0 \in Nodes(tb) /\ Nodes(tb) \subseteq Nat
      /\ sizenode(tb) \in Nat \ {0} /\ tb.sizearray \in Nat
  BY NodesType DEF IsTable
<1>2. /\ \A n \in Nodes(tb) : tb.node[n].k = Nil /\ ~tb.node[n].dead
      /\ links(tb) = [n \in Nodes(tb) |-> NULL]
  BY DEF links, FreeNode
<1>3. NodesOK(tb)
  <2>1. \A n \in Nodes(tb) : Unlinked(links(tb), n) BY <1>1, <1>2 DEF Unlinked
  <2> QED BY <2>1, <1>2 DEF NodesOK
<1>4. ChainsOK(tb)
  <2>1. Acyclic(links(tb)) BY <1>1, <1>2 DEF Acyclic
  <2>2. Linear(links(tb)) BY <1>2 DEF Linear
  <2> QED BY <2>1, <2>2 DEF ChainsOK
<1>5. PlacesOK(tb) /\ KeysOK(tb) BY <1>2 DEF PlacesOK, KeysOK
<1>6. ArrayOK(tb)
  <2>1. Nil \notin 1..tb.sizearray BY <1>1, TableAssumption
  <2> QED BY <2>1, <1>2 DEF ArrayOK
<1>7. FreeOK(tb)
  <2>1. \A n \in Nodes(tb) : ~(n >= sizenode(tb)) BY <1>1 DEF Nodes
  <2> QED BY <2>1, <1>1, <1>2 DEF FreeOK
<1>8. TableOK(tb) BY <1>3, <1>4, <1>5, <1>6, <1>7 DEF TableOK
<1>9. \A k \in Keys, n \in Nodes(tb) : ~HasKey(tb.node[n], k)
  BY <1>2, TableAssumption DEF HasKey
<1>10. \A k \in Keys : Value(tb, k) = IF k \in 1..tb.sizearray THEN tb.array[k] ELSE Nil
  BY <1>8, <1>9, ValueIs
<1> QED BY <1>2, <1>8, <1>10 DEF NodeKeys, NoneDead

Fresh(old, nasize, nhsize) == setnodevector(setarrayvector(old, nasize), nhsize)

\* The table resize starts from has the cells that stay and new nodes, and room for as
\* many keys as it was asked for (ltable.c:297).
LEMMA FreshIs ==
  ASSUME hash \in Hashes, NEW old, TableOK(old), NEW nasize \in Nat, NEW nhsize \in Nat
  PROVE  LET new == Fresh(old, nasize, nhsize)
         IN  /\ TableOK(new) /\ new.sizearray = nasize /\ new.ok = old.ok
             /\ sizenode(new) >= nhsize /\ new.dummy = (nhsize = 0)
             /\ NodeKeys(new) = {} /\ NoneDead(new)
             /\ \A k \in Keys : Value(new, k) =
                  IF k \in 1..nasize /\ k \in 1..old.sizearray THEN Value(old, k) ELSE Nil
<1> DEFINE new == Fresh(old, nasize, nhsize)
           lsize == IF nhsize = 0 THEN 0 ELSE ceillog2(nhsize)
<1>1. old \in TablesOf(old.sizearray, old.lsizenode) /\ IsTable(old) /\ old.sizearray \in Nat
  BY DEF TableOK, IsTable
<1>2. lsize \in Nat /\ nhsize <= twoto[lsize]
  BY Ceillog2Enough, TwotoGrows
<1> DEFINE size == twoto[lsize]
           array == [i \in 1..nasize |-> IF i <= old.sizearray THEN old.array[i] ELSE Nil]
           node == [n \in 0..size - 1 |-> FreeNode]
<1>3. size \in Nat \ {0} BY <1>2, TwotoGrows
<1>4. /\ new.sizearray = nasize /\ new.array = array /\ new.lsizenode = lsize /\ new.node = node
      /\ new.lastfree = (IF nhsize = 0 THEN 0 ELSE size) /\ new.dummy = (nhsize = 0)
      /\ new.ok = old.ok
  BY <1>1 DEF Fresh, setnodevector, setarrayvector, TablesOf
<1> HIDE DEF lsize
<1>5. array \in [1..nasize -> Values \cup {Nil}] BY <1>1 DEF TablesOf
<1>6. node \in [0..size - 1 -> NodeType(size)] BY DEF FreeNode, NodeType
<1>7. new \in TablesOf(nasize, lsize)
  <2> DEFINE first == setarrayvector(old, nasize)
  <2> HIDE DEF array, node
  <2>1. new = [first EXCEPT !.lsizenode = lsize, !.node = node,
                            !.lastfree = IF nhsize = 0 THEN 0 ELSE size, !.dummy = (nhsize = 0)]
    BY DEF Fresh, setnodevector, lsize, node
  <2>2. first \in [sizearray : {nasize}, array : [1..nasize -> Values \cup {Nil}],
                   lsizenode : {old.lsizenode},
                   node : [0..twoto[old.lsizenode] - 1 -> NodeType(twoto[old.lsizenode])],
                   lastfree : 0..twoto[old.lsizenode], dummy : BOOLEAN, ok : BOOLEAN]
    <3>1. first = [old EXCEPT !.sizearray = nasize, !.array = array]
      BY DEF setarrayvector, array
    <3> HIDE DEF first
    <3> QED BY <3>1, <1>1, <1>5 DEF TablesOf
  <2>3. (IF nhsize = 0 THEN 0 ELSE size) \in 0..size BY <1>3
  <2> HIDE DEF first, new, size
  <2> QED BY <2>1, <2>2, <2>3, <1>6 DEF TablesOf, size
<1> HIDE DEF array, node, new
<1>8. IsTable(new) BY <1>2, <1>4, <1>7 DEF IsTable
<1>9. Nodes(new) = 0..size - 1 /\ sizenode(new) = size BY <1>4 DEF Nodes, sizenode
<1>10. \A n \in Nodes(new) : new.node[n] = FreeNode BY <1>4, <1>9 DEF node
<1>11. \A i \in 1..new.sizearray : new.array[i] # Nil => i \in Keys
  BY <1>1, <1>4 DEF TableOK, ArrayOK, array
<1>12. /\ TableOK(new) /\ NodeKeys(new) = {} /\ NoneDead(new)
       /\ \A k \in Keys : Value(new, k) = IF k \in 1..nasize THEN array[k] ELSE Nil
  <2>1. new.dummy => new.lsizenode = 0 BY <1>4 DEF lsize
  <2> QED BY <2>1, <1>4, <1>8, <1>9, <1>10, <1>11, BlankIs
<1>13. ASSUME NEW k \in Keys
       PROVE  Value(new, k) = IF k \in 1..nasize /\ k \in 1..old.sizearray THEN Value(old, k) ELSE Nil
  <2>1. k \in 1..old.sizearray => Value(old, k) = old.array[k] BY ValueIs
  <2>2. k \in 1..nasize => (k <= old.sizearray <=> k \in 1..old.sizearray) BY <1>1
  <2> QED BY <2>1, <2>2, <1>12 DEF array
<1> QED BY <1>2, <1>4, <1>9, <1>12, <1>13 DEF new

-----------------------------------------------------------------------------
(* The loops of resize.                                                    *)

\* The loops of resize, as a function of the number of entries inserted again.
LEMMA ReinsertedIs ==
  ASSUME NEW n \in Nat, NEW old, NEW new, NEW S, new \in S,
         \A x \in S, i \in 1..n : PutEntry(x, Entry(old, new.sizearray, i)) \in S
  PROVE  \E f : /\ f[0] = new /\ Reinserted(new, old, n) = f[n]
                /\ \A i \in 1..n : f[i] = PutEntry(f[i - 1], Entry(old, new.sizearray, i))
<1> DEFINE Step(x, i) == PutEntry(x, Entry(old, new.sizearray, i))
           g == [p \in Nat \X S |-> IF p[1] < n THEN Step(p[2], p[1] + 1) ELSE p[2]]
           Is(f) == f = [i \in 0..n |-> IF i = 0 THEN new ELSE Step(f[i - 1], i)]
<1>1. Reinserted(new, old, n) = (CHOOSE f : Is(f))[n] BY DEF Reinserted
<1>2. \A x \in S, i \in 1..n : Step(x, i) \in S OBVIOUS
<1> HIDE DEF Step
<1>3. g \in [Nat \X S -> S]
  <2> SUFFICES ASSUME NEW p \in Nat \X S PROVE g[p] \in S OBVIOUS
  <2>1. p[1] < n => p[1] + 1 \in 1..n OBVIOUS
  <2> QED BY <2>1, <1>2
<1>4. \A i \in Nat, x \in S : i < n => g[<<i, x>>] = Step(x, i + 1) OBVIOUS
<1> HIDE DEF g
<1>5. PICK f : Iterates(f, S, new, g) BY <1>3, Iteration
<1> DEFINE h == [i \in 0..n |-> f[i]]
<1>6. Is(h)
  <2>1. \A i \in 0..n : h[i] = IF i = 0 THEN new ELSE Step(h[i - 1], i)
    <3> SUFFICES ASSUME NEW i \in 0..n PROVE f[i] = IF i = 0 THEN new ELSE Step(h[i - 1], i)
      OBVIOUS
    <3>1. CASE i = 0 BY <3>1, <1>5 DEF Iterates
    <3>2. CASE i # 0
      <4>1. i - 1 \in Nat /\ i - 1 < n /\ (i - 1) + 1 = i /\ i - 1 \in 0..n BY <3>2
      <4>2. f[i] = g[<<i - 1, f[i - 1]>>] /\ f[i - 1] \in S BY <4>1, <1>5 DEF Iterates
      <4>3. f[i] = Step(f[i - 1], i) BY <4>1, <4>2, <1>4
      <4> QED BY <4>1, <4>3, <3>2
    <3> QED BY <3>1, <3>2
  <2> HIDE DEF h
  <2>2. h = [i \in 0..n |-> h[i]] BY DEF h
  <2> QED BY <2>1, <2>2
<1> DEFINE r == CHOOSE k : Is(k)
<1>7. Is(r)
  <2> HIDE DEF Is, h
  <2> QED BY <1>6
<1> HIDE DEF r
<1>8. \A i \in 0..n : r[i] = IF i = 0 THEN new ELSE Step(r[i - 1], i) BY <1>7
<1>9. r[0] = new /\ \A i \in 1..n : r[i] = Step(r[i - 1], i)
  <2>1. 0 \in 0..n /\ \A i \in 1..n : i \in 0..n /\ i # 0 OBVIOUS
  <2> QED BY <2>1, <1>8
<1> QED BY <1>1, <1>9 DEF r, Step

Entries(old, nasize) == Lost(old, nasize) + sizenode(old)

\* What resize inserts again is a field that has lost its cell or its node.
LEMMA EntryIs ==
  ASSUME hash \in Hashes, NEW old, TableOK(old), NEW nasize \in Nat,
         NEW i \in 1..Entries(old, nasize), Entry(old, nasize, i).v # Nil
  PROVE  LET e == Entry(old, nasize, i)
         IN  /\ e.k \in Keys /\ e.v \in Values /\ Value(old, e.k) = e.v
             /\ ~(e.k \in 1..nasize /\ e.k \in 1..old.sizearray)
<1>1. IsTable(old) /\ old.sizearray \in Nat /\ sizenode(old) \in Nat \ {0}
  BY NodesType DEF TableOK, IsTable
<1>2. Lost(old, nasize) \in Nat BY <1>1 DEF Lost
<1>3. CASE i <= Lost(old, nasize)
  <2>1. Entry(old, nasize, i).k = nasize + i /\ Entry(old, nasize, i).v = old.array[nasize + i]
    BY <1>3 DEF Entry
  <2>2. nasize + i \in 1..old.sizearray /\ nasize + i \notin 1..nasize
    BY <1>1, <1>3 DEF Lost
  <2>3. nasize + i \in Keys BY <2>1, <2>2 DEF TableOK, ArrayOK
  <2>4. old.array[nasize + i] \in Values \cup {Nil} BY <2>2, <1>1 DEF IsTable, TablesOf
  <2> QED BY <2>1, <2>2, <2>3, <2>4, ValueIs
<1>4. CASE i > Lost(old, nasize)
  <2> DEFINE n == Lost(old, nasize) + sizenode(old) - i
  <2>1. n \in Nodes(old) BY <1>1, <1>2, <1>4 DEF Nodes, Entries
  <2>2. Entry(old, nasize, i).k = old.node[n].k /\ Entry(old, nasize, i).v = old.node[n].v
    BY <1>2, <1>4 DEF Entry
  <2> HIDE DEF n
  <2>3. old.node[n].v # Nil BY <2>2
  <2>4. old.node[n].k # Nil /\ ~old.node[n].dead
    BY <2>1, <2>3 DEF TableOK, NodesOK, FreeNode
  <2>5. old.node[n].k \in Keys /\ old.node[n].v \in Values
    BY <2>1, <2>3, <2>4, <1>1, NodesType DEF NodeType
  <2>6. HasKey(old.node[n], old.node[n].k) BY <2>4 DEF HasKey
  <2>7. old.node[n].k \notin 1..old.sizearray BY <2>1 DEF TableOK, ArrayOK
  <2> QED BY <2>1, <2>2, <2>5, <2>6, <2>7, ValueIs
<1> QED BY <1>2, <1>3, <1>4

\* resize leaves out no field that has lost its cell or its node.
LEMMA EntryOf ==
  ASSUME hash \in Hashes, NEW old, TableOK(old), NEW nasize \in Nat,
         NEW k \in Keys, Value(old, k) # Nil, ~(k \in 1..nasize /\ k \in 1..old.sizearray)
  PROVE  \E i \in 1..Entries(old, nasize) :
           Entry(old, nasize, i).k = k /\ Entry(old, nasize, i).v # Nil
<1>1. IsTable(old) /\ old.sizearray \in Nat /\ sizenode(old) \in Nat \ {0}
  BY NodesType DEF TableOK, IsTable
<1>2. Lost(old, nasize) \in Nat BY <1>1 DEF Lost
<1>3. CASE k \in 1..old.sizearray
  <2>1. k > nasize /\ k \in Nat BY <1>1, <1>3
  <2> DEFINE i == k - nasize
  <2>2. /\ i \in 1..Entries(old, nasize) /\ i <= Lost(old, nasize) /\ nasize + i = k
    BY <2>1, <1>1, <1>3 DEF Entries, Lost
  <2>3. Value(old, k) = old.array[k] BY <1>3, ValueIs
  <2> HIDE DEF i
  <2>4. Entry(old, nasize, i).k = k /\ Entry(old, nasize, i).v = old.array[k]
    BY <2>2 DEF Entry
  <2> QED BY <2>2, <2>3, <2>4
<1>4. CASE k \notin 1..old.sizearray
  <2>1. PICK n \in Nodes(old) : HasKey(old.node[n], k) BY <1>4, ValueIs
  <2>2. Value(old, k) = old.node[n].v BY <2>1, ValueIs
  <2> DEFINE i == Entries(old, nasize) - n
  <2>3. /\ i \in 1..Entries(old, nasize) /\ ~(i <= Lost(old, nasize))
        /\ Lost(old, nasize) + sizenode(old) - i = n
    BY <1>1, <1>2 DEF Entries, Nodes
  <2> HIDE DEF i
  <2>4. Entry(old, nasize, i).k = old.node[n].k /\ Entry(old, nasize, i).v = old.node[n].v
    BY <2>3 DEF Entry
  <2> QED BY <2>1, <2>2, <2>3, <2>4 DEF HasKey
<1> QED BY <1>3, <1>4

\* A resize that leaves as many nodes as there are keys without a cell keeps
\* every field, and the nodes have no other keys.
LEMMA ResizeGood ==
  ASSUME hash \in Hashes, NEW old, TableOK(old), NEW nasize \in Nat, NEW nhsize \in Nat,
         Cardinality(Used(old) \ (1..nasize)) <= nhsize
  PROVE  LET new == resize(old, nasize, nhsize)
         IN  /\ TableOK(new) /\ new.sizearray = nasize /\ new.ok = old.ok
             /\ sizenode(new) >= nhsize /\ new.dummy = (nhsize = 0)
             /\ NodeKeys(new) \subseteq Used(old) \ (1..nasize) /\ NoneDead(new)
             /\ \A k \in Keys : Value(new, k) = Value(old, k)
<1> DEFINE K == Used(old) \ (1..nasize)
           fresh == Fresh(old, nasize, nhsize)
           N == Entries(old, nasize)
           Good(x) == /\ TableOK(x) /\ SameSizes(fresh, x)
                      /\ NodeKeys(x) \subseteq K /\ NoneDead(x)
           S == {x \in TablesOf(nasize, fresh.lsizenode) : Good(x)}
<1>1. /\ TableOK(fresh) /\ fresh.sizearray = nasize /\ fresh.ok = old.ok
      /\ sizenode(fresh) >= nhsize /\ fresh.dummy = (nhsize = 0)
      /\ NodeKeys(fresh) = {} /\ NoneDead(fresh)
      /\ \A k \in Keys : Value(fresh, k) =
           IF k \in 1..nasize /\ k \in 1..old.sizearray THEN Value(old, k) ELSE Nil
  BY FreshIs
<1>2. K \subseteq Keys /\ IsFiniteSet(K) /\ Cardinality(K) \in Nat
  <2>1. IsFiniteSet(Used(old)) /\ Used(old) \subseteq Keys BY UsedAre
  <2>2. IsFiniteSet(K) BY <2>1, FS_Subset
  <2> QED BY <2>1, <2>2, FS_CardinalityType
<1>3. N \in Nat
  BY NodesType DEF TableOK, IsTable, Entries, Lost
<1>4. resize(old, nasize, nhsize) = Reinserted(fresh, old, N)
  BY DEF resize, Fresh, Entries
<1>5. IsTable(fresh) /\ sizenode(fresh) \in Nat BY <1>1, NodesType DEF TableOK
<1> HIDE DEF fresh, K, N
<1>6. fresh \in S
  BY <1>1, <1>5 DEF IsTable, SameSizes
<1>7. ASSUME NEW x, Good(x), NEW i \in 1..N, Entry(old, nasize, i).v # Nil
      PROVE  LET e == Entry(old, nasize, i)
             IN  PutEntry(x, e) \in S /\ Updated(x, PutEntry(x, e), e.k, Value(old, e.k))
  <2> DEFINE e == Entry(old, nasize, i)
  <2>1. /\ e.k \in Keys /\ e.v \in Values /\ Value(old, e.k) = e.v /\ e.v # Nil
    BY <1>7, EntryIs DEF N
  <2>2. e.k \notin 1..nasize => e.k \in K BY <2>1, UsedAre DEF K
  <2>3. x.sizearray = nasize /\ sizenode(x) = sizenode(fresh) /\ x.dummy = fresh.dummy
    BY <1>1, <1>7 DEF SameSizes, sizenode
  <2> HIDE DEF e
  <2>4. ASSUME Absent(x, e.k)
        PROVE  ~x.dummy /\ getfreepos(x) # NULL
    <3>1. e.k \in K BY <2>2, <2>3, <2>4 DEF Absent
    <3>2. nhsize # 0
      <4> SUFFICES ASSUME nhsize = 0 PROVE FALSE OBVIOUS
      <4>1. Cardinality(K) = 0 BY <1>2 DEF K
      <4> QED BY <4>1, <3>1, <1>2, FS_EmptySet
    <3>3. Cardinality(K) <= sizenode(x) BY <2>3, <1>1, <1>2, <1>5 DEF K
    <3> QED BY <3>1, <3>2, <3>3, <2>3, <2>4, <1>1, <1>2, <1>7, RoomFor
  <2>5. PutEntry(x, e) = Put(x, e.k, e.v) BY <2>1 DEF PutEntry
  <2>6. Updated(x, PutEntry(x, e), e.k, e.v)
    BY <2>1, <2>4, <2>5, <1>7, PutGood
  <2> DEFINE y == PutEntry(x, e)
  <2> HIDE DEF y
  <2>7. TableOK(y) /\ SameSizes(fresh, y) /\ NoneDead(y)
    BY <2>6, <1>7 DEF Updated, SameSizes, y
  <2>8. NodeKeys(y) \subseteq K
    <3>1. NodeKeys(y) \subseteq NodeKeys(x) \cup ({e.k} \ (1..nasize))
      BY <2>3, <2>6 DEF Updated, y
    <3> QED BY <3>1, <2>2, <1>7
  <2>9. y \in TablesOf(nasize, fresh.lsizenode)
    BY <2>7, <1>1 DEF TableOK, IsTable, SameSizes
  <2> QED BY <2>1, <2>6, <2>7, <2>8, <2>9 DEF y, e
<1>8. \A x \in S, i \in 1..N : PutEntry(x, Entry(old, fresh.sizearray, i)) \in S
  <2> SUFFICES ASSUME NEW x \in S, NEW i \in 1..N PROVE PutEntry(x, Entry(old, nasize, i)) \in S
    BY <1>1
  <2>1. CASE Entry(old, nasize, i).v = Nil BY <2>1 DEF PutEntry
  <2>2. CASE Entry(old, nasize, i).v # Nil BY <2>2, <1>7
  <2> QED BY <2>1, <2>2
<1>9. PICK f : /\ f[0] = fresh /\ Reinserted(fresh, old, N) = f[N]
               /\ \A i \in 1..N : f[i] = PutEntry(f[i - 1], Entry(old, nasize, i))
  <2> HIDE DEF S
  <2> QED BY <1>1, <1>3, <1>6, <1>8, ReinsertedIs
\* the keys inserted by now have the values they had
<1> DEFINE By(n, k) == \E i \in 1..n : Entry(old, nasize, i).k = k /\ Entry(old, nasize, i).v # Nil
           Done(n) == /\ f[n] \in S
                      /\ \A k \in Keys : Value(f[n], k) = IF By(n, k) THEN Value(old, k)
                                                          ELSE Value(fresh, k)
           T == {n \in Nat : n <= N => Done(n)}
<1>10. 0 \in T BY <1>6, <1>9
<1>11. ASSUME NEW n \in Nat, n \in T PROVE n + 1 \in T
  <2> SUFFICES ASSUME n + 1 <= N PROVE Done(n + 1) OBVIOUS
  <2> DEFINE e == Entry(old, nasize, n + 1)
  <2>1. Done(n) /\ n + 1 \in 1..N BY <1>3, <1>11
  <2>2. f[n + 1] = PutEntry(f[n], e)
    <3>1. (n + 1) - 1 = n OBVIOUS
    <3> QED BY <3>1, <2>1, <1>9
  <2>3. \A k : By(n + 1, k) <=> By(n, k) \/ (e.k = k /\ e.v # Nil)
    <3>1. 1..n + 1 = 1..n \cup {n + 1} OBVIOUS
    <3> QED BY <3>1
  <2>4. CASE e.v = Nil
    <3>1. f[n + 1] = f[n] BY <2>2, <2>4 DEF PutEntry
    <3> HIDE DEF By, S
    <3> QED BY <3>1, <2>1, <2>3, <2>4
  <2>5. CASE e.v # Nil
    <3>1. f[n + 1] \in S /\ Updated(f[n], f[n + 1], e.k, Value(old, e.k))
      <4>1. Good(f[n]) BY <2>1
      <4> HIDE DEF Good, S, Done
      <4> QED BY <4>1, <2>1, <2>2, <2>5, <1>7
    <3> HIDE DEF By, S, e
    <3>2. \A k \in Keys : Value(f[n + 1], k) = IF k = e.k THEN Value(old, e.k) ELSE Value(f[n], k)
      BY <3>1 DEF Updated
    <3> QED BY <3>1, <3>2, <2>1, <2>3, <2>5
  <2> QED BY <2>4, <2>5
<1>12. Done(N)
  <2>1. Nat \subseteq T
    <3> HIDE DEF T
    <3> QED BY <1>10, <1>11, SetInduction
  <2> QED BY <2>1, <1>3
<1> DEFINE new == f[N]
<1>13. \A k \in Keys : Value(new, k) = Value(old, k)
  <2> TAKE k \in Keys
  <2>1. CASE By(N, k) BY <2>1, <1>12
  <2>2. CASE ~By(N, k)
    <3>1. Value(new, k) = Value(fresh, k) BY <2>2, <1>12
    <3>2. CASE k \in 1..nasize /\ k \in 1..old.sizearray BY <3>1, <3>2, <1>1
    <3>3. CASE ~(k \in 1..nasize /\ k \in 1..old.sizearray)
      <4>1. Value(old, k) = Nil BY <2>2, <3>3, EntryOf DEF N
      <4>2. Value(fresh, k) = Nil BY <1>1, <3>3
      <4> QED BY <3>1, <4>1, <4>2
    <3> QED BY <3>2, <3>3
  <2> QED BY <2>1, <2>2
<1>14. Good(new) BY <1>12
<1>15. sizenode(new) = sizenode(fresh) BY <1>14 DEF sizenode, SameSizes
<1> HIDE DEF new
<1>16. /\ TableOK(new) /\ new.sizearray = nasize /\ new.ok = old.ok
       /\ sizenode(new) >= nhsize /\ new.dummy = (nhsize = 0)
       /\ NodeKeys(new) \subseteq K /\ NoneDead(new)
  BY <1>1, <1>14, <1>15 DEF SameSizes
<1> QED BY <1>4, <1>9, <1>13, <1>16 DEF new, K

-----------------------------------------------------------------------------
(* Rehash and assignment.                                                  *)

\* The size of the array part is a number (computesizes).
LEMMA SizeType == ASSUME NEW ints, IsFiniteSet(ints) PROVE computesizes(ints) \in Nat
<1> DEFINE Below(n) == Cardinality({k \in ints : k <= n})
           total == Cardinality(ints)
           good == {i \in 0..total : twoto[i] \div 2 < total /\ Below(twoto[i]) > twoto[i] \div 2}
<1>1. total \in Nat BY FS_CardinalityType
<1>2. good \in SUBSET Nat /\ \A i \in good : i <= total BY <1>1
<1>3. computesizes(ints) = IF good = {} THEN 0 ELSE twoto[Max(good)] BY DEF computesizes
<1> HIDE DEF good, total
<1>4. ASSUME good # {} PROVE Max(good) \in Nat
  <2>1. \E x \in good : \A y \in good : y <= x BY <1>1, <1>2, <1>4, Greatest
  <2>2. \E x \in good : \A y \in good : x >= y BY <2>1, <1>2
  <2>3. Max(good) \in good BY <2>2 DEF Max
  <2> QED BY <2>3, <1>2
<1> QED BY <1>3, <1>4, TwotoGrows

\* A rehash keeps every field, and after it there is room for the key.
LEMMA RehashGood ==
  ASSUME hash \in Hashes, NEW tb, TableOK(tb), NEW key \in Keys, key \notin Used(tb)
  PROVE  LET new == rehash(tb, key)
         IN  /\ TableOK(new) /\ new.ok = tb.ok
             /\ \A k \in Keys : Value(new, k) = Value(tb, k)
             /\ Absent(new, key) => ~new.dummy /\ getfreepos(new) # NULL
<1> DEFINE keys == Counted(tb, key)
           ints == keys \cap Nat
           n == computesizes(ints)
           low == {k \in ints : k <= n}
           nh == Cardinality(keys) - Cardinality(low)
           new == rehash(tb, key)
<1>1. Used(tb) \subseteq Keys /\ IsFiniteSet(Used(tb)) BY UsedAre
<1>2. keys = Used(tb) \cup {key} /\ keys \subseteq Keys BY <1>1 DEF Counted
<1>3. IsFiniteSet(keys) /\ Cardinality(keys) \in Nat
  BY <1>1, <1>2, FS_AddElement, FS_CardinalityType
<1> HIDE DEF keys
<1>4. IsFiniteSet(ints) BY <1>3, FS_Subset
<1>5. n \in Nat BY <1>4, SizeType
<1>6. new = resize(tb, n, nh) BY DEF rehash, keys
<1> HIDE DEF n
<1>7. \A k \in Keys : k \in Nat <=> k \in Ints BY TableAssumption DEF Keys
<1>8. low = keys \cap (1..n)
  <2>1. \A k \in ints : k \in Nat \ {0} BY <1>2, <1>7, TableAssumption
  <2> QED BY <2>1, <1>5
<1>9. IsFiniteSet(keys \ (1..n)) /\ Cardinality(keys \ (1..n)) = nh
  <2>1. IsFiniteSet(low) /\ Cardinality(low) \in Nat BY <1>4, FS_Subset, FS_CardinalityType
  <2>2. Cardinality(keys \ (1..n)) = Cardinality(keys) - Cardinality(keys \cap (1..n))
    BY <1>3, FS_Difference
  <2>3. IsFiniteSet(keys \ (1..n)) BY <1>3, FS_Subset
  <2> QED BY <2>2, <2>3, <1>8
<1>10. nh \in Nat BY <1>9, FS_CardinalityType
<1>11. Cardinality(Used(tb) \ (1..n)) <= nh
  <2>1. Used(tb) \ (1..n) \in SUBSET (keys \ (1..n)) BY <1>2
  <2> QED BY <2>1, <1>9, FS_Subset
<1> HIDE DEF nh, low, new
<1>12. /\ TableOK(new) /\ new.sizearray = n /\ new.ok = tb.ok
       /\ sizenode(new) >= nh /\ new.dummy = (nh = 0)
       /\ NodeKeys(new) \subseteq Used(tb) \ (1..n) /\ NoneDead(new)
       /\ \A k \in Keys : Value(new, k) = Value(tb, k)
  BY <1>5, <1>6, <1>10, <1>11, ResizeGood
<1>13. ASSUME Absent(new, key) PROVE ~new.dummy /\ getfreepos(new) # NULL
  <2> DEFINE K == keys \ (1..n)
  <2>1. key \in K BY <1>2, <1>12, <1>13 DEF Absent
  <2>2. nh # 0 BY <2>1, <1>9, FS_EmptySet
  <2>3. NodeKeys(new) \subseteq K /\ Cardinality(K) <= sizenode(new)
    <3>1. sizenode(new) \in Nat BY <1>12, NodesType DEF TableOK
    <3> QED BY <3>1, <1>2, <1>9, <1>10, <1>12
  <2> HIDE DEF K
  <2>4. IsFiniteSet(K) BY <1>9 DEF K
  <2> QED BY <2>1, <2>2, <2>3, <2>4, <1>12, <1>13, RoomFor
<1> QED BY <1>12, <1>13 DEF new

\* luaH_set assigns one field, with or without a rehash, and moves no key when it has a
\* cell or a node already.
LEMMA SetGood ==
  ASSUME hash \in Hashes, NEW tb, TableOK(tb), NEW key \in Keys, NEW v \in Values \cup {Nil}
  PROVE  LET new == luaH_set(tb, key, v)
         IN  /\ TableOK(new) /\ new.ok = tb.ok
             /\ \A k \in Keys : Value(new, k) = IF k = key THEN v ELSE Value(tb, k)
             /\ ~Absent(tb, key) => SameNodes(tb, new)
<1> DEFINE full == /\ luaH_get(tb, key).in = "none"
                   /\ tb.node[mainposition(tb, key)].v # Nil \/ tb.dummy
                   /\ getfreepos(tb) = NULL
<1>1. luaH_get(tb, key).in = "none" <=> Absent(tb, key)
  <2>1. CASE Absent(tb, key)
    <3>1. luaH_get(tb, key) = NoPlace BY <2>1, GetFinds DEF Absent
    <3> QED BY <2>1, <3>1 DEF NoPlace
  <2>2. CASE ~Absent(tb, key)
    <3>1. key \in 1..tb.sizearray \/ \E n \in Nodes(tb) : HasKey(tb.node[n], key)
      BY <2>2 DEF Absent
    <3>2. luaH_get(tb, key) = Cell(key) \/ \E n \in Nodes(tb) : luaH_get(tb, key) = InNode(n)
      BY <3>1, GetFinds
    <3> QED BY <2>2, <3>2 DEF Cell, InNode
  <2> QED BY <2>1, <2>2
<1>2. CASE full
  <2> DEFINE new == rehash(tb, key)
  <2>1. Absent(tb, key) BY <1>1, <1>2
  <2>2. key \notin Used(tb)
    <3>1. Value(tb, key) = Nil BY <2>1, ValueIs DEF Absent
    <3> QED BY <3>1, UsedAre
  <2>3. /\ TableOK(new) /\ new.ok = tb.ok
        /\ \A k \in Keys : Value(new, k) = Value(tb, k)
        /\ Absent(new, key) => ~new.dummy /\ getfreepos(new) # NULL
    BY <2>2, RehashGood
  <2>4. luaH_set(tb, key, v) = Put(new, key, v) BY <1>2 DEF luaH_set
  <2> HIDE DEF new
  <2>5. Updated(new, Put(new, key, v), key, v) BY <2>3, PutGood
  <2> QED BY <2>1, <2>3, <2>4, <2>5 DEF Updated, SameSizes
<1>3. CASE ~full
  <2>1. luaH_set(tb, key, v) = Put(tb, key, v) BY <1>3 DEF luaH_set
  <2>2. getfreepos(tb) # NULL => ~tb.dummy BY DEF getfreepos
  <2>3. /\ Updated(tb, Put(tb, key, v), key, v)
        /\ ~Absent(tb, key) => SameNodes(tb, Put(tb, key, v))
    BY <1>1, <1>3, <2>2, PutGood
  <2> QED BY <2>1, <2>3 DEF Updated, SameSizes
<1> QED BY <1>2, <1>3

\* OP_SETLIST, which makes the array larger, keeps every field (luaH_resizearray).
LEMMA ResizeArrayGood ==
  ASSUME hash \in Hashes, NEW tb, TableOK(tb), NEW nasize \in Nat, nasize > tb.sizearray
  PROVE  LET new == resize(tb, nasize, IF tb.dummy THEN 0 ELSE sizenode(tb))
         IN  /\ TableOK(new) /\ new.ok = tb.ok
             /\ \A k \in Keys : Value(new, k) = Value(tb, k)
<1> DEFINE K == Used(tb) \ (1..nasize)
           nh == IF tb.dummy THEN 0 ELSE sizenode(tb)
<1>1. IsTable(tb) /\ tb.sizearray \in Nat /\ sizenode(tb) \in Nat \ {0} /\ DOMAIN tb.node = Nodes(tb)
  BY NodesType DEF TableOK, IsTable
<1>2. \A k \in K : \E n \in Nodes(tb) : tb.node[n].k = k /\ k # Nil
  <2> TAKE k \in K
  <2>1. k \notin 1..tb.sizearray BY <1>1
  <2>2. k # Nil BY UsedAre, TableAssumption
  <2> QED BY <2>1, <2>2, <1>1 DEF Used
<1>3. Cardinality(K) <= nh
  <2>1. CASE tb.dummy
    <3>1. Nodes(tb) = {0} /\ tb.node[0].k = Nil
      <4>1. tb.lsizenode = 0 /\ tb.node[0].k = Nil BY <2>1 DEF TableOK, FreeOK
      <4>2. sizenode(tb) = 1 BY <4>1, TwotoDef DEF sizenode
      <4>3. Nodes(tb) = 0..0 BY <4>2 DEF Nodes
      <4> QED BY <4>1, <4>3
    <3>2. K = {} BY <3>1, <1>2
    <3> HIDE DEF K
    <3> QED BY <3>2, <2>1, FS_EmptySet
  <2>2. CASE ~tb.dummy
    <3> DEFINE M == {n \in Nodes(tb) : tb.node[n].k \in K}
               f == [n \in M |-> tb.node[n].k]
    <3>1. IsFiniteSet(Nodes(tb)) /\ Cardinality(Nodes(tb)) = sizenode(tb)
      BY <1>1, FS_Interval DEF Nodes
    <3>2. IsFiniteSet(M) /\ Cardinality(M) <= sizenode(tb) BY <3>1, FS_Subset
    <3>3. f \in Surjection(M, K) BY <1>2 DEF Surjection
    <3> HIDE DEF K, M, f
    <3>4. Cardinality(K) <= Cardinality(M) /\ IsFiniteSet(K) BY <3>2, <3>3, FS_Surjection
    <3>5. Cardinality(K) \in Nat /\ Cardinality(M) \in Nat BY <3>2, <3>4, FS_CardinalityType
    <3> QED BY <3>2, <3>4, <3>5, <2>2, <1>1
  <2> QED BY <2>1, <2>2
<1>4. nh \in Nat BY <1>1
<1> HIDE DEF nh
<1>5. /\ TableOK(resize(tb, nasize, nh)) /\ resize(tb, nasize, nh).ok = tb.ok
      /\ \A k \in Keys : Value(resize(tb, nasize, nh), k) = Value(tb, k)
  BY <1>3, <1>4, ResizeGood
<1> QED BY <1>5 DEF nh

-----------------------------------------------------------------------------
(* Traversal.                                                              *)

\* The index of a key: that of its cell, or of the node that has it alive if one has.
LEMMA FindIs ==
  ASSUME hash \in Hashes, NEW tb, TableOK(tb), NEW key \in Keys
  PROVE  /\ key \in 1..tb.sizearray => findindex(tb, key) = key
         /\ key \notin 1..tb.sizearray /\ key \in NodeKeys(tb) =>
              \E n \in Nodes(tb) : /\ findindex(tb, key) = tb.sizearray + n + 1
                                   /\ tb.node[n].k = key
                                   /\ \A m \in Nodes(tb) : HasKey(tb.node[m], key) => n = m
<1> DEFINE fit == {n \in Nodes(tb) : Findable(tb.node[n], key)}
           main == mainposition(tb, key)
           at  == FirstIn(tb, main, fit)
<1>1. /\ IsTable(tb) /\ ChainsOK(tb) /\ DOMAIN tb.node = Nodes(tb) /\ NULL \notin Nodes(tb)
      /\ IsList(links(tb)) /\ DOMAIN links(tb) = Nodes(tb) /\ Acyclic(links(tb))
  BY NodesType, LinksAreList DEF TableOK, ChainsOK
<1>2. main \in Nodes(tb) BY <1>1, PositionType
<1>3. IF at = NULL THEN Chain(links(tb), main) \cap fit = {}
      ELSE /\ at \in Chain(links(tb), main) \cap fit
           /\ \A o \in Chain(links(tb), main) \cap fit : o \in Chain(links(tb), at)
  BY <1>1, <1>2, FirstInFinds
<1>4. fit = {n \in DOMAIN tb.node : Findable(tb.node[n], key)} BY <1>1
<1>5. key # Nil BY TableAssumption
<1>6. findindex(tb, key) = IF key \in 1..tb.sizearray THEN key
                           ELSE IF at = NULL THEN NULL ELSE tb.sizearray + at + 1
  BY <1>4, <1>5 DEF findindex
<1>7. ASSUME NEW n \in fit PROVE n \in Chain(links(tb), main) /\ tb.node[n].k = key
  <2>1. tb.node[n].k = key BY DEF Findable
  <2> QED BY <2>1, <1>5 DEF TableOK, PlacesOK, mp
<1> HIDE DEF at, main
<1>8. ASSUME key \in NodeKeys(tb)
      PROVE  /\ at \in Nodes(tb) /\ tb.node[at].k = key
             /\ \A m \in Nodes(tb) : HasKey(tb.node[m], key) => at = m
  <2>1. PICK n \in Nodes(tb) : tb.node[n].k = key BY <1>8 DEF NodeKeys
  <2>2. n \in fit BY <2>1 DEF Findable
  <2>3. at # NULL BY <2>2, <1>3, <1>7
  <2>4. at \in Nodes(tb) /\ tb.node[at].k = key BY <2>3, <1>3, <1>7
  <2>5. ASSUME NEW m \in Nodes(tb), HasKey(tb.node[m], key), at # m PROVE FALSE
    <3>1. m \in fit BY <2>5 DEF HasKey, Findable
    <3>2. m \in Chain(links(tb), at) BY <3>1, <2>3, <1>3, <1>7
    <3>3. at \in Chain(links(tb), m)
      BY <2>4, <2>5, <1>5 DEF TableOK, KeysOK, HasKey
    <3> QED BY <3>2, <3>3, <2>4, <2>5, <1>1, ChainOneWay
  <2> QED BY <2>4, <2>5
<1> QED BY <1>1, <1>6, <1>8

Indices(tb) == 1..tb.sizearray + sizenode(tb)

\* next accepts the key of every field, and goes on from there.
LEMMA PresentIs ==
  ASSUME hash \in Hashes, NEW tb, TableOK(tb), NEW i \in Indices(tb), Present(tb, i)
  PROVE  /\ KeyAt(tb, i) \in Keys /\ findindex(tb, KeyAt(tb, i)) = i
         /\ KeyAt(tb, i) \in 1..tb.sizearray \/ KeyAt(tb, i) \in NodeKeys(tb)
         /\ Value(tb, KeyAt(tb, i)) # Nil
<1>1. IsTable(tb) /\ tb.sizearray \in Nat /\ sizenode(tb) \in Nat
  BY NodesType DEF TableOK, IsTable
<1>2. CASE i <= tb.sizearray
  <2>1. i \in 1..tb.sizearray /\ KeyAt(tb, i) = i /\ tb.array[i] # Nil
    BY <1>1, <1>2 DEF Indices, KeyAt, Present
  <2>2. i \in Keys BY <2>1 DEF TableOK, ArrayOK
  <2> QED BY <2>1, <2>2, FindIs, ValueIs
<1>3. CASE i > tb.sizearray
  <2> DEFINE n == i - tb.sizearray - 1
  <2>1. n \in Nodes(tb) /\ i = tb.sizearray + n + 1 BY <1>1, <1>3 DEF Indices, Nodes
  <2>2. KeyAt(tb, i) = tb.node[n].k /\ tb.node[n].v # Nil
    BY <1>1, <1>3 DEF Indices, KeyAt, Present
  <2> HIDE DEF n
  <2>3. tb.node[n].k # Nil /\ ~tb.node[n].dead
    BY <2>1, <2>2 DEF TableOK, NodesOK, FreeNode
  <2>4. tb.node[n].k \in Keys BY <2>1, <2>3, <1>1, NodesType DEF NodeType
  <2>5. HasKey(tb.node[n], tb.node[n].k) BY <2>3 DEF HasKey
  <2>6. tb.node[n].k \notin 1..tb.sizearray BY <2>1 DEF TableOK, ArrayOK
  <2>7. tb.node[n].k \in NodeKeys(tb) BY <2>1, <2>3 DEF NodeKeys
  <2>8. findindex(tb, tb.node[n].k) = i BY <2>1, <2>4, <2>5, <2>6, <2>7, FindIs
  <2> QED BY <2>1, <2>2, <2>4, <2>5, <2>7, <2>8, ValueIs
<1> QED BY <1>1, <1>2, <1>3 DEF Indices

\* luaH_next (ltable.c:162) accepts the key of every field there was, and gives the first
\* present one behind it.
LEMMA NextIs ==
  ASSUME hash \in Hashes, NEW tb, TableOK(tb), NEW key,
         key = Nil \/ (key \in Keys /\ (key \in 1..tb.sizearray \/ key \in NodeKeys(tb)))
  PROVE  LET i == findindex(tb, key)
         IN  /\ i \in Nat /\ After(tb, i) \subseteq Indices(tb)
             /\ After(tb, i) = {} => luaH_next(tb, key) = Off
             /\ After(tb, i) # {} =>
                  \E j \in After(tb, i) : /\ luaH_next(tb, key) = KeyAt(tb, j)
                                          /\ \A l \in After(tb, i) : j <= l
<1> DEFINE i == findindex(tb, key)
<1>1. IsTable(tb) /\ tb.sizearray \in Nat /\ sizenode(tb) \in Nat /\ Nodes(tb) \subseteq Nat
  BY NodesType DEF TableOK, IsTable
<1>2. i \in Nat
  <2>1. CASE key = Nil BY <2>1 DEF findindex
  <2>2. CASE key # Nil
    <3>1. CASE key \in 1..tb.sizearray BY <2>2, <3>1, FindIs
    <3>2. CASE key \notin 1..tb.sizearray
      <4>1. \E n \in Nodes(tb) : i = tb.sizearray + n + 1 BY <2>2, <3>2, FindIs
      <4> QED BY <4>1, <1>1
    <3> QED BY <3>1, <3>2
  <2> QED BY <2>1, <2>2
<1>3. i # NULL BY <1>2 DEF NULL
<1> HIDE DEF i
<1>4. After(tb, i) \subseteq Indices(tb) /\ After(tb, i) \in SUBSET Nat
  BY <1>1, <1>2 DEF After, Indices
<1>5. /\ After(tb, i) = {} => luaH_next(tb, key) = Off
      /\ After(tb, i) # {} => luaH_next(tb, key) = KeyAt(tb, Min(After(tb, i)))
  BY <1>3 DEF luaH_next, i
<1>6. ASSUME After(tb, i) # {}
      PROVE  Min(After(tb, i)) \in After(tb, i) /\ \A l \in After(tb, i) : Min(After(tb, i)) <= l
  <2> DEFINE A == After(tb, i)
  <2> HIDE DEF A
  <2>1. \E x \in A : \A y \in A : x <= y BY <1>4, <1>6, Least DEF A
  <2>2. Min(A) \in A /\ \A y \in A : Min(A) <= y BY <2>1 DEF Min
  <2> QED BY <2>2 DEF A
<1> QED BY <1>2, <1>4, <1>5, <1>6 DEF i

-----------------------------------------------------------------------------
(* The invariant.                                                          *)

\* A new table satisfies the invariant, whatever sizes it is given (luaH_new).
LEMMA InitInv == Init => TableInv
<1> SUFFICES ASSUME Init PROVE TableInv OBVIOUS
<1>1. hash \in Hashes /\ cur = Off /\ fields = [key \in Keys |-> Nil] BY DEF Init
<1> DEFINE tb == [sizearray |-> 0, array |-> [i \in 1..0 |-> Nil],
                  lsizenode |-> 0, node |-> [n \in 0..0 |-> FreeNode],
                  lastfree |-> 0, dummy |-> TRUE, ok |-> TRUE]
<1>2. PICK narray, nhash \in Sizes : t = Fresh(tb, narray, nhash)
  BY DEF Init, luaH_new, Fresh
<1>3. narray \in Nat /\ nhash \in Nat BY TableAssumption
<1>4. IsTable(tb)
  <2>1. twoto[0] = 1 BY TwotoDef
  <2>2. [n \in 0..0 |-> FreeNode] \in [0..twoto[0] - 1 -> NodeType(twoto[0])]
    BY <2>1 DEF FreeNode, NodeType
  <2>3. [i \in 1..0 |-> Nil] \in [1..0 -> Values \cup {Nil}] OBVIOUS
  <2>4. 0 \in 0..twoto[0] BY <2>1
  <2>5. tb \in TablesOf(0, 0) BY <2>2, <2>3, <2>4 DEF TablesOf
  <2> QED BY <2>5 DEF IsTable
<1>5. /\ tb.sizearray = 0 /\ tb.dummy /\ tb.ok /\ tb.lsizenode = 0
      /\ tb.node = [n \in 0..0 |-> FreeNode]
  OBVIOUS
<1> HIDE DEF tb
<1>6. \A n \in Nodes(tb) : tb.node[n] = FreeNode
  BY <1>5, TwotoDef DEF Nodes, sizenode
<1>7. TableOK(tb) BY <1>1, <1>4, <1>5, <1>6, BlankIs
<1>8. TableOK(t) /\ t.ok /\ \A k \in Keys : Value(t, k) = Nil
  <2>1. \A k : ~(k \in 1..tb.sizearray) BY <1>5
  <2>2. /\ TableOK(t) /\ t.ok = tb.ok
        /\ \A k \in Keys : Value(t, k) =
             IF k \in 1..narray /\ k \in 1..tb.sizearray THEN Value(tb, k) ELSE Nil
    BY <1>1, <1>2, <1>3, <1>7, FreshIs
  <2> QED BY <2>1, <2>2, <1>5
<1>9. fields \in [Keys -> Values \cup {Nil}] /\ HoldsFields BY <1>1, <1>8 DEF HoldsFields
<1> QED BY <1>1, <1>8, <1>9, TableAssumption DEF TableInv, CurOK

\* A step that leaves the hashes alone leaves a table what it is.
LEMMA SameHash ==
  ASSUME hash' = hash, NEW new, t' = new
  PROVE  /\ TableOK(t)' <=> TableOK(new)
         /\ \A k : Value(t, k)' = Value(new, k)
<1>1. \A k : mainposition(t, k)' = mainposition(new, k) BY DEF mainposition
<1>2. PlacesOK(t)' <=> PlacesOK(new) BY DEF PlacesOK, mp, mainposition
<1>3. TableOK(t)' <=> TableOK(new) BY <1>2 DEF TableOK
<1>4. \A k : luaH_get(t, k)' = luaH_get(new, k) BY <1>1 DEF luaH_get
<1>5. \A k : Value(t, k)' = Value(new, k) BY <1>4 DEF Value
<1> QED BY <1>3, <1>5

\* What is to be shown of a step that makes new of the table.
LEMMA StepInv ==
  ASSUME TableInv, hash' = hash, NEW new, t' = new, TableOK(new), new.ok,
         fields' \in [Keys -> Values \cup {Nil}],
         \A k \in Keys : Value(new, k) = fields'[k],
         cur' \in Keys \cup {Nil, Off},
         cur' \in Keys => cur' \in 1..new.sizearray \/ cur' \in NodeKeys(new)
  PROVE  TableInv'
<1>1. TableOK(t)' /\ HoldsFields'
  BY SameHash DEF HoldsFields
<1>2. CurOK' BY DEF CurOK, NodeKeys, Nodes, sizenode
<1> QED BY <1>1, <1>2 DEF TableInv

\* An assignment keeps the invariant (luaH_set).
LEMMA AssignInv == ASSUME TableInv, Assign PROVE TableInv'
<1> PICK key \in Keys, v \in Values \cup {Nil} :
      /\ t' = luaH_set(t, key, v) /\ cur' = (IF fields[key] = Nil THEN Off ELSE cur)
      /\ fields' = [fields EXCEPT ![key] = v] /\ hash' = hash
  BY DEF Assign
<1>1. hash \in Hashes /\ TableOK(t) /\ t.ok /\ HoldsFields /\ CurOK
      /\ fields \in [Keys -> Values \cup {Nil}]
  BY DEF TableInv
<1> DEFINE new == luaH_set(t, key, v)
<1>2. /\ TableOK(new) /\ new.ok
      /\ \A k \in Keys : Value(new, k) = IF k = key THEN v ELSE Value(t, k)
      /\ ~Absent(t, key) => SameNodes(t, new)
  BY <1>1, SetGood
<1>a. ~Absent(t, key) => new.sizearray = t.sizearray /\ NodeKeys(new) = NodeKeys(t)
  BY <1>2 DEF SameNodes, SameSizes, NodeKeys, Nodes, sizenode
<1>3. fields[key] # Nil => ~Absent(t, key)
  <2>1. Value(t, key) = fields[key] BY <1>1 DEF HoldsFields
  <2> QED BY <2>1, <1>1, ValueIs DEF Absent
<1> HIDE DEF new
<1>4. t' = new BY DEF new
<1>5. /\ fields' \in [Keys -> Values \cup {Nil}]
      /\ \A k \in Keys : Value(new, k) = fields'[k]
  BY <1>1, <1>2 DEF HoldsFields
<1>6. /\ cur' \in Keys \cup {Nil, Off}
      /\ cur' \in Keys => cur' \in 1..new.sizearray \/ cur' \in NodeKeys(new)
  <2>1. Off \notin Keys /\ Nil \notin Keys BY TableAssumption
  <2> QED BY <2>1, <1>1, <1>a, <1>3 DEF CurOK, NodeKeys
<1> QED BY <1>2, <1>4, <1>5, <1>6, StepInv

\* OP_SETLIST keeps the invariant (luaH_resizearray).
LEMMA ResizeInv == ASSUME TableInv, luaH_resizearray PROVE TableInv'
<1> PICK nasize \in Sizes : /\ cur = Off /\ nasize > t.sizearray
                            /\ t' = resize(t, nasize, IF t.dummy THEN 0 ELSE sizenode(t))
                            /\ UNCHANGED <<hash, cur, fields>>
  BY DEF luaH_resizearray
<1>1. hash \in Hashes /\ TableOK(t) /\ t.ok /\ HoldsFields /\ fields \in [Keys -> Values \cup {Nil}]
  BY DEF TableInv
<1> DEFINE new == resize(t, nasize, IF t.dummy THEN 0 ELSE sizenode(t))
<1>2. TableOK(new) /\ new.ok /\ \A k \in Keys : Value(new, k) = Value(t, k)
  <2>1. nasize \in Nat BY TableAssumption
  <2> QED BY <2>1, <1>1, ResizeArrayGood
<1> HIDE DEF new
<1>3. t' = new BY DEF new
<1>4. cur' = Off /\ Off \notin Keys BY TableAssumption
<1> QED BY <1>1, <1>2, <1>3, <1>4, StepInv DEF HoldsFields

\* Keys die, and no field is lost.
LEMMA RemoveInv == ASSUME TableInv, removeentry PROVE TableInv'
<1> DEFINE Gone(n) == t.node[n].v = Nil /\ t.node[n].k \in Strings \cup Objects
           nodes == [n \in DOMAIN t.node |-> IF Gone(n) THEN [t.node[n] EXCEPT !.dead = TRUE]
                                             ELSE t.node[n]]
           new == [t EXCEPT !.node = nodes]
<1>1. hash \in Hashes /\ TableOK(t) /\ t.ok /\ HoldsFields /\ CurOK
      /\ fields \in [Keys -> Values \cup {Nil}]
  BY DEF TableInv
<1>2. /\ IsTable(t) /\ t \in TablesOf(t.sizearray, t.lsizenode) /\ DOMAIN t.node = Nodes(t)
      /\ t.node \in [Nodes(t) -> NodeType(sizenode(t))]
  BY <1>1 DEF TableOK, IsTable, TablesOf, Nodes, sizenode
<1>3. t' = new /\ UNCHANGED <<hash, cur, fields>> BY DEF removeentry
<1>4. /\ nodes \in [Nodes(t) -> NodeType(sizenode(t))]
      /\ \A n \in Nodes(t) : /\ nodes[n].k = t.node[n].k /\ nodes[n].next = t.node[n].next
                             /\ nodes[n].v = t.node[n].v
                             /\ nodes[n].dead = (t.node[n].dead \/ Gone(n))
                             /\ t.node[n].k = Nil => nodes[n] = t.node[n]
  <2>1. \A n \in Nodes(t) : t.node[n] \in NodeType(sizenode(t)) BY <1>2
  <2>2. Nil \notin Strings \cup Objects BY TableAssumption DEF Keys
  <2> QED BY <2>1, <2>2, <1>2 DEF NodeType
<1> HIDE DEF nodes
<1>5. /\ new.sizearray = t.sizearray /\ new.lsizenode = t.lsizenode /\ new.dummy = t.dummy
      /\ new.lastfree = t.lastfree /\ new.ok = t.ok /\ new.node = nodes /\ new.array = t.array
  BY <1>2 DEF TablesOf
<1>6. new \in TablesOf(t.sizearray, t.lsizenode)
  BY <1>2, <1>4 DEF TablesOf, Nodes, sizenode
<1> HIDE DEF new
<1>7. IsTable(new) BY <1>2, <1>5, <1>6 DEF IsTable
<1>8. TableOK(new)
  <2>1. \A i \in 1..t.sizearray : new.array[i] # Nil => i \in Keys
    BY <1>1, <1>5 DEF TableOK, ArrayOK
  <2>2. \A n \in Nodes(t) :
          /\ new.node[n].k = t.node[n].k /\ new.node[n].next = t.node[n].next
          /\ t.node[n].dead => new.node[n].dead
          /\ new.node[n].dead => new.node[n].v = Nil
          /\ t.node[n].k = Nil => new.node[n] = t.node[n]
    BY <1>1, <1>4, <1>5 DEF TableOK, NodesOK
  <2> QED BY <2>1, <2>2, <1>1, <1>5, <1>7, SameShape
<1>9. Nodes(new) = Nodes(t) /\ sizenode(new) = sizenode(t) BY <1>5 DEF Nodes, sizenode
<1>10. SameParts(t, new) BY <1>5, <1>9 DEF SameParts, mainposition
<1>11. \A k \in Keys : Value(new, k) = Value(t, k)
  <2> TAKE k \in Keys
  <2>1. \A w : w # Nil => (Holds(t, k, w) <=> Holds(new, k, w))
    BY <1>4, <1>5, <1>9 DEF Holds, HasKey
  <2> QED BY <2>1, <1>1, <1>8, <1>10, ValueSame
<1>12. NodeKeys(new) = NodeKeys(t) BY <1>4, <1>5, <1>9 DEF NodeKeys
<1>13. /\ cur' \in Keys \cup {Nil, Off}
       /\ cur' \in Keys => cur' \in 1..new.sizearray \/ cur' \in NodeKeys(new)
  BY <1>1, <1>3, <1>5, <1>12, TableAssumption DEF CurOK, NodeKeys
<1> QED BY <1>1, <1>3, <1>5, <1>8, <1>11, <1>13, StepInv DEF HoldsFields

\* A traversal keeps the invariant: its key stays one that next accepts (lua_next).
LEMMA TraverseInv == ASSUME TableInv, Begin \/ lua_next PROVE TableInv'
<1>1. hash \in Hashes /\ TableOK(t) /\ t.ok /\ HoldsFields /\ CurOK
      /\ fields \in [Keys -> Values \cup {Nil}] /\ Nil \notin Keys
  BY TableAssumption DEF TableInv
<1>2. UNCHANGED <<hash, t, fields>> BY DEF Begin, lua_next
<1>3. CASE Begin
  <2>1. cur' = Nil BY <1>3 DEF Begin
  <2> QED BY <2>1, <1>1, <1>2, StepInv DEF HoldsFields
<1>4. CASE lua_next
  <2>1. cur # Off /\ cur' = luaH_next(t, cur) BY <1>4 DEF lua_next
  <2>2. cur = Nil \/ (cur \in Keys /\ (cur \in 1..t.sizearray \/ cur \in NodeKeys(t)))
    <3>1. CASE cur = Nil BY <3>1
    <3>2. CASE cur \in Keys
      <4>1. cur \in 1..t.sizearray \/ \E n \in Nodes(t) : t.node[n].k = cur
        BY <3>2, <1>1 DEF CurOK
      <4>2. cur # Nil BY <3>2, <1>1
      <4> QED BY <3>2, <4>1, <4>2 DEF NodeKeys
    <3> QED BY <3>1, <3>2, <2>1, <1>1 DEF CurOK
  <2>3. /\ After(t, findindex(t, cur)) \subseteq Indices(t)
        /\ cur' = Off \/ \E j \in After(t, findindex(t, cur)) : cur' = KeyAt(t, j)
    BY <2>1, <2>2, <1>1, NextIs
  <2>4. CASE cur' = Off BY <2>4, <1>1, <1>2, StepInv, TableAssumption DEF HoldsFields
  <2>5. CASE \E j \in After(t, findindex(t, cur)) : cur' = KeyAt(t, j)
    <3>1. PICK j \in Indices(t) : Present(t, j) /\ cur' = KeyAt(t, j) BY <2>3, <2>5 DEF After
    <3>2. cur' \in Keys /\ (cur' \in 1..t.sizearray \/ cur' \in NodeKeys(t))
      BY <3>1, <1>1, PresentIs
    <3> QED BY <3>2, <1>1, <1>2, StepInv DEF HoldsFields
  <2> QED BY <2>3, <2>4, <2>5
<1> QED BY <1>3, <1>4

\* Every step keeps the invariant.
LEMMA NextInv == TableInv /\ [Next]_vars => TableInv'
<1> SUFFICES ASSUME TableInv, [Next]_vars PROVE TableInv' OBVIOUS
<1>1. CASE UNCHANGED vars
  <2>1. hash' = hash /\ t' = t /\ cur' = cur /\ fields' = fields BY <1>1 DEF vars
  <2> QED BY <2>1, StepInv, TableAssumption DEF TableInv, HoldsFields, CurOK, NodeKeys
<1> QED BY <1>1, AssignInv, ResizeInv, RemoveInv, TraverseInv DEF Next

\* Whatever the hash, every table that can be built is in order: its chains end, each
\* has the keys of its main position, no key is alive twice, no node from lastfree on
\* is free, and the table has the fields last assigned (ltable.c).
THEOREM TableInvariant == Spec => []TableInv
<1> QED BY InitInv, NextInv, PTL DEF Spec

\* Every key has the value last assigned to it, for every hash, every set of keys and
\* every size: newkey, rehash and the collector lose and invent nothing.
THEOREM HoldsFieldsAlways == Spec => []HoldsFields
<1>1. TableInv => HoldsFields BY DEF TableInv
<1> QED BY <1>1, TableInvariant, PTL

\* A rehash makes room for the keys it has counted and the new one: luaH_set never needs
\* a second one, and resize needs none (ltable.c:333).
THEOREM RehashAlwaysMakesRoom == Spec => []RehashMakesRoom
<1>1. TableInv => RehashMakesRoom BY DEF TableInv, RehashMakesRoom
<1> QED BY <1>1, TableInvariant, PTL

\* A traversal never ends with "invalid key to 'next'" (ltable.c:156), also when fields
\* are cleared on the way and their keys die.
THEOREM NextAlwaysFindsKey == Spec => []NextFindsKey
<1>1. TableInv => NextFindsKey BY TableAssumption DEF TableInv, CurOK, NextFindsKey
<1> QED BY <1>1, TableInvariant, PTL

\* A key with a value is in one place only: none of the array is in a node as well, and
\* none is in two.
THEOREM AlwaysOncePerKey == Spec => []OncePerKey
<1>1. TableInv => OncePerKey
  <2> SUFFICES ASSUME TableInv, NEW n \in DOMAIN t.node, t.node[n].v # Nil
               PROVE  luaH_get(t, t.node[n].k) = InNode(n)
    BY DEF OncePerKey
  <2>1. hash \in Hashes /\ TableOK(t) /\ IsTable(t) BY DEF TableInv, TableOK
  <2>2. n \in Nodes(t) BY <2>1, NodesType
  <2>3. t.node[n].k # Nil /\ ~t.node[n].dead
    BY <2>1, <2>2 DEF TableOK, NodesOK, FreeNode
  <2>4. t.node[n].k \in Keys BY <2>1, <2>2, <2>3, NodesType DEF NodeType
  <2>5. HasKey(t.node[n], t.node[n].k) BY <2>3 DEF HasKey
  <2> QED BY <2>1, <2>2, <2>4, <2>5, GetFinds
<1> QED BY <1>1, TableInvariant, PTL

-----------------------------------------------------------------------------
(* The table is a dictionary.                                              *)

\* What a traversal at key c has still to give.
LeftOf(tb, c) ==
  IF c \in {Off, Invalid} THEN {}
  ELSE LET i == findindex(tb, c) IN IF i = NULL THEN {} ELSE {KeyAt(tb, j) : j \in After(tb, i)}

Known(tb, c) == c = Nil \/ (c \in Keys /\ (c \in 1..tb.sizearray \/ c \in NodeKeys(tb)))

\* What a traversal has left is the keys from its index on.
LEMMA LeftIs ==
  ASSUME hash \in Hashes, NEW tb, TableOK(tb), NEW c, Known(tb, c)
  PROVE  LeftOf(tb, c) = {KeyAt(tb, j) : j \in After(tb, findindex(tb, c))}
<1>1. findindex(tb, c) \in Nat BY NextIs DEF Known
<1>2. findindex(tb, c) # NULL BY <1>1 DEF NULL
<1>3. c \notin {Off, Invalid} BY TableAssumption DEF Known
<1> QED BY <1>2, <1>3 DEF LeftOf

\* Where the nodes have the same keys and links, keys have the same indices.
LEMMA SameIndices ==
  ASSUME hash \in Hashes, NEW tb, TableOK(tb), NEW new, TableOK(new),
         new.sizearray = tb.sizearray, new.lsizenode = tb.lsizenode,
         \A n \in Nodes(tb) : new.node[n].k = tb.node[n].k /\ new.node[n].next = tb.node[n].next,
         NEW c, Known(tb, c)
  PROVE  /\ findindex(new, c) = findindex(tb, c) /\ Known(new, c)
         /\ Indices(new) = Indices(tb)
         /\ \A i \in Indices(tb) : KeyAt(new, i) = KeyAt(tb, i)
<1>1. Nodes(new) = Nodes(tb) /\ sizenode(new) = sizenode(tb) BY DEF Nodes, sizenode
<1>2. /\ IsTable(tb) /\ IsTable(new) /\ ChainsOK(tb) /\ ChainsOK(new)
      /\ DOMAIN tb.node = Nodes(tb) /\ DOMAIN new.node = Nodes(tb) /\ NULL \notin Nodes(tb)
      /\ IsList(links(tb)) /\ DOMAIN links(tb) = Nodes(tb) /\ Acyclic(links(tb))
      /\ tb.sizearray \in Nat /\ sizenode(tb) \in Nat
  BY <1>1, NodesType, LinksAreList DEF TableOK, ChainsOK, IsTable
<1>3. links(new) = links(tb) BY <1>1 DEF links
<1>4. \A k : mainposition(new, k) = mainposition(tb, k) BY <1>1 DEF mainposition
<1>5. ASSUME NEW n \in Nodes(tb), NEW fit \in SUBSET Nodes(tb)
      PROVE  FirstIn(new, n, fit) = FirstIn(tb, n, fit)
  <2> DEFINE a == FirstIn(tb, n, fit)
             b == FirstIn(new, n, fit)
             C(x) == Chain(links(tb), x)
  <2>1. IF a = NULL THEN C(n) \cap fit = {}
        ELSE a \in C(n) \cap fit /\ \A o \in C(n) \cap fit : o \in C(a)
    BY <1>2, FirstInFinds
  <2>2. IF b = NULL THEN C(n) \cap fit = {}
        ELSE b \in C(n) \cap fit /\ \A o \in C(n) \cap fit : o \in C(b)
    BY <1>1, <1>2, <1>3, FirstInFinds
  <2> HIDE DEF a, b
  <2>3. CASE a # NULL /\ b # NULL
    <3>1. a \in Nodes(tb) /\ a \in C(b) /\ b \in C(a) BY <2>1, <2>2, <2>3
    <3> QED BY <3>1, <1>2, ChainOneWay DEF a, b
  <2> QED BY <2>1, <2>2, <2>3 DEF a, b
<1>6. findindex(new, c) = findindex(tb, c)
  <2>1. CASE c = Nil BY <2>1 DEF findindex
  <2>2. CASE c # Nil
    <3> DEFINE fit == {n \in Nodes(tb) : Findable(tb.node[n], c)}
               m == mainposition(tb, c)
    <3>1. m \in Nodes(tb) BY <2>2, <1>2, PositionType DEF Known
    <3>2. fit = {n \in DOMAIN new.node : Findable(new.node[n], c)} BY <1>2 DEF Findable
    <3>3. fit = {n \in DOMAIN tb.node : Findable(tb.node[n], c)} BY <1>2
    <3> HIDE DEF fit, m
    <3>4. fit \in SUBSET Nodes(tb) BY DEF fit
    <3>5. FirstIn(new, m, fit) = FirstIn(tb, m, fit) BY <3>1, <3>4, <1>5
    <3>6. mainposition(new, c) = m /\ mainposition(tb, c) = m BY <1>4 DEF m
    <3>7. findindex(new, c) = IF c \in 1..tb.sizearray THEN c
                              ELSE IF FirstIn(new, m, fit) = NULL THEN NULL
                              ELSE tb.sizearray + FirstIn(new, m, fit) + 1
      BY <2>2, <3>2, <3>6 DEF findindex
    <3>8. findindex(tb, c) = IF c \in 1..tb.sizearray THEN c
                             ELSE IF FirstIn(tb, m, fit) = NULL THEN NULL
                             ELSE tb.sizearray + FirstIn(tb, m, fit) + 1
      BY <2>2, <3>3, <3>6 DEF findindex
    <3> QED BY <3>5, <3>7, <3>8
  <2> QED BY <2>1, <2>2
<1>7. Known(new, c) BY <1>1 DEF Known, NodeKeys
<1>8. Indices(new) = Indices(tb) BY <1>1 DEF Indices
<1>9. ASSUME NEW i \in Indices(tb) PROVE KeyAt(new, i) = KeyAt(tb, i)
  <2>1. i > tb.sizearray => i - tb.sizearray - 1 \in Nodes(tb) BY <1>2 DEF Indices, Nodes
  <2> QED BY <2>1, <1>2 DEF KeyAt, Indices
<1> QED BY <1>6, <1>7, <1>8, <1>9

\* A field is present at an index where its key is not dead.
Live(tb, i) == i <= tb.sizearray \/ ~tb.node[i - tb.sizearray - 1].dead

\* A field is present at an index when the key there is alive and has a value.
LEMMA PresentValue ==
  ASSUME hash \in Hashes, NEW tb, TableOK(tb), NEW i \in Indices(tb)
  PROVE  Present(tb, i) <=>
           Live(tb, i) /\ KeyAt(tb, i) \in Keys /\ Value(tb, KeyAt(tb, i)) # Nil
<1>1. IsTable(tb) /\ tb.sizearray \in Nat /\ sizenode(tb) \in Nat
  BY NodesType DEF TableOK, IsTable
<1>2. CASE i <= tb.sizearray
  <2>1. i \in 1..tb.sizearray /\ KeyAt(tb, i) = i /\ Live(tb, i) BY <1>1, <1>2 DEF Indices, KeyAt, Live
  <2>2. Present(tb, i) <=> tb.array[i] # Nil BY <1>2 DEF Present
  <2>3. tb.array[i] # Nil => i \in Keys BY <2>1 DEF TableOK, ArrayOK
  <2> QED BY <2>1, <2>2, <2>3, ValueIs
<1>3. CASE i > tb.sizearray
  <2> DEFINE n == i - tb.sizearray - 1
  <2>1. n \in Nodes(tb) BY <1>1, <1>3 DEF Indices, Nodes
  <2>2. /\ KeyAt(tb, i) = tb.node[n].k /\ (Present(tb, i) <=> tb.node[n].v # Nil)
        /\ Live(tb, i) <=> ~tb.node[n].dead
    BY <1>1, <1>3 DEF Indices, KeyAt, Present, Live
  <2> HIDE DEF n
  <2>3. ASSUME tb.node[n].v # Nil PROVE tb.node[n].k \in Keys /\ ~tb.node[n].dead
    <3>1. tb.node[n].k # Nil /\ ~tb.node[n].dead
      BY <2>1, <2>3 DEF TableOK, NodesOK, FreeNode
    <3> QED BY <3>1, <2>1, <1>1, NodesType DEF NodeType
  <2>4. ASSUME tb.node[n].k \in Keys, ~tb.node[n].dead
        PROVE  Value(tb, tb.node[n].k) = tb.node[n].v
    <3>1. HasKey(tb.node[n], tb.node[n].k) BY <2>4 DEF HasKey
    <3> QED BY <3>1, <2>1, <2>4, ValueIs
  <2> QED BY <2>2, <2>3, <2>4
<1> QED BY <1>1, <1>2, <1>3 DEF Indices

\* An assignment to a field that exists leaves the others of a traversal to be given.
LEMMA LeftAfterSet ==
  ASSUME hash \in Hashes, NEW tb, TableOK(tb), NEW c, Known(tb, c),
         NEW key \in Keys, Value(tb, key) # Nil, NEW v \in Values \cup {Nil},
         NEW new, TableOK(new), SameNodes(tb, new),
         \A k \in Keys : Value(new, k) = IF k = key THEN v ELSE Value(tb, k)
  PROVE  LeftOf(new, c) = IF v = Nil THEN LeftOf(tb, c) \ {key} ELSE LeftOf(tb, c)
<1> DEFINE i == findindex(tb, c)
<1>1. /\ findindex(new, c) = i /\ Known(new, c) /\ Indices(new) = Indices(tb)
      /\ \A j \in Indices(tb) : KeyAt(new, j) = KeyAt(tb, j)
  BY SameIndices DEF SameNodes, SameSizes
<1>2. /\ tb.sizearray \in Nat /\ sizenode(tb) \in Nat /\ i \in Nat /\ IsTable(tb)
      /\ new.sizearray = tb.sizearray /\ sizenode(new) = sizenode(tb)
  BY NodesType, NextIs DEF TableOK, IsTable, SameNodes, SameSizes, sizenode, Known
<1>3. \A j \in Indices(tb) : Live(new, j) <=> Live(tb, j)
  <2> TAKE j \in Indices(tb)
  <2>1. j > tb.sizearray => j - tb.sizearray - 1 \in Nodes(tb) BY <1>2 DEF Indices, Nodes
  <2> QED BY <2>1, <1>2 DEF Live, Indices, SameNodes
<1>4. \A j \in Indices(tb) : Present(new, j) <=>
        Present(tb, j) /\ (KeyAt(tb, j) = key => v # Nil)
  BY <1>1, <1>3, PresentValue
<1> HIDE DEF i
<1>5. After(new, i) = {j \in After(tb, i) : KeyAt(tb, j) = key => v # Nil}
  BY <1>2, <1>4 DEF After, Indices
<1>6. After(tb, i) \subseteq Indices(tb) /\ After(new, i) \subseteq Indices(tb)
  BY <1>2 DEF After, Indices
<1>7. /\ LeftOf(tb, c) = {KeyAt(tb, j) : j \in After(tb, i)}
      /\ LeftOf(new, c) = {KeyAt(new, j) : j \in After(new, i)}
  BY <1>1, LeftIs DEF i
<1>8. LeftOf(new, c) = {KeyAt(tb, j) : j \in After(new, i)}
  BY <1>1, <1>6, <1>7
<1>9. CASE v # Nil
  <2>1. After(new, i) = After(tb, i) BY <1>5, <1>9
  <2> QED BY <2>1, <1>7, <1>8, <1>9
<1>10. CASE v = Nil
  <2>1. \A j : j \in After(new, i) <=> j \in After(tb, i) /\ KeyAt(tb, j) # key
    BY <1>5, <1>10
  <2> QED BY <2>1, <1>7, <1>8, <1>10
<1> QED BY <1>9, <1>10

\* The collector takes nothing from a traversal.
LEMMA LeftAfterRemoval ==
  ASSUME hash \in Hashes, NEW tb, TableOK(tb), NEW c, Known(tb, c), NEW new, TableOK(new),
         new.sizearray = tb.sizearray, new.lsizenode = tb.lsizenode, new.array = tb.array,
         \A n \in Nodes(tb) : /\ new.node[n].k = tb.node[n].k /\ new.node[n].v = tb.node[n].v
                              /\ new.node[n].next = tb.node[n].next
  PROVE  LeftOf(new, c) = LeftOf(tb, c)
<1> DEFINE i == findindex(tb, c)
<1>1. /\ findindex(new, c) = i /\ Known(new, c) /\ Indices(new) = Indices(tb)
      /\ \A j \in Indices(tb) : KeyAt(new, j) = KeyAt(tb, j)
  BY SameIndices
<1>2. /\ tb.sizearray \in Nat /\ sizenode(tb) \in Nat /\ i \in Nat /\ IsTable(tb)
      /\ sizenode(new) = sizenode(tb)
  BY NodesType, NextIs DEF TableOK, IsTable, sizenode, Known
<1>3. \A j \in Indices(tb) : Present(new, j) <=> Present(tb, j)
  <2> TAKE j \in Indices(tb)
  <2>1. j > tb.sizearray => j - tb.sizearray - 1 \in Nodes(tb) BY <1>2 DEF Indices, Nodes
  <2> QED BY <2>1, <1>2 DEF Present, Indices
<1> HIDE DEF i
<1>4. After(new, i) = After(tb, i) /\ After(tb, i) \subseteq Indices(tb)
  BY <1>2, <1>3 DEF After, Indices
<1>5. /\ LeftOf(tb, c) = {KeyAt(tb, j) : j \in After(tb, i)}
      /\ LeftOf(new, c) = {KeyAt(new, j) : j \in After(new, i)}
  BY <1>1, LeftIs DEF i
<1> QED BY <1>1, <1>4, <1>5

\* A traversal begins with all fields.
LEMMA LeftAtFirst ==
  ASSUME hash \in Hashes, NEW tb, TableOK(tb)
  PROVE  LeftOf(tb, Nil) = {k \in Keys : Value(tb, k) # Nil}
<1>1. IsTable(tb) /\ tb.sizearray \in Nat /\ sizenode(tb) \in Nat /\ Nodes(tb) \subseteq Nat
  BY NodesType DEF TableOK, IsTable
<1>2. findindex(tb, Nil) = 0
  <2>1. Nil \notin 1..tb.sizearray BY <1>1, TableAssumption
  <2> QED BY <2>1 DEF findindex
<1>3. After(tb, 0) = {j \in Indices(tb) : Present(tb, j)} BY DEF After, Indices
<1>4. LeftOf(tb, Nil) = {KeyAt(tb, j) : j \in After(tb, 0)} BY <1>2, LeftIs DEF Known
<1>5. \A j \in After(tb, 0) : KeyAt(tb, j) \in Keys /\ Value(tb, KeyAt(tb, j)) # Nil
  BY <1>3, PresentIs
<1>6. ASSUME NEW k \in Keys, Value(tb, k) # Nil
      PROVE  \E j \in After(tb, 0) : KeyAt(tb, j) = k
  <2>1. CASE k \in 1..tb.sizearray
    <3>1. k \in Indices(tb) /\ k <= tb.sizearray BY <2>1, <1>1 DEF Indices
    <3>2. tb.array[k] # Nil BY <2>1, <1>6, ValueIs
    <3> QED BY <3>1, <3>2, <1>3 DEF Present, KeyAt
  <2>2. CASE k \notin 1..tb.sizearray
    <3>1. PICK n \in Nodes(tb) : HasKey(tb.node[n], k) BY <2>2, <1>6, ValueIs
    <3>2. tb.node[n].v # Nil /\ tb.node[n].k = k BY <3>1, <1>6, ValueIs DEF HasKey
    <3> DEFINE j == tb.sizearray + n + 1
    <3>3. j \in Indices(tb) /\ ~(j <= tb.sizearray) /\ j - tb.sizearray - 1 = n
      BY <1>1 DEF Indices, Nodes
    <3> HIDE DEF j
    <3> QED BY <3>2, <3>3, <1>3 DEF Present, KeyAt
  <2> QED BY <2>1, <2>2
<1> QED BY <1>4, <1>5, <1>6

\* next gives one of the fields that are left, and leaves the others; or there are none.
LEMMA LeftAfterNext ==
  ASSUME hash \in Hashes, NEW tb, TableOK(tb), NEW c, Known(tb, c)
  PROVE  LET k == luaH_next(tb, c)
         IN  \/ k = Off /\ LeftOf(tb, c) = {}
             \/ k \in Keys /\ k \in LeftOf(tb, c) /\ LeftOf(tb, k) = LeftOf(tb, c) \ {k}
<1> DEFINE i == findindex(tb, c)
           k == luaH_next(tb, c)
<1>1. /\ i \in Nat /\ After(tb, i) \subseteq Indices(tb)
      /\ After(tb, i) = {} => k = Off
      /\ After(tb, i) # {} =>
           \E j \in After(tb, i) : k = KeyAt(tb, j) /\ \A l \in After(tb, i) : j <= l
  BY NextIs DEF Known
<1>2. LeftOf(tb, c) = {KeyAt(tb, j) : j \in After(tb, i)} BY LeftIs
<1> HIDE DEF i, k
<1>3. CASE After(tb, i) = {} BY <1>1, <1>2, <1>3 DEF k
<1>4. CASE After(tb, i) # {}
  <2>1. PICK j \in After(tb, i) : k = KeyAt(tb, j) /\ \A l \in After(tb, i) : j <= l
    BY <1>1, <1>4
  <2>2. \A l \in After(tb, i) : Present(tb, l) /\ findindex(tb, KeyAt(tb, l)) = l
    BY <1>1, PresentIs DEF After
  <2>3. /\ k \in Keys /\ findindex(tb, k) = j
        /\ k \in 1..tb.sizearray \/ k \in NodeKeys(tb)
    BY <2>1, <2>2, <1>1, PresentIs
  <2>4. After(tb, j) = After(tb, i) \ {j}
    <3>0. tb.sizearray \in Nat /\ sizenode(tb) \in Nat BY NodesType DEF TableOK, IsTable
    <3>1. ASSUME NEW l \in After(tb, j) PROVE l \in After(tb, i) \ {j}
      BY <2>1, <1>1, <3>0 DEF After
    <3>2. ASSUME NEW l \in After(tb, i), l # j PROVE l \in After(tb, j)
      BY <2>1, <1>1, <3>0, <3>2 DEF After
    <3> QED BY <3>1, <3>2
  <2>5. LeftOf(tb, k) = {KeyAt(tb, l) : l \in After(tb, j)} BY <2>3, LeftIs DEF Known
  <2>6. \A l \in After(tb, i) : KeyAt(tb, l) = k => l = j BY <2>1, <2>2, <2>3
  <2>7. LeftOf(tb, k) = LeftOf(tb, c) \ {k} BY <2>1, <2>4, <2>5, <2>6, <1>2
  <2>8. k \in LeftOf(tb, c) BY <2>1, <1>2
  <2> QED BY <2>3, <2>7, <2>8 DEF k
<1> QED BY <1>3, <1>4

-----------------------------------------------------------------------------

\* What a traversal has left depends on the table and its key.
LEMMA SameLeft ==
  ASSUME hash' = hash, NEW new, t' = new
  PROVE  Left' = LeftOf(new, cur')
<1>1. \A k : mainposition(t, k)' = mainposition(new, k) BY DEF mainposition
<1>2. findindex(t, cur)' = findindex(new, cur') BY <1>1 DEF findindex
<1> QED BY <1>2 DEF Left, LeftOf

\* Every step of the table is one of the dictionary, or invisible.
LEMMA StepDictionary ==
  ASSUME TableInv, Next
  PROVE  Abstract!Next \/ UNCHANGED Abstract!vars
<1>1. /\ hash \in Hashes /\ TableOK(t) /\ HoldsFields /\ CurOK
      /\ fields \in [Keys -> Values \cup {Nil}] /\ Left = LeftOf(t, cur)
      /\ Nil \notin Keys /\ Off \notin Keys /\ Off # Nil
  BY TableAssumption DEF TableInv, Left, LeftOf
<1>2. cur # Off => Known(t, cur) BY <1>1 DEF CurOK, Known, NodeKeys
<1>3. \A tb : LeftOf(tb, Off) = {} BY DEF LeftOf
<1>4. CASE Assign
  <2> PICK key \in Keys, v \in Values \cup {Nil} :
        /\ t' = luaH_set(t, key, v) /\ cur' = (IF fields[key] = Nil THEN Off ELSE cur)
        /\ fields' = [fields EXCEPT ![key] = v] /\ hash' = hash
    BY <1>4 DEF Assign
  <2> DEFINE new == luaH_set(t, key, v)
  <2>1. /\ TableOK(new)
        /\ \A k \in Keys : Value(new, k) = IF k = key THEN v ELSE Value(t, k)
        /\ ~Absent(t, key) => SameNodes(t, new)
    BY <1>1, SetGood
  <2>2. Value(t, key) = fields[key] BY <1>1 DEF HoldsFields
  <2>3. fields[key] # Nil => ~Absent(t, key)
    BY <2>2, <1>1, ValueIs DEF Absent
  <2> HIDE DEF new
  <2>4. Left' = LeftOf(new, cur') BY SameLeft DEF new
  <2>5. Left' = IF fields[key] = Nil THEN {} ELSE IF v = Nil THEN Left \ {key} ELSE Left
    <3>1. CASE fields[key] = Nil \/ cur = Off BY <3>1, <2>4, <1>1, <1>3
    <3>2. CASE fields[key] # Nil /\ cur # Off
      <4>1. LeftOf(new, cur) = IF v = Nil THEN LeftOf(t, cur) \ {key} ELSE LeftOf(t, cur)
        BY <3>2, <2>1, <2>2, <2>3, <1>1, <1>2, LeftAfterSet
      <4> QED BY <4>1, <3>2, <2>4, <1>1
    <3> QED BY <3>1, <3>2
  <2>6. (cur' # Off) = (cur # Off /\ fields[key] # Nil) OBVIOUS
  <2>7. Abstract!Assign(key, v) BY <2>5, <2>6 DEF Abstract!Assign
  <2> QED BY <2>7 DEF Abstract!Next
<1>5. CASE luaH_resizearray
  <2>1. cur = Off /\ cur' = cur /\ fields' = fields /\ hash' = hash
    BY <1>5 DEF luaH_resizearray
  <2>2. Left' = Left
    <3> DEFINE new == t'
    <3>1. Left = {} /\ Left' = {} BY <2>1 DEF Left
    <3> QED BY <3>1
  <2> QED BY <2>1, <2>2 DEF Abstract!vars
<1>6. CASE removeentry
  <2>1. cur' = cur /\ fields' = fields /\ hash' = hash BY <1>6 DEF removeentry
  <2>2. Left' = Left
    <3>1. CASE cur = Off BY <3>1, <2>1 DEF Left
    <3>2. CASE cur # Off
      <4> DEFINE new == [t EXCEPT !.node = [n \in DOMAIN @ |->
                          IF @[n].v = Nil /\ @[n].k \in Strings \cup Objects
                          THEN [@[n] EXCEPT !.dead = TRUE] ELSE @[n]]]
      <4>1. t' = new BY <1>6 DEF removeentry
      <4>2. TableOK(new)
        <5>1. TableInv' BY <1>6, RemoveInv
        <5>2. TableOK(t)' BY <5>1 DEF TableInv
        <5> HIDE DEF new
        <5> QED BY <5>2, <4>1, <2>1, SameHash
      <4>3. /\ new.sizearray = t.sizearray /\ new.lsizenode = t.lsizenode /\ new.array = t.array
            /\ \A n \in Nodes(t) : /\ new.node[n].k = t.node[n].k /\ new.node[n].v = t.node[n].v
                                   /\ new.node[n].next = t.node[n].next
        <5>1. /\ IsTable(t) /\ t \in TablesOf(t.sizearray, t.lsizenode) /\ DOMAIN t.node = Nodes(t)
              /\ t.node \in [Nodes(t) -> NodeType(sizenode(t))]
          BY <1>1 DEF TableOK, IsTable, TablesOf, Nodes, sizenode
        <5> QED BY <5>1 DEF TablesOf, NodeType
      <4> HIDE DEF new
      <4>4. LeftOf(new, cur) = LeftOf(t, cur) BY <4>2, <4>3, <3>2, <1>1, <1>2, LeftAfterRemoval
      <4>5. Left' = LeftOf(new, cur') BY <4>1, <2>1, SameLeft
      <4> QED BY <4>4, <4>5, <2>1, <1>1
    <3> QED BY <3>1, <3>2
  <2> QED BY <2>1, <2>2 DEF Abstract!vars
<1>7. CASE Begin
  <2>1. cur = Off /\ cur' = Nil /\ fields' = fields /\ hash' = hash /\ t' = t
    BY <1>7 DEF Begin
  <2>2. Left' = LeftOf(t, Nil) BY <2>1, SameLeft
  <2>3. Left' = {k \in Keys : fields[k] # Nil}
    BY <2>2, <1>1, LeftAtFirst DEF HoldsFields
  <2>4. Abstract!Begin BY <2>1, <2>3, <1>1 DEF Abstract!Begin
  <2> QED BY <2>4 DEF Abstract!Next
<1>8. CASE lua_next
  <2>1. cur # Off /\ cur' = luaH_next(t, cur) /\ fields' = fields /\ hash' = hash /\ t' = t
    BY <1>8 DEF lua_next
  <2>2. Left' = LeftOf(t, cur') BY <2>1, SameLeft
  <2>3. \/ cur' = Off /\ Left = {}
        \/ cur' \in Keys /\ cur' \in Left /\ LeftOf(t, cur') = Left \ {cur'}
    BY <2>1, <1>1, <1>2, LeftAfterNext
  <2>4. CASE cur' = Off /\ Left = {}
    <3>1. Abstract!End BY <2>1, <2>2, <2>4, <1>3 DEF Abstract!End
    <3> QED BY <3>1 DEF Abstract!Next
  <2>5. CASE cur' \in Keys /\ cur' \in Left /\ LeftOf(t, cur') = Left \ {cur'}
    <3>1. Abstract!Give(cur') BY <2>1, <2>2, <2>5, <1>1 DEF Abstract!Give
    <3> QED BY <3>1, <2>5 DEF Abstract!Next
  <2> QED BY <2>3, <2>4, <2>5
<1> QED BY <1>4, <1>5, <1>6, <1>7, <1>8 DEF Next

\* A table implements a dictionary: whatever the hash and the sizes, next gives every
\* field that is present through a traversal once, and nothing else (ltable.c).
THEOREM Dictionaries == Spec => IsDictionary
<1>1. Init => Abstract!Init
  BY DEF Init, Abstract!Init, Left
<1>2. TableInv /\ [Next]_vars => [Abstract!Next]_(Abstract!vars)
  <2> SUFFICES ASSUME TableInv, [Next]_vars
               PROVE  Abstract!Next \/ UNCHANGED Abstract!vars
    OBVIOUS
  <2>1. CASE Next BY <2>1, StepDictionary
  <2>2. CASE UNCHANGED vars
    <3>1. hash' = hash /\ t' = t /\ cur' = cur /\ fields' = fields BY <2>2 DEF vars
    <3>2. Left' = LeftOf(t, cur') BY <3>1, SameLeft
    <3>3. Left' = Left BY <3>1, <3>2 DEF Left, LeftOf
    <3> QED BY <3>1, <3>3 DEF Abstract!vars
  <2> QED BY <2>1, <2>2
<1> QED BY <1>1, <1>2, TableInvariant, PTL DEF Spec, IsDictionary, Abstract!Spec

-----------------------------------------------------------------------------
(* Length.                                                                 *)

\* The value of a number that is not a key is nil.
LEMMA PresentIsKey ==
  ASSUME NEW tb, TableOK(tb), NEW i \in Nat
  PROVE  /\ i \in 1..tb.sizearray => Value(tb, i) = tb.array[i]
         /\ Value(tb, i) # Nil => i \in Keys
<1>1. CASE i \in 1..tb.sizearray
  <2>1. Value(tb, i) = tb.array[i] BY <1>1 DEF Value, luaH_get, ValueAt, Cell
  <2> QED BY <2>1, <1>1 DEF TableOK, ArrayOK
<1>2. CASE i \notin 1..tb.sizearray
  <2> SUFFICES ASSUME i \notin Keys PROVE Value(tb, i) = Nil BY <1>2
  <2>1. luaH_get(tb, i) = NoPlace BY <1>2 DEF luaH_get
  <2> QED BY <2>1 DEF Value, ValueAt, NoPlace
<1> QED BY <1>1, <1>2

Bounds == [i : Nat, j : Nat]

\* The rounds of the binary search.
LEMMA HalvedRounds ==
  ASSUME NEW tb, NEW i \in Nat, NEW j \in Nat
  PROVE  \E r : /\ r \in [Nat -> Bounds] /\ r[0] = [i |-> i, j |-> j]
                /\ \A n \in Nat : r[n + 1] = Halved(tb, r[n])
                /\ Between(tb, i, j) = r[j - i].i
<1> DEFINE x == [i |-> i, j |-> j]
           g == [p \in Nat \X Bounds |-> Halved(tb, p[2])]
           IsRound(r) == r = [n \in Nat |-> IF n = 0 THEN x ELSE Halved(tb, r[n - 1])]
<1>1. x \in Bounds BY DEF Bounds
<1>2. ASSUME NEW p \in Bounds PROVE Halved(tb, p) \in Bounds
  <2>1. p.i \in Nat /\ p.j \in Nat /\ p = [i |-> p.i, j |-> p.j] BY DEF Bounds
  <2>2. (p.i + p.j) \div 2 \in Nat BY <2>1
  <2> QED BY <2>1, <2>2 DEF Halved, Bounds
<1>3. g \in [Nat \X Bounds -> Bounds] /\ \A n \in Nat, p \in Bounds : g[<<n, p>>] = Halved(tb, p)
  BY <1>2
<1> HIDE DEF g, x
<1>4. PICK f : Iterates(f, Bounds, x, g) BY <1>1, <1>3, Iteration
<1>5. IsRound(f)
  <2>1. \A n \in Nat : f[n + 1] = Halved(tb, f[n]) BY <1>3, <1>4 DEF Iterates
  <2>2. \A n \in Nat : n # 0 => f[n] = Halved(tb, f[n - 1])
    <3> TAKE n \in Nat
    <3> HAVE n # 0
    <3>1. n - 1 \in Nat /\ (n - 1) + 1 = n OBVIOUS
    <3> QED BY <3>1, <2>1
  <2> QED BY <1>4, <2>2 DEF Iterates
<1>6. PICK r : IsRound(r) /\ Between(tb, i, j) = r[j - i].i
  BY <1>5 DEF Between, x
<1>7. r[0] = x /\ \A n \in Nat : r[n + 1] = Halved(tb, r[n]) BY <1>6
<1>8. r \in [Nat -> Bounds]
  <2> DEFINE T == {n \in Nat : r[n] \in Bounds}
  <2>1. 0 \in T BY <1>1, <1>7
  <2>2. \A n \in Nat : n \in T => n + 1 \in T BY <1>2, <1>7
  <2>3. Nat \subseteq T
    <3> HIDE DEF T
    <3> QED BY <2>1, <2>2, SetInduction
  <2> QED BY <1>6, <2>3
<1> QED BY <1>6, <1>7, <1>8 DEF x

\* The binary search (luaH_getn, unbound_search) ends, at a border: a round halves what
\* is between a present and an absent number.
LEMMA BetweenIsBorder ==
  ASSUME NEW tb, NEW i \in Nat, NEW j \in Nat, i < j,
         i = 0 \/ Value(tb, i) # Nil, Value(tb, j) = Nil
  PROVE  LET n == Between(tb, i, j)
         IN  n \in Nat /\ (n = 0 \/ Value(tb, n) # Nil) /\ Value(tb, n + 1) = Nil
<1>1. PICK r : /\ r \in [Nat -> Bounds] /\ r[0] = [i |-> i, j |-> j]
               /\ \A n \in Nat : r[n + 1] = Halved(tb, r[n])
               /\ Between(tb, i, j) = r[j - i].i
  BY HalvedRounds
<1> DEFINE Good(n) == /\ r[n].i < r[n].j /\ (r[n].i = 0 \/ Value(tb, r[n].i) # Nil)
                      /\ Value(tb, r[n].j) = Nil
                      /\ r[n].j - r[n].i = 1 \/ r[n].j - r[n].i + n <= j - i
           T == {n \in Nat : Good(n)}
<1>2. 0 \in T BY <1>1
<1>3. ASSUME NEW n \in Nat, Good(n) PROVE Good(n + 1)
  <2> DEFINE a == r[n].i
             b == r[n].j
             m == (a + b) \div 2
  <2>1. a \in Nat /\ b \in Nat /\ r[n] = [i |-> a, j |-> b] BY <1>1 DEF Bounds
  <2>2. r[n + 1] = Halved(tb, r[n]) BY <1>1
  <2>3. CASE b - a <= 1
    <3>1. r[n + 1] = r[n] BY <2>2, <2>3 DEF Halved
    <3> QED BY <3>1, <1>3, <2>1, <2>3
  <2>4. CASE b - a > 1
    <3>1. m \in Nat /\ a < m /\ m < b BY <2>1, <2>4
    <3>2. r[n + 1] = IF Value(tb, m) = Nil THEN [i |-> a, j |-> m] ELSE [i |-> m, j |-> b]
      BY <2>1, <2>2, <2>4 DEF Halved
    <3>3. b - a + n <= j - i BY <1>3, <2>4
    <3> HIDE DEF m, a, b
    <3>4. CASE Value(tb, m) = Nil
      <4>1. r[n + 1].i = a /\ r[n + 1].j = m BY <3>2, <3>4
      <4>2. m - a + (n + 1) <= j - i BY <3>1, <3>3, <2>1
      <4> QED BY <4>1, <4>2, <3>1, <3>4, <1>3 DEF a
    <3>5. CASE Value(tb, m) # Nil
      <4>1. r[n + 1].i = m /\ r[n + 1].j = b BY <3>2, <3>5
      <4>2. b - m + (n + 1) <= j - i BY <3>1, <3>3, <2>1
      <4> QED BY <4>1, <4>2, <3>1, <3>5, <1>3 DEF b
    <3> QED BY <3>4, <3>5
  <2> QED BY <2>1, <2>3, <2>4
<1>4. Nat \subseteq T
  <2>1. \A n \in Nat : n \in T => n + 1 \in T BY <1>3
  <2> HIDE DEF T
  <2> QED BY <1>2, <2>1, SetInduction
<1>5. j - i \in Nat /\ r[j - i].i \in Nat /\ r[j - i].j \in Nat BY <1>1 DEF Bounds
<1>6. Good(j - i) BY <1>4, <1>5
<1>7. r[j - i].j = r[j - i].i + 1 BY <1>5, <1>6
<1> QED BY <1>1, <1>5, <1>6, <1>7

\* The rounds of unbound_search.
LEMMA DoubledRounds ==
  ASSUME NEW tb, NEW j \in Nat
  PROVE  \E r : /\ r \in [Nat -> Bounds] /\ r[0] = [i |-> j, j |-> j + 1]
                /\ \A n \in Nat : r[n + 1] = Doubled(tb, r[n])
                /\ unbound_search(tb, j) = Between(tb, r[sizenode(tb)].i, r[sizenode(tb)].j)
<1> DEFINE x == [i |-> j, j |-> j + 1]
           g == [p \in Nat \X Bounds |-> Doubled(tb, p[2])]
           IsRound(r) == r = [n \in Nat |-> IF n = 0 THEN x ELSE Doubled(tb, r[n - 1])]
<1>1. x \in Bounds BY DEF Bounds
<1>2. ASSUME NEW p \in Bounds PROVE Doubled(tb, p) \in Bounds
  BY DEF Doubled, Bounds
<1>3. g \in [Nat \X Bounds -> Bounds] /\ \A n \in Nat, p \in Bounds : g[<<n, p>>] = Doubled(tb, p)
  BY <1>2
<1> HIDE DEF g, x
<1>4. PICK f : Iterates(f, Bounds, x, g) BY <1>1, <1>3, Iteration
<1>5. IsRound(f)
  <2>1. \A n \in Nat : f[n + 1] = Doubled(tb, f[n]) BY <1>3, <1>4 DEF Iterates
  <2>2. \A n \in Nat : n # 0 => f[n] = Doubled(tb, f[n - 1])
    <3> TAKE n \in Nat
    <3> HAVE n # 0
    <3>1. n - 1 \in Nat /\ (n - 1) + 1 = n OBVIOUS
    <3> QED BY <3>1, <2>1
  <2> QED BY <1>4, <2>2 DEF Iterates
<1>6. PICK r : IsRound(r) /\ unbound_search(tb, j) = Between(tb, r[sizenode(tb)].i, r[sizenode(tb)].j)
  BY <1>5 DEF unbound_search, x
<1>7. r[0] = x /\ \A n \in Nat : r[n + 1] = Doubled(tb, r[n]) BY <1>6
<1>8. r \in [Nat -> Bounds]
  <2> DEFINE T == {n \in Nat : r[n] \in Bounds}
  <2>1. 0 \in T BY <1>1, <1>7
  <2>2. \A n \in Nat : n \in T => n + 1 \in T BY <1>2, <1>7
  <2>3. Nat \subseteq T
    <3> HIDE DEF T
    <3> QED BY <2>1, <2>2, SetInduction
  <2> QED BY <1>6, <2>3
<1> QED BY <1>6, <1>7, <1>8 DEF x

\* unbound_search (ltable.c:532) ends at a border. Every number it tries and finds
\* present is in a node of its own, so it tries no more than there are nodes, and one.
LEMMA SearchIsBorder ==
  ASSUME hash \in Hashes, NEW tb, TableOK(tb),
         tb.sizearray = 0 \/ Value(tb, tb.sizearray) # Nil
  PROVE  LET n == unbound_search(tb, tb.sizearray)
         IN  n \in Nat /\ (n = 0 \/ Value(tb, n) # Nil) /\ Value(tb, n + 1) = Nil
<1> DEFINE j == tb.sizearray
           size == sizenode(tb)
<1>0. IsTable(tb) /\ j \in Nat /\ size \in Nat \ {0} /\ Nodes(tb) = 0..size - 1
  BY NodesType DEF TableOK, IsTable, Nodes
<1>1. PICK r : /\ r \in [Nat -> Bounds] /\ r[0] = [i |-> j, j |-> j + 1]
               /\ \A n \in Nat : r[n + 1] = Doubled(tb, r[n])
               /\ unbound_search(tb, j) = Between(tb, r[size].i, r[size].j)
  BY <1>0, DoubledRounds
<1>2. \A n \in Nat : r[n].i \in Nat /\ r[n].j \in Nat BY <1>1 DEF Bounds
<1> DEFINE V(n) == Value(tb, r[n].j) # Nil
           Good(n) == /\ r[n].i < r[n].j /\ j < r[n].j
                      /\ r[n].i = 0 \/ Value(tb, r[n].i) # Nil
                      /\ V(n) => \A m \in 0..n - 1 : V(m) /\ r[m].j < r[n].j
           T == {n \in Nat : Good(n)}
<1>3. 0 \in T
  <2>1. r[0].i = j /\ r[0].j = j + 1 BY <1>1
  <2> QED BY <2>1, <1>0
<1>4. ASSUME NEW n \in Nat, Good(n) PROVE Good(n + 1)
  <2>0. r[n + 1] = IF V(n) THEN [i |-> r[n].j, j |-> 2 * r[n].j] ELSE r[n]
    BY <1>1 DEF Doubled
  <2>1. CASE V(n)
    <3>1. r[n + 1].i = r[n].j /\ r[n + 1].j = 2 * r[n].j BY <2>0, <2>1
    <3>2. r[n].j < 2 * r[n].j BY <1>2, <1>4, <1>0
    <3>3. ASSUME NEW m \in 0..(n + 1) - 1 PROVE V(m) /\ r[m].j < r[n + 1].j
      <4>1. CASE m = n BY <4>1, <2>1, <3>1, <3>2
      <4>2. CASE m # n
        <5>1. m \in 0..n - 1 /\ m \in Nat BY <4>2
        <5>2. V(m) /\ r[m].j < r[n].j BY <5>1, <2>1, <1>4
        <5> QED BY <5>1, <5>2, <3>1, <3>2, <1>2
      <4> QED BY <4>1, <4>2
    <3> QED BY <3>1, <3>2, <3>3, <2>1, <1>0, <1>2, <1>4
  <2>2. CASE ~V(n)
    <3>1. r[n + 1] = r[n] BY <2>0, <2>2
    <3> QED BY <3>1, <2>2, <1>4
  <2> QED BY <2>1, <2>2
<1>5. Nat \subseteq T
  <2>1. \A n \in Nat : n \in T => n + 1 \in T BY <1>4
  <2> HIDE DEF T
  <2> QED BY <1>3, <2>1, SetInduction
<1>6. Good(size) BY <1>0, <1>5
\* one round more than there are nodes would be a key more than there are nodes
<1>7. ~V(size)
  <2> SUFFICES ASSUME V(size) PROVE FALSE OBVIOUS
  <2>1. \A m \in 0..size : V(m) BY <1>0, <1>6
  <2>2. ASSUME NEW m \in 0..size PROVE \E n \in Nodes(tb) : HasKey(tb.node[n], r[m].j)
    <3>1. m \in Nat /\ m \in T BY <1>0, <1>5
    <3>2. r[m].j \in Nat /\ r[m].j \notin 1..j BY <3>1, <1>0, <1>2
    <3>3. r[m].j \in Keys BY <2>1, <3>2, PresentIsKey
    <3> QED BY <3>2, <3>3, <2>1, ValueIs
  <2> DEFINE f == [m \in 0..size |-> CHOOSE n \in Nodes(tb) : HasKey(tb.node[n], r[m].j)]
  <2>3. \A m \in 0..size : f[m] \in Nodes(tb) /\ tb.node[f[m]].k = r[m].j
    BY <2>2 DEF HasKey
  <2> HIDE DEF f
  <2>4. ASSUME NEW m \in 0..size, NEW n \in 0..size, n < m PROVE r[n].j < r[m].j
    <3>1. m \in Nat /\ Good(m) BY <1>0, <1>5
    <3>2. n \in 0..m - 1 BY <2>4
    <3> QED BY <3>1, <3>2, <2>1
  <2>5. \A m, n \in 0..size : r[m].j = r[n].j => m = n
    <3> SUFFICES ASSUME NEW m \in 0..size, NEW n \in 0..size, r[m].j = r[n].j, m # n PROVE FALSE
      OBVIOUS
    <3>1. m \in Nat /\ n \in Nat /\ (m < n \/ n < m) BY <1>0
    <3>2. r[m].j \in Nat /\ r[n].j \in Nat BY <3>1, <1>2
    <3> QED BY <3>1, <3>2, <2>4
  <2>6. f \in Injection(0..size, Nodes(tb))
    <3>1. f \in [0..size -> Nodes(tb)] BY <2>3 DEF f
    <3> QED BY <3>1, <2>3, <2>5 DEF Injection, IsInjective
  <2>7. IsFiniteSet(Nodes(tb)) /\ Cardinality(Nodes(tb)) = size
        /\ IsFiniteSet(0..size) /\ Cardinality(0..size) = size + 1
    <3> DEFINE s == sizenode(tb)
    <3>0. s \in Nat \ {0} /\ Nodes(tb) = 0..s - 1 BY <1>0
    <3> HIDE DEF s
    <3>1. IsFiniteSet(0..s) /\ Cardinality(0..s) = s + 1
      <4>1. 0 \in Int /\ s \in Int BY <3>0
      <4> QED BY <4>1, <3>0, FS_Interval
    <3>2. IsFiniteSet(0..s - 1) /\ Cardinality(0..s - 1) = s
      <4>1. 0 \in Int /\ s - 1 \in Int BY <3>0
      <4> QED BY <4>1, <3>0, FS_Interval
    <3> QED BY <3>0, <3>1, <3>2 DEF s
  <2>8. Cardinality(0..size) <= Cardinality(Nodes(tb)) BY <2>6, <2>7, FS_Injection
  <2> QED BY <2>7, <2>8, <1>0
<1>8. r[size].i \in Nat /\ r[size].j \in Nat BY <1>0, <1>2
<1>9. LET n == Between(tb, r[size].i, r[size].j)
      IN  n \in Nat /\ (n = 0 \/ Value(tb, n) # Nil) /\ Value(tb, n + 1) = Nil
  <2>1. r[size].i < r[size].j /\ Value(tb, r[size].j) = Nil
        /\ (r[size].i = 0 \/ Value(tb, r[size].i) # Nil)
    BY <1>6, <1>7
  <2> QED BY <2>1, <1>8, BetweenIsBorder
<1> QED BY <1>1, <1>9

\* luaH_getn returns a border, in each of its cases (ltable.c:560).
LEMMA LengthBorder ==
  ASSUME hash \in Hashes, TableOK(t)
  PROVE  LengthIsBorder
<1> DEFINE j == t.sizearray
           n == luaH_getn(t)
<1>0. IsTable(t) /\ j \in Nat BY DEF TableOK, IsTable
<1>1. n \in Nat /\ (n = 0 \/ Value(t, n) # Nil) /\ Value(t, n + 1) = Nil
  <2>0. j > 0 => Value(t, j) = t.array[j] BY <1>0, PresentIsKey
  <2>1. CASE j > 0 /\ t.array[j] = Nil
    <3>1. n = Between(t, 0, j) BY <2>1 DEF luaH_getn
    <3>2. 0 \in Nat /\ 0 < j /\ Value(t, j) = Nil BY <2>0, <2>1
    <3> HIDE DEF n, j
    <3> QED BY <3>1, <3>2, <1>0, BetweenIsBorder
  <2>2. CASE t.dummy /\ ~(j > 0 /\ t.array[j] = Nil)
    <3>1. n = j BY <2>2 DEF luaH_getn
    <3>2. Nodes(t) = {0} /\ t.node[0].k = Nil
      BY <2>2, TwotoDef DEF TableOK, FreeOK, Nodes, sizenode
    <3>3. Value(t, j + 1) = Nil
      <4> SUFFICES ASSUME Value(t, j + 1) # Nil PROVE FALSE OBVIOUS
      <4>1. j + 1 \in Keys /\ j + 1 \notin 1..j BY <1>0, PresentIsKey
      <4>2. Nil \notin Keys BY TableAssumption
      <4> QED BY <4>1, <4>2, <3>2, ValueIs DEF HasKey
    <3> QED BY <3>1, <3>3, <2>0, <2>2, <1>0
  <2>3. CASE ~t.dummy /\ ~(j > 0 /\ t.array[j] = Nil)
    <3>1. n = unbound_search(t, j) BY <2>3 DEF luaH_getn
    <3> QED BY <3>1, <2>0, <2>3, <1>0, SearchIsBorder
  <2> QED BY <2>1, <2>2, <2>3
<1>2. n # 0 => n \in Keys BY <1>1, PresentIsKey
<1> QED BY <1>1, <1>2 DEF LengthIsBorder

\* The length of a table is always a border, whatever holes it has (ltable.c:556).
THEOREM LengthAlwaysIsBorder == Spec => []LengthIsBorder
<1>1. TableInv => LengthIsBorder BY LengthBorder DEF TableInv
<1> QED BY <1>1, TableInvariant, PTL
=============================================================================
