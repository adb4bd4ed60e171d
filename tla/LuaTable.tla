------------------------------ MODULE LuaTable ------------------------------
(***************************************************************************)
(* One Lua table: ltable.c, with the removal of empty entries by the       *)
(* collector (lgc.c) and the traversal of lua_next.                        *)
(*                                                                         *)
(* A table t is a record: array (a function from 1..sizearray to values),  *)
(* node (a function from 0..sizenode - 1 to nodes), lsizenode, lastfree,   *)
(* dummy (node is the dummynode that all empty tables share) and ok, which *)
(* the code does not keep: a rehash has always made room for the keys it   *)
(* was for.                                                                *)
(*                                                                         *)
(* Keys are positive integers, strings and objects; a value is only that   *)
(* of its cell, and the hash of a key is any number.  An object that has   *)
(* been collected may come back: the next one at its address.  Floating    *)
(* point keys, NaN, zero and negative integers are left out, and so are    *)
(* sizes beyond MAXASIZE.                                                  *)
(***************************************************************************)
EXTENDS Integers, FiniteSets, FiniteSetsExt

CONSTANTS
  Ints, Strings, Objects,   \* the keys
  Values, Nil,
  Hashes,                   \* the hashes keys can have, each a function
  Sizes,                    \* the sizes a new table can be given
  Off, Invalid              \* no traversal, and its error "invalid key to 'next'"

Keys == Ints \cup Strings \cup Objects

ASSUME TableAssumption ==
  /\ Ints \subseteq Nat \ {0} /\ (Strings \cup Objects) \cap Nat = {}
  /\ Hashes \subseteq [Keys -> Nat] /\ Sizes \subseteq Nat
  /\ Nil \notin Keys \cup Values \cup Nat
  /\ Off \notin Keys \cup {Nil, Invalid} /\ Invalid \notin Keys \cup {Nil}

VARIABLES
  hash,   \* of each key
  t,
  cur,    \* where a traversal is: a key, Nil before the first, Off or Invalid
  fields  \* what the program has assigned, which no part of the code keeps

vars == <<hash, t, cur, fields>>

NULL == -1
FreeNode == [k |-> Nil, dead |-> FALSE, v |-> Nil, next |-> NULL]

twoto[n \in Nat] == IF n = 0 THEN 1 ELSE 2 * twoto[n - 1]
ceillog2(x)  == CHOOSE n \in 0..x : x <= twoto[n] /\ \A m \in 0..n - 1 : twoto[m] < x
sizenode(tb) == twoto[tb.lsizenode]

\* hashmod and lmod: an odd divisor for numbers and pointers.
mainposition(tb, key) ==
  LET size == sizenode(tb)
  IN  IF key \in Strings THEN hash[key] % size
      ELSE hash[key] % (IF size <= 2 THEN 1 ELSE size - 1)

-----------------------------------------------------------------------------
(* Search.  A place is a cell of the array or a node, and NoPlace.         *)

NoPlace  == [in |-> "none", i |-> 0]
Cell(i)  == [in |-> "array", i |-> i]
InNode(n) == [in |-> "node", i |-> n]

\* The first node of fit in the chain from node n on.
FirstIn(tb, n, fit) ==
  LET first[m \in DOMAIN tb.node \cup {NULL}] ==
        IF m = NULL \/ m \in fit THEN m ELSE first[tb.node[m].next]
  IN  first[n]

HasKey(n, key) == n.k = key /\ ~n.dead

luaH_get(tb, key) ==
  LET fit == {n \in DOMAIN tb.node : HasKey(tb.node[n], key)}
      at  == FirstIn(tb, mainposition(tb, key), fit)
  IN  IF key \in 1..tb.sizearray THEN Cell(key)
      ELSE IF key \notin Keys \/ at = NULL THEN NoPlace ELSE InNode(at)

ValueAt(tb, place) ==
  CASE place.in = "none"  -> Nil
    [] place.in = "array" -> tb.array[place.i]
    [] place.in = "node"  -> tb.node[place.i].v
StoreAt(tb, place, v) ==
  CASE place.in = "none"  -> tb
    [] place.in = "array" -> [tb EXCEPT !.array[place.i] = v]
    [] place.in = "node"  -> [tb EXCEPT !.node[place.i].v = v]
Value(tb, key) == ValueAt(tb, luaH_get(tb, key))

-----------------------------------------------------------------------------
(* Insertion.                                                              *)

\* The last node below lastfree that never had a key.
getfreepos(tb) ==
  LET free == {n \in DOMAIN tb.node : n < tb.lastfree /\ tb.node[n].k = Nil}
  IN  IF free = {} \/ tb.dummy THEN NULL ELSE Max(free)

\* A key that is at mp without belonging there moves to n, and its chain with it.
NotRelinked(tb, mp, n) == [tb.node EXCEPT ![n] = tb.node[mp], ![mp] = FreeNode]  \* fault
Moved(tb, mp, n) ==
  LET prev == CHOOSE p \in DOMAIN tb.node : tb.node[p].next = mp
  IN  [tb.node EXCEPT ![prev].next = n, ![n] = tb.node[mp], ![mp] = FreeNode]

\* The key goes into node i, in a table with these nodes.
Into(tb, nodes, i, lastfree, key) ==
  [t |-> [tb EXCEPT !.node = [nodes EXCEPT ![i].k = key, ![i].dead = FALSE],
                    !.lastfree = lastfree],
   at |-> InNode(i)]

\* newkey, without the rehash: where no node is free tb.ok becomes false.
Insert(tb, key) ==
  LET mp     == mainposition(tb, key)
      n      == getfreepos(tb)
      othern == mainposition(tb, tb.node[mp].k)
  IN  CASE tb.node[mp].v = Nil /\ ~tb.dummy -> Into(tb, tb.node, mp, tb.lastfree, key)
        [] tb.node[mp].v # Nil /\ n # NULL ->
             IF othern # mp THEN Into(tb, Moved(tb, mp, n), mp, n, key)
             ELSE Into(tb, [tb.node EXCEPT ![n].next = tb.node[mp].next, ![mp].next = n], n, n, key)
        [] OTHER -> [t |-> [tb EXCEPT !.ok = FALSE], at |-> NoPlace]

\* luaH_set of a table that has room, and the assignment to what it returns.
Unsearched(tb, key, v) ==  \* fault
  IF key \in 1..tb.sizearray THEN StoreAt(tb, Cell(key), v)
  ELSE LET new == Insert(tb, key) IN StoreAt(new.t, new.at, v)
Put(tb, key, v) ==
  LET place == luaH_get(tb, key)
      new   == Insert(tb, key)
  IN  IF place.in # "none" THEN StoreAt(tb, place, v) ELSE StoreAt(new.t, new.at, v)

-----------------------------------------------------------------------------
(* Rehash.                                                                 *)

\* The size of the array part: more than half of it is used.
computesizes(ints) ==
  LET Below(n) == Cardinality({k \in ints : k <= n})
      total    == Cardinality(ints)
      good     == {i \in 0..total : twoto[i] \div 2 < total /\ Below(twoto[i]) > twoto[i] \div 2}
  IN  IF good = {} THEN 0 ELSE twoto[Max(good)]

setarrayvector(tb, size) ==
  [tb EXCEPT !.sizearray = size,
             !.array = [i \in 1..size |-> IF i <= tb.sizearray THEN tb.array[i] ELSE Nil]]

setnodevector(tb, size) ==
  LET lsize == IF size = 0 THEN 0 ELSE ceillog2(size)
  IN  [tb EXCEPT !.lsizenode = lsize,
                 !.node = [n \in 0..twoto[lsize] - 1 |-> FreeNode],
                 !.lastfree = IF size = 0 THEN 0 ELSE twoto[lsize],
                 !.dummy = (size = 0)]

\* What resize inserts again, in this order: the cells the array loses, and the
\* nodes from the last to the first.
Lost(tb, nasize) == IF nasize < tb.sizearray THEN tb.sizearray - nasize ELSE 0
Entry(tb, nasize, i) ==
  IF i <= Lost(tb, nasize) THEN [k |-> nasize + i, v |-> tb.array[nasize + i]]
  ELSE LET n == tb.node[Lost(tb, nasize) + sizenode(tb) - i] IN [k |-> n.k, v |-> n.v]

PutEntry(tb, e) == IF e.v = Nil THEN tb ELSE Put(tb, e.k, e.v)

\* new with the first n of these entries of old.
Reinserted(new, old, n) ==
  LET after[i \in 0..n] ==
        IF i = 0 THEN new ELSE PutEntry(after[i - 1], Entry(old, new.sizearray, i))
  IN  after[n]

resize(tb, nasize, nhsize) ==
  Reinserted(setnodevector(setarrayvector(tb, nasize), nhsize), tb,
             Lost(tb, nasize) + sizenode(tb))

\* numusearray and numusehash, and the key to be inserted.
Used(tb) == {i \in 1..tb.sizearray : tb.array[i] # Nil} \cup
            {tb.node[n].k : n \in {m \in DOMAIN tb.node : tb.node[m].v # Nil}}
ForgetExtra(tb, key) == Used(tb)  \* fault
Counted(tb, key)     == Used(tb) \cup {key}
rehash(tb, key) ==
  LET keys == Counted(tb, key)
      ints == keys \cap Nat
      n    == computesizes(ints)
      na   == Cardinality({k \in ints : k <= n})
  IN  resize(tb, n, Cardinality(keys) - na)

luaH_set(tb, key, v) ==
  LET full == /\ luaH_get(tb, key).in = "none"
              /\ tb.node[mainposition(tb, key)].v # Nil \/ tb.dummy
              /\ getfreepos(tb) = NULL
  IN  IF full THEN Put(rehash(tb, key), key, v) ELSE Put(tb, key, v)

-----------------------------------------------------------------------------
(* Length.                                                                 *)

\* A round of the binary search, in which i is present or 0 and j is absent.
Halved(tb, p) ==
  LET m == (p.i + p.j) \div 2
  IN  IF p.j - p.i <= 1 THEN p
      ELSE IF Value(tb, m) = Nil THEN [p EXCEPT !.j = m] ELSE [p EXCEPT !.i = m]
\* It is over after j - i rounds at most.
Between(tb, i, j) ==
  LET round[n \in Nat] == IF n = 0 THEN [i |-> i, j |-> j] ELSE Halved(tb, round[n - 1])
  IN  round[j - i].i

\* A round of unbound_search, which ends when j is absent.
Doubled(tb, p) == IF Value(tb, p.j) = Nil THEN p ELSE [i |-> p.j, j |-> 2 * p.j]
unbound_search(tb, j) ==
  LET round[n \in Nat] == IF n = 0 THEN [i |-> j, j |-> j + 1] ELSE Doubled(tb, round[n - 1])
      end == round[sizenode(tb)]  \* one round for each node at most
  IN  Between(tb, end.i, end.j)

ArrayOnly(tb) ==  \* fault
  LET j == tb.sizearray IN IF j > 0 /\ tb.array[j] = Nil THEN Between(tb, 0, j) ELSE j
luaH_getn(tb) ==
  LET j == tb.sizearray
  IN  CASE j > 0 /\ tb.array[j] = Nil -> Between(tb, 0, j)
        [] tb.dummy /\ ~(j > 0 /\ tb.array[j] = Nil) -> j
        [] OTHER -> unbound_search(tb, j)

-----------------------------------------------------------------------------
(* Traversal.                                                              *)

\* Cells come before nodes.  A key that is dead in its node is still found.
Alive(n, key)    == n.k = key /\ ~n.dead  \* fault
Findable(n, key) == n.k = key
findindex(tb, key) ==
  LET fit == {n \in DOMAIN tb.node : Findable(tb.node[n], key)}
      at  == FirstIn(tb, mainposition(tb, key), fit)
  IN  CASE key = Nil -> 0
        [] key \in 1..tb.sizearray -> key
        [] OTHER -> IF at = NULL THEN NULL ELSE tb.sizearray + at + 1

\* The keys in the order of their indices.
KeyAt(tb, i)   == IF i <= tb.sizearray THEN i ELSE tb.node[i - tb.sizearray - 1].k
Present(tb, i) == IF i <= tb.sizearray THEN tb.array[i] # Nil
                  ELSE tb.node[i - tb.sizearray - 1].v # Nil
After(tb, i)   == {j \in i + 1..tb.sizearray + sizenode(tb) : Present(tb, j)}

luaH_next(tb, key) ==
  LET i == findindex(tb, key)
  IN  CASE i = NULL -> Invalid
        [] i # NULL /\ After(tb, i) = {} -> Off
        [] i # NULL /\ After(tb, i) # {} -> KeyAt(tb, Min(After(tb, i)))

-----------------------------------------------------------------------------

luaH_new(narray, nhash) ==
  LET tb == [sizearray |-> 0, array |-> [i \in 1..0 |-> Nil],
             lsizenode |-> 0, node |-> [n \in 0..0 |-> FreeNode],
             lastfree |-> 0, dummy |-> TRUE, ok |-> TRUE]
  IN  setnodevector(setarrayvector(tb, narray), nhash)

Init ==
  /\ hash \in Hashes
  /\ \E narray, nhash \in Sizes : t = luaH_new(narray, nhash)
  /\ cur = Off /\ fields = [key \in Keys |-> Nil]

\* An assignment; to a field that does not exist it ends the traversal.
Assign ==
  \E key \in Keys, v \in Values \cup {Nil} :
    /\ t' = luaH_set(t, key, v)
    /\ cur' = IF fields[key] = Nil THEN Off ELSE cur
    /\ fields' = [fields EXCEPT ![key] = v]
    /\ UNCHANGED hash

\* OP_SETLIST of a constructor makes the array large enough for its items.
luaH_resizearray ==
  \E nasize \in Sizes :
    /\ cur = Off /\ nasize > t.sizearray
    /\ t' = resize(t, nasize, IF t.dummy THEN 0 ELSE sizenode(t))
    /\ UNCHANGED <<hash, cur, fields>>

\* The collector marks the keys of empty entries dead.
removeentry ==
  /\ t' = [t EXCEPT !.node = [n \in DOMAIN @ |->
             IF @[n].v = Nil /\ @[n].k \in Strings \cup Objects
             THEN [@[n] EXCEPT !.dead = TRUE] ELSE @[n]]]
  /\ UNCHANGED <<hash, cur, fields>>

Begin == cur = Off /\ cur' = Nil /\ UNCHANGED <<hash, t, fields>>
lua_next ==
  /\ cur \notin {Off, Invalid}
  /\ cur' = luaH_next(t, cur)
  /\ UNCHANGED <<hash, t, fields>>

Next == Assign \/ luaH_resizearray \/ removeentry \/ Begin \/ lua_next

Spec == Init /\ [][Next]_vars

-----------------------------------------------------------------------------
(* Properties.                                                             *)

\* Every key has the value last assigned to it: whatever the collisions, the moves
\* of newkey, the rehashes between array and nodes and the keys the collector marks
\* dead.
HoldsFields == \A key \in Keys : Value(t, key) = fields[key]

\* The table is a dictionary: next gives every field that is present through a
\* traversal once and none that is not there, also when fields are cleared or
\* changed on the way and their keys die.
Left ==
  IF cur \in {Off, Invalid} THEN {}
  ELSE LET i == findindex(t, cur) IN IF i = NULL THEN {} ELSE {KeyAt(t, j) : j \in After(t, i)}
Abstract ==
  INSTANCE Dictionary WITH map <- fields, traversing <- cur # Off, left <- Left
IsDictionary == Abstract!Spec

\* A key that next returned is a key that next accepts.
NextFindsKey == cur # Invalid

\* The length is a border, whatever holes there are (ltable.c:556).
LengthIsBorder ==
  LET n == luaH_getn(t)
      Is(i) == i \in Keys /\ Value(t, i) # Nil
  IN  (n = 0 \/ Is(n)) /\ ~Is(n + 1)

\* A rehash makes room for the keys it counted: insertion after it never has to
\* rehash again, so that luaH_set returns.
RehashMakesRoom == t.ok

\* An integer key of the array part is not in a node as well, and no key is in two:
\* a stale copy would come back when the array shrinks.
OncePerKey ==
  \A n \in DOMAIN t.node : t.node[n].v # Nil =>
    luaH_get(t, t.node[n].k) = InNode(n)
=============================================================================
