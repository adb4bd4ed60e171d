--------------------------- MODULE ChainTheorems ---------------------------
(***************************************************************************)
(* Linked lists as functions from nodes to nodes: what the chain from a    *)
(* node is after newkey has linked or moved one, and what a search along   *)
(* it finds. Then induction over the numbers and iteration of a step, on   *)
(* which the loops of ltable.c rest; both come from the fact that an       *)
(* injection cannot go from a finite set to a smaller one.                 *)
(***************************************************************************)
EXTENDS LuaTableInv, FiniteSetTheorems, TLAPS
-----------------------------------------------------------------------------
(* Chains.                                                                 *)

\* A chain begins with its own node (gnode, gnext in ltable.c).
LEMMA ChainStart ==
  ASSUME NEW next, NEW n \in DOMAIN next
  PROVE  n \in Chain(next, n)
BY DEF Chain

\* A chain goes on to the next node of each of its nodes.
LEMMA ChainNext ==
  ASSUME NEW next, IsList(next), NEW n \in DOMAIN next,
         NEW o \in Chain(next, n), next[o] # NULL
  PROVE  next[o] \in Chain(next, n)
BY DEF Chain, Closed, IsList

\* The chain from a node of a chain is part of that chain.
LEMMA ChainTail ==
  ASSUME NEW next, IsList(next), NEW n \in DOMAIN next,
         NEW o \in Chain(next, n), NEW p \in Chain(next, o)
  PROVE  p \in Chain(next, n)
BY DEF Chain

\* Every node of a chain but the first is linked to by a node of the chain.
LEMMA ChainBefore ==
  ASSUME NEW next, IsList(next), NEW n \in DOMAIN next,
         NEW o \in Chain(next, n), o # n
  PROVE  \E p \in Chain(next, n) : next[p] = o
<1> SUFFICES ASSUME \A p \in Chain(next, n) : next[p] # o PROVE FALSE OBVIOUS
<1> DEFINE S == Chain(next, n) \ {o}
<1>1. n \in S BY ChainStart
<1>2. S \in SUBSET DOMAIN next BY DEF Chain
<1>3. Closed(next, S)
  <2> SUFFICES ASSUME NEW x \in S, next[x] # NULL PROVE next[x] \in S
    BY DEF Closed
  <2>1. next[x] \in Chain(next, n) BY ChainNext
  <2> QED BY <2>1
<1> QED BY <1>1, <1>2, <1>3 DEF Chain

\* A chain is its first node and the chain from the next one.
LEMMA ChainUnfolds ==
  ASSUME NEW next, IsList(next), NEW n \in DOMAIN next,
         NEW o \in Chain(next, n), o # n
  PROVE  next[n] # NULL /\ o \in Chain(next, next[n])
<1>1. next[n] # NULL
  <2> SUFFICES ASSUME next[n] = NULL PROVE FALSE OBVIOUS
  <2>1. Closed(next, {n}) BY DEF Closed
  <2> QED BY <2>1 DEF Chain
<1> DEFINE S == {n} \cup Chain(next, next[n])
<1>2. S \in SUBSET DOMAIN next BY DEF Chain
<1>3. Closed(next, S)
  <2> SUFFICES ASSUME NEW x \in S, next[x] # NULL PROVE next[x] \in S
    BY DEF Closed
  <2>1. next[n] \in Chain(next, next[n]) BY <1>1, ChainStart DEF IsList
  <2>2. CASE x = n BY <2>1, <2>2
  <2>3. CASE x \in Chain(next, next[n]) BY <2>3, <1>1, ChainNext DEF IsList
  <2> QED BY <2>2, <2>3
<1>4. o \in S BY <1>2, <1>3 DEF Chain
<1> QED BY <1>1, <1>4

\* Two nodes are not each behind the other.
LEMMA ChainOneWay ==
  ASSUME NEW next, IsList(next), Acyclic(next), NEW n \in DOMAIN next,
         NEW m \in Chain(next, n), n \in Chain(next, m)
  PROVE  m = n
<1> SUFFICES ASSUME m # n PROVE FALSE OBVIOUS
<1> DEFINE S == {x \in Chain(next, n) : n \in Chain(next, x)}
<1>1. \A x \in Chain(next, n) : x \in DOMAIN next BY DEF Chain
<1>2. n \in S BY ChainStart
<1>3. ASSUME NEW x \in S PROVE next[x] \in S
  <2>1. x \in DOMAIN next BY <1>1
  <2>2. next[x] # NULL /\ n \in Chain(next, next[x])
    <3>1. CASE x = n
      <4>1. next[n] # NULL /\ m \in Chain(next, next[n]) BY ChainUnfolds
      <4>2. next[n] \in DOMAIN next BY <4>1 DEF IsList
      <4> QED BY <3>1, <4>1, <4>2, ChainTail
    <3>2. CASE x # n BY <2>1, <3>2, ChainUnfolds
    <3> QED BY <3>1, <3>2
  <2>3. next[x] \in Chain(next, n) BY <2>2, ChainNext
  <2> QED BY <2>2, <2>3
<1>4. S \in SUBSET DOMAIN next /\ S # {} BY <1>1, <1>2
<1> HIDE DEF S
<1> QED BY <1>3, <1>4 DEF Acyclic

-----------------------------------------------------------------------------

\* The links after newkey has put a free node f behind m (ltable.c:420).
LEMMA LinkedFacts ==
  ASSUME NEW next, IsList(next), NEW m \in DOMAIN next, NEW f, m # f, Unlinked(next, f)
  PROVE  LET new == LinkedBehind(next, m, f)
         IN  /\ DOMAIN new = DOMAIN next /\ IsList(new)
             /\ new[f] = next[m] /\ new[m] = f
             /\ \A x \in DOMAIN next \ {f, m} : new[x] = next[x]
BY DEF LinkedBehind, IsList, Unlinked

\* No chain loses a node when f is linked behind m.
LEMMA LinkedGrows ==
  ASSUME NEW next, IsList(next), NEW m \in DOMAIN next, NEW f, m # f, Unlinked(next, f),
         NEW n \in DOMAIN next, NEW o \in Chain(next, n)
  PROVE  o \in Chain(LinkedBehind(next, m, f), n)
<1> DEFINE new == LinkedBehind(next, m, f)
<1>1. /\ DOMAIN new = DOMAIN next
      /\ new[f] = next[m] /\ new[m] = f
      /\ \A x \in DOMAIN next \ {f, m} : new[x] = next[x]
  BY LinkedFacts
<1> HIDE DEF new
<1> SUFFICES ASSUME NEW S \in SUBSET DOMAIN next, n \in S, Closed(new, S) PROVE o \in S
  BY <1>1 DEF Chain, new
<1>2. Closed(next, S)
  <2> SUFFICES ASSUME NEW x \in S, next[x] # NULL PROVE next[x] \in S
    BY DEF Closed
  <2>1. CASE x = m
    <3>1. f \in S BY <2>1, <1>1 DEF Closed, IsList, Unlinked
    <3> QED BY <3>1, <1>1, <2>1 DEF Closed
  <2>2. CASE x = f BY <2>2 DEF Unlinked
  <2>3. CASE x # m /\ x # f BY <2>3, <1>1 DEF Closed
  <2> QED BY <2>1, <2>2, <2>3
<1> QED BY <1>2 DEF Chain

\* With f linked behind m chains end and are linear as before, and what was behind m
\* is behind f.
LEMMA LinkedChains ==
  ASSUME NEW next, IsList(next), NEW m \in DOMAIN next, NEW f, m # f, Unlinked(next, f)
  PROVE  LET new == LinkedBehind(next, m, f)
         IN  /\ Acyclic(next) => Acyclic(new)
             /\ Linear(next) => Linear(new)
             /\ f \in Chain(new, m)
             /\ \A o \in Chain(next, m) : o # m => o \in Chain(new, f)
<1> DEFINE new == LinkedBehind(next, m, f)
<1>1. /\ DOMAIN new = DOMAIN next /\ IsList(new)
      /\ new[f] = next[m] /\ new[m] = f
      /\ \A x \in DOMAIN next \ {f, m} : new[x] = next[x]
  BY LinkedFacts
<1>2. \A o \in Chain(next, m) : o \in Chain(new, m)
  BY LinkedGrows
<1> HIDE DEF new
<1>3. ASSUME Acyclic(next) PROVE Acyclic(new)
  <2> SUFFICES ASSUME NEW S \in SUBSET DOMAIN next, S # {}, \A x \in S : new[x] \in S PROVE FALSE
    BY <1>1 DEF Acyclic
  <2> DEFINE R == S \ {f}
  <2>1. R # {}
    <3> SUFFICES ASSUME S = {f} PROVE FALSE OBVIOUS
    <3>1. next[m] = f BY <1>1
    <3> QED BY <3>1 DEF Unlinked
  <2>2. \A x \in R : next[x] \in R
    <3> SUFFICES ASSUME NEW x \in R PROVE next[x] \in S BY DEF Unlinked
    <3>1. CASE x = m
      <4>1. f \in S BY <3>1, <1>1
      <4> QED BY <4>1, <3>1, <1>1
    <3>2. CASE x # m BY <3>2, <1>1
    <3> QED BY <3>1, <3>2
  <2> HIDE DEF R
  <2>3. R \in SUBSET DOMAIN next BY DEF R
  <2> QED BY <2>1, <2>2, <2>3, <1>3 DEF Acyclic
<1>4. Linear(next) => Linear(new)
  BY <1>1 DEF Linear, Unlinked
<1>5. f \in Chain(new, m)
  <2>1. m \in Chain(new, m) BY <1>1, ChainStart
  <2>2. new[m] # NULL BY <1>1 DEF Unlinked, IsList
  <2> QED BY <2>1, <2>2, <1>1, ChainNext
<1>6. ASSUME NEW o \in Chain(next, m), o # m PROVE o \in Chain(new, f)
  BY <1>1, <1>2, <1>6, ChainUnfolds
<1> QED BY <1>3, <1>4, <1>5, <1>6 DEF new

-----------------------------------------------------------------------------

\* newkey moves the node m to the free f (ltable.c:411): chains end and are linear as
\* before, each with f in the place of m.
LEMMA ReplacedChains ==
  ASSUME NEW next, IsList(next), Acyclic(next), Linear(next),
         NEW m \in DOMAIN next, NEW f, m # f, Unlinked(next, f),
         NEW p \in DOMAIN next, next[p] = m
  PROVE  LET new == Replaced(next, p, m, f)
         IN  /\ DOMAIN new = DOMAIN next /\ IsList(new)
             /\ Acyclic(new) /\ Linear(new)
             /\ \A n \in DOMAIN next \ {f} : \A o \in Chain(next, n) :
                  (IF o = m THEN f ELSE o) \in Chain(new, IF n = m THEN f ELSE n)
<1> DEFINE N == DOMAIN next
           new == Replaced(next, p, m, f)
<1>0. next[m] # m /\ next[m] # f
  <2>1. {m} \in SUBSET DOMAIN next OBVIOUS
  <2>2. next[m] \notin {m} BY <2>1 DEF Acyclic
  <2> QED BY <2>2 DEF Unlinked
<1>1. p # m /\ p # f
  BY <1>0 DEF Unlinked, IsList
<1>2. /\ new \in [N -> N \cup {NULL}]
      /\ new[p] = f /\ new[f] = next[m] /\ new[m] = NULL
      /\ \A x \in N \ {p, f, m} : new[x] = next[x]
  BY <1>1 DEF Replaced, IsList, Unlinked
<1>3. next[m] # m /\ next[m] # f /\ f \in N /\ NULL \notin N
  BY <1>0 DEF Unlinked, IsList
<1> HIDE DEF new
\* the nodes the old chains had in place of the new ones
<1> DEFINE Old(S) == (S \ {f, m}) \cup (IF f \in S THEN {m} ELSE {})
<1>4. Acyclic(new)
  <2> SUFFICES ASSUME NEW S \in SUBSET N, S # {}, \A x \in S : new[x] \in S PROVE FALSE
    BY <1>2 DEF Acyclic
  <2>1. m \notin S BY <1>2, <1>3
  <2>2. Old(S) \in SUBSET N /\ Old(S) # {} BY <2>1
  <2>3. \A x \in Old(S) : next[x] \in Old(S)
    <3> SUFFICES ASSUME NEW x \in Old(S) PROVE next[x] \in Old(S) OBVIOUS
    <3>1. CASE x = m
      <4>1. f \in S BY <3>1
      <4>2. next[m] \in S BY <4>1, <1>2
      <4> QED BY <4>1, <4>2, <3>1, <1>3
    <3>2. CASE x = p
      <4>1. f \in S BY <3>2, <1>2, <1>1
      <4> QED BY <4>1, <3>2
    <3>3. CASE x \notin {m, p}
      <4>1. x \in S /\ x # f BY <3>3
      <4>2. next[x] \in S BY <4>1, <3>3, <1>2
      <4>3. next[x] # m BY <3>3, <4>1, <1>3 DEF Linear
      <4>4. next[x] # f BY <4>1 DEF Unlinked
      <4> QED BY <4>2, <4>3, <4>4
    <3> QED BY <3>1, <3>2, <3>3
  <2> HIDE DEF Old
  <2> QED BY <2>2, <2>3 DEF Acyclic
<1>5. Linear(new)
  <2> SUFFICES ASSUME NEW x \in N, NEW y \in N, new[x] = new[y], new[x] # NULL PROVE x = y
    BY <1>2 DEF Linear
  <2>1. \A z \in N \ {p, m} : new[z] # f
    BY <1>2, <1>3 DEF Unlinked
  <2>2. CASE x = p \/ y = p BY <2>1, <2>2, <1>2
  <2>3. CASE x \notin {p, m} /\ y \notin {p, m}
    <3>1. \A z \in N \ {p, m} : new[z] = next[IF z = f THEN m ELSE z] BY <1>2
    <3> QED BY <3>1, <2>3 DEF Linear
  <2> QED BY <2>2, <2>3, <1>2
<1>6. ASSUME NEW n \in N \ {f}, NEW o \in Chain(next, n)
      PROVE  (IF o = m THEN f ELSE o) \in Chain(new, IF n = m THEN f ELSE n)
  <2> DEFINE nn == IF n = m THEN f ELSE n
             oo == IF o = m THEN f ELSE o
  <2>1. o \in N BY DEF Chain
  <2> SUFFICES ASSUME NEW S \in SUBSET N, nn \in S, Closed(new, S) PROVE oo \in S
    BY <1>2, <1>3, <2>1 DEF Chain
  <2>2. Closed(next, Old(S))
    <3> SUFFICES ASSUME NEW x \in Old(S), next[x] # NULL PROVE next[x] \in Old(S)
      BY DEF Closed
    <3>1. CASE x = m
      <4>1. f \in S BY <3>1
      <4>2. next[m] \in S BY <4>1, <3>1, <1>2 DEF Closed
      <4> QED BY <4>1, <4>2, <3>1, <1>3
    <3>2. CASE x = p
      <4>1. f \in S BY <3>2, <1>2, <1>1, <1>3 DEF Closed
      <4> QED BY <4>1, <3>2
    <3>3. CASE x \notin {m, p}
      <4>1. x \in S /\ x # f BY <3>3
      <4>2. next[x] \in S BY <4>1, <3>3, <1>2 DEF Closed
      <4>3. next[x] # m BY <3>3, <4>1 DEF Linear
      <4>4. next[x] # f BY <4>1 DEF Unlinked
      <4> QED BY <4>2, <4>3, <4>4
    <3> QED BY <3>1, <3>2, <3>3
  <2>3. n \in Old(S) /\ Old(S) \in SUBSET N OBVIOUS
  <2>4. o \in Old(S) BY <2>2, <2>3 DEF Chain
  <2>5. o # f
    <3> SUFFICES ASSUME f \in Chain(next, n) PROVE FALSE BY <1>6
    <3>1. \E q \in Chain(next, n) : next[q] = f BY ChainBefore
    <3> QED BY <3>1 DEF Chain, Unlinked
  <2> QED BY <2>4, <2>5
<1> QED BY <1>2, <1>3, <1>4, <1>5, <1>6 DEF new, IsList

-----------------------------------------------------------------------------
\* f[n] is the first node of fit in the chain from n on.
Searches(f, next, fit) ==
  f = [m \in DOMAIN next \cup {NULL} |-> IF m = NULL \/ m \in fit THEN m ELSE f[next[m]]]

\* The search of FirstIn along a chain is a function: it is defined without a bound on
\* the length of the chain.
LEMMA SearchExists ==
  ASSUME NEW next, IsList(next), NEW fit \in SUBSET DOMAIN next
  PROVE  \E f : Searches(f, next, fit)
<1> DEFINE N == DOMAIN next
           cut == [x \in N |-> IF x \in fit THEN NULL ELSE next[x]]
           Ends(n) == Chain(cut, n) \cap fit
           f == [n \in N \cup {NULL} |->
                   IF n = NULL \/ Ends(n) = {} THEN NULL ELSE CHOOSE r \in Ends(n) : TRUE]
<1>1. /\ DOMAIN cut = N /\ IsList(cut)
      /\ \A x \in N : cut[x] = IF x \in fit THEN NULL ELSE next[x]
  BY DEF IsList
<1> HIDE DEF cut
<1>2. ASSUME NEW n \in N, NEW r \in Ends(n), NEW q \in Ends(n) PROVE r = q
  <2> SUFFICES ASSUME r # q PROVE FALSE OBVIOUS
  <2> DEFINE T == {x \in N : r \in Chain(cut, x)}
  <2>1. Closed(cut, T)
    <3> SUFFICES ASSUME NEW x \in T, cut[x] # NULL PROVE cut[x] \in T
      BY DEF Closed
    <3>1. x # r BY <1>1, <1>2
    <3>2. r \in Chain(cut, cut[x]) BY <3>1, <1>1, ChainUnfolds
    <3>3. cut[x] \in N BY <1>1 DEF IsList
    <3> QED BY <3>2, <3>3
  <2>2. n \in T BY <1>2
  <2>3. q \in T BY <2>1, <2>2, <1>1 DEF Chain
  <2>4. cut[q] # NULL BY <2>3, <1>1, ChainUnfolds
  <2>5. q \in fit OBVIOUS
  <2> QED BY <2>4, <2>5, <1>1
<1>3. ASSUME NEW m \in fit PROVE f[m] = m
  <2>1. m \in Ends(m) BY <1>1, ChainStart
  <2>2. m # NULL /\ m \in N BY DEF IsList
  <2>3. \A r \in Ends(m) : r = m BY <2>1, <2>2, <1>2
  <2> HIDE DEF Ends
  <2> QED BY <2>1, <2>2, <2>3
<1>4. ASSUME NEW m \in N, m \notin fit PROVE f[m] = f[next[m]]
  <2>0. m # NULL /\ cut[m] = next[m] BY <1>1, <1>4 DEF IsList
  <2>1. CASE next[m] = NULL
    <3>1. Ends(m) = {}
      <4> SUFFICES ASSUME NEW o \in Ends(m) PROVE FALSE OBVIOUS
      <4>1. o # m BY <1>4
      <4> QED BY <4>1, <2>0, <2>1, <1>1, ChainUnfolds
    <3> HIDE DEF Ends
    <3> QED BY <3>1, <2>1
  <2>2. CASE next[m] # NULL
    <3>0. next[m] \in N BY <2>2 DEF IsList
    <3>1. ASSUME NEW o \in Ends(m) PROVE o \in Ends(next[m])
      <4>1. o # m BY <1>4
      <4> QED BY <4>1, <2>0, <1>1, ChainUnfolds
    <3>2. ASSUME NEW o \in Ends(next[m]) PROVE o \in Ends(m)
      <4>1. m \in Chain(cut, m) BY <1>1, ChainStart
      <4>2. next[m] \in Chain(cut, m) BY <4>1, <2>0, <2>2, <1>1, ChainNext
      <4>3. o \in Chain(cut, m) BY <4>2, <1>1, ChainTail
      <4> QED BY <4>3
    <3>3. Ends(m) = Ends(next[m]) BY <3>1, <3>2
    <3> HIDE DEF Ends
    <3> QED BY <3>0, <3>3, <2>0, <2>2
  <2> QED BY <2>1, <2>2
<1>5. f[NULL] = NULL OBVIOUS
<1>6. DOMAIN f = N \cup {NULL} /\ f = [n \in N \cup {NULL} |-> f[n]] OBVIOUS
<1> HIDE DEF f
<1>7. f = [m \in N \cup {NULL} |-> IF m = NULL \/ m \in fit THEN m ELSE f[next[m]]]
  BY <1>3, <1>4, <1>5, <1>6
<1> QED BY <1>7 DEF Searches

\* A search that walks a chain without a cycle returns the first node that fits, with
\* all others that fit behind it, and NULL only when none does.
LEMMA SearchFinds ==
  ASSUME NEW next, IsList(next), Acyclic(next), NEW fit \in SUBSET DOMAIN next,
         NEW f, Searches(f, next, fit), NEW n \in DOMAIN next
  PROVE  IF f[n] = NULL THEN Chain(next, n) \cap fit = {}
         ELSE /\ f[n] \in Chain(next, n) \cap fit
              /\ \A o \in Chain(next, n) \cap fit : o \in Chain(next, f[n])
<1> DEFINE N == DOMAIN next
           Right(x) == IF f[x] = NULL THEN Chain(next, x) \cap fit = {}
                       ELSE /\ f[x] \in Chain(next, x) \cap fit
                            /\ \A o \in Chain(next, x) \cap fit : o \in Chain(next, f[x])
           B == {x \in N : ~Right(x)}
<1>0. /\ f[NULL] = NULL /\ NULL \notin N
      /\ \A x \in fit : f[x] = x /\ x # NULL
      /\ \A x \in N \ fit : f[x] = f[next[x]]
      /\ \A x \in N : next[x] # NULL => next[x] \in N
  BY DEF IsList, Searches
<1>1. ASSUME NEW x \in N, next[x] \notin B PROVE x \notin B
  <2>1. CASE x \in fit BY <2>1, <1>0, ChainStart
  <2>2. CASE x \notin fit /\ next[x] = NULL
    <3>1. f[x] = NULL BY <2>2, <1>0
    <3>2. Chain(next, x) \cap fit = {} BY <2>2, ChainUnfolds
    <3> QED BY <3>1, <3>2
  <2>3. CASE x \notin fit /\ next[x] # NULL
    <3>1. next[x] \in N /\ f[x] = f[next[x]] BY <2>3, <1>0
    <3>2. Right(next[x]) BY <3>1, <1>1
    <3>3. \A o \in Chain(next, x) \cap fit : o \in Chain(next, next[x])
      BY <2>3, ChainUnfolds
    <3>4. x \in Chain(next, x) BY ChainStart
    <3>5. next[x] \in Chain(next, x) BY <3>4, <2>3, ChainNext
    <3>6. \A o \in Chain(next, next[x]) : o \in Chain(next, x) BY <3>5, ChainTail
    <3> QED BY <3>1, <3>2, <3>3, <3>6
  <2> QED BY <2>1, <2>2, <2>3
<1>2. B = {}
  <2> HIDE DEF Right
  <2> SUFFICES ASSUME B # {} PROVE FALSE OBVIOUS
  <2>1. \E x \in B : next[x] \notin B BY DEF Acyclic
  <2> QED BY <2>1, <1>1
<1> QED BY <1>2

-----------------------------------------------------------------------------
(* Induction over numbers, by sets.                                        *)

\* A set with 0 that has the successor of each of its numbers has them all. Without
\* one, the successors of its numbers up to it are as many and leave out 0.
LEMMA SetInduction ==
  ASSUME NEW T, 0 \in T, \A n \in Nat : n \in T => n + 1 \in T
  PROVE  Nat \subseteq T
<1> SUFFICES ASSUME NEW x \in Nat, x \notin T PROVE FALSE OBVIOUS
<1> DEFINE U == {n \in 0..x : n \in T}
           f == [n \in U |-> n + 1]
<1>1. IsFiniteSet(U)
  <2>1. IsFiniteSet(0..x) BY FS_Interval
  <2> QED BY <2>1, FS_Subset
<1>2. f \in Injection(U, U \ {0})
  <2>1. \A n \in U : n + 1 \in U \ {0}
    <3> TAKE n \in U
    <3>1. n \in Nat /\ n # x /\ n + 1 \in T OBVIOUS
    <3> QED BY <3>1
  <2>2. f \in [U -> U \ {0}] BY <2>1
  <2>3. \A a, b \in U : f[a] = f[b] => a = b OBVIOUS
  <2> QED BY <2>2, <2>3 DEF Injection, IsInjective
<1>3. 0 \in U OBVIOUS
<1> HIDE DEF U
<1>4. /\ IsFiniteSet(U \ {0}) /\ Cardinality(U \ {0}) = Cardinality(U) - 1
      /\ Cardinality(U) \in Nat
  BY <1>1, <1>3, FS_RemoveElement, FS_CardinalityType
<1>5. Cardinality(U) <= Cardinality(U \ {0})
  BY <1>2, <1>4, FS_Injection
<1> QED BY <1>4, <1>5

\* A set of numbers that is not empty has a least one.
LEMMA Least ==
  ASSUME NEW T \in SUBSET Nat, T # {}
  PROVE  \E x \in T : \A y \in T : x <= y
<1> SUFFICES ASSUME \A x \in T : \E y \in T : y < x PROVE FALSE OBVIOUS
<1> DEFINE A == {n \in Nat : \A y \in T : y > n}
<1>1. 0 \in A
  <2> SUFFICES ASSUME NEW y \in T, y = 0 PROVE FALSE OBVIOUS
  <2> QED OBVIOUS
<1>2. ASSUME NEW n \in Nat, n \in A PROVE n + 1 \in A
  <2> SUFFICES ASSUME NEW y \in T, y <= n + 1 PROVE FALSE OBVIOUS
  <2>1. y = n + 1 BY <1>2
  <2>2. PICK z \in T : z < y OBVIOUS
  <2> QED BY <2>1, <2>2, <1>2
<1>3. Nat \subseteq A
  <2> HIDE DEF A
  <2> QED BY <1>1, <1>2, SetInduction
<1>4. PICK x \in T : TRUE OBVIOUS
<1>5. x \in A BY <1>3
<1> QED BY <1>5

\* A bounded set of numbers that is not empty has a greatest one.
LEMMA Greatest ==
  ASSUME NEW T \in SUBSET Nat, T # {}, NEW b \in Nat, \A x \in T : x <= b
  PROVE  \E x \in T : \A y \in T : y <= x
<1> DEFINE R == {n \in Nat : \A x \in T : x <= n}
<1>1. R # {} /\ R \in SUBSET Nat OBVIOUS
<1>2. PICK m \in R : \A n \in R : m <= n
  <2> HIDE DEF R
  <2> QED BY <1>1, Least
<1>3. m \in T
  <2> SUFFICES ASSUME m \notin T PROVE FALSE OBVIOUS
  <2>1. PICK x \in T : TRUE OBVIOUS
  <2>2. m - 1 \in R BY <2>1
  <2> QED BY <2>2, <1>2
<1> QED BY <1>3

\* f[n] is what n steps of g make of x.
Iterates(f, S, x, g) ==
  f \in [Nat -> S] /\ f[0] = x /\ \A n \in Nat : f[n + 1] = g[<<n, f[n]>>]

\* Every step has its iterates: a loop of the code is a function of the number of its
\* rounds.
LEMMA Iteration ==
  ASSUME NEW S, NEW x \in S, NEW g \in [Nat \X S -> S]
  PROVE  \E f : Iterates(f, S, x, g)
<1> DEFINE Upto(n, f) == /\ f \in [0..n -> S] /\ f[0] = x
                         /\ \A i \in 0..n : i < n => f[i + 1] = g[<<i, f[i]>>]
           T == {n \in Nat : \E f : Upto(n, f) /\ \A h : Upto(n, h) => h = f}
<1>0. ASSUME NEW n \in Nat, NEW h, Upto(n + 1, h) PROVE Upto(n, [i \in 0..n |-> h[i]])
  <2> DEFINE k == [i \in 0..n |-> h[i]]
  <2>1. \A i \in 0..n : i \in 0..(n + 1) /\ h[i] \in S BY <1>0
  <2>2. k \in [0..n -> S] BY <2>1
  <2>3. k[0] = x BY <1>0
  <2>4. \A i \in 0..n : i < n => k[i + 1] = g[<<i, k[i]>>] BY <1>0
  <2> QED BY <2>2, <2>3, <2>4
<1>1. 0 \in T
  <2> DEFINE f == [i \in 0..0 |-> x]
  <2>1. Upto(0, f) OBVIOUS
  <2>2. ASSUME NEW h, Upto(0, h) PROVE h = f
    <3>1. h \in [0..0 -> S] /\ h[0] = x BY <2>2
    <3>2. \A i \in 0..0 : h[i] = f[i] BY <3>1
    <3> QED BY <3>1, <3>2
  <2> QED BY <2>1, <2>2
<1>2. ASSUME NEW n \in Nat, n \in T PROVE n + 1 \in T
  <2>1. PICK f : Upto(n, f) /\ \A h : Upto(n, h) => h = f BY <1>2
  <2> DEFINE e == [i \in 0..(n + 1) |-> IF i = n + 1 THEN g[<<n, f[n]>>] ELSE f[i]]
  <2>2. Upto(n + 1, e)
    <3>1. f[n] \in S BY <2>1
    <3>2. g[<<n, f[n]>>] \in S BY <3>1
    <3>3. e \in [0..(n + 1) -> S] BY <2>1, <3>2
    <3>4. e[0] = x BY <2>1
    <3>5. ASSUME NEW i \in 0..(n + 1), i < n + 1 PROVE e[i + 1] = g[<<i, e[i]>>]
      <4>1. e[i] = f[i] /\ i + 1 \in 0..(n + 1) BY <3>5
      <4>2. CASE i = n BY <4>1, <4>2
      <4>3. CASE i < n
        <5>1. e[i + 1] = f[i + 1] BY <4>3, <4>1
        <5>2. f[i + 1] = g[<<i, f[i]>>] BY <2>1, <4>3
        <5> QED BY <5>1, <5>2, <4>1
      <4> QED BY <4>2, <4>3, <3>5
    <3> QED BY <3>3, <3>4, <3>5
  <2>3. ASSUME NEW h, Upto(n + 1, h) PROVE h = e
    <3> DEFINE k == [i \in 0..n |-> h[i]]
    <3>1. Upto(n, k) BY <2>3, <1>0
    <3>2. k = f BY <3>1, <2>1
    <3>3. \A i \in 0..n : k[i] = h[i] OBVIOUS
    <3> HIDE DEF k
    <3>4. \A i \in 0..n : h[i] = f[i] BY <3>2, <3>3
    <3>5. h[n + 1] = g[<<n, h[n]>>] BY <2>3
    <3>6. \A i \in 0..(n + 1) : h[i] = e[i] BY <3>4, <3>5
    <3> QED BY <3>6, <2>3, <2>2
  <2> HIDE DEF Upto, e
  <2>4. \E u : Upto(n + 1, u) /\ \A h : Upto(n + 1, h) => h = u BY <2>2, <2>3
  <2> QED BY <2>4
<1>3. Nat \subseteq T BY <1>1, <1>2, SetInduction
<1> DEFINE G == [n \in Nat |-> CHOOSE f : Upto(n, f)]
<1>4. \A n \in Nat : Upto(n, G[n]) /\ \A h : Upto(n, h) => h = G[n]
  <2> HIDE DEF Upto
  <2> QED BY <1>3
<1> HIDE DEF G
<1> DEFINE F == [n \in Nat |-> G[n][n]]
<1>5. F \in [Nat -> S] BY <1>4
<1>6. F[0] = x BY <1>4
<1>7. ASSUME NEW n \in Nat PROVE F[n + 1] = g[<<n, F[n]>>]
  <2>1. n + 1 \in Nat /\ Upto(n + 1, G[n + 1]) BY <1>4
  <2> DEFINE k == [i \in 0..n |-> G[n + 1][i]]
  <2>2. Upto(n, k) BY <2>1, <1>0
  <2>3. k = G[n]
    <3> HIDE DEF Upto, k
    <3> QED BY <2>2, <1>4
  <2>4. G[n][n] = G[n + 1][n] BY <2>3
  <2>5. G[n + 1][n + 1] = g[<<n, G[n + 1][n]>>] BY <2>1
  <2> QED BY <2>1, <2>4, <2>5
<1> QED BY <1>5, <1>6, <1>7 DEF Iterates
=============================================================================
