----------------------------- MODULE LpegProofs -----------------------------
(***************************************************************************)
(* For every subject, and for every code that has a typing, the assertions *)
(* of the matching machine hold and its captures are in order.             *)
(***************************************************************************)
EXTENDS LpegInv, FiniteSetTheorems, WellFoundedInduction, TLAPS

-----------------------------------------------------------------------------
(* Counting captures.                                                      *)

\* One more number counts at most once.
LEMMA CountStep ==
  ASSUME NEW S, NEW k \in Nat
  PROVE  /\ IsFiniteSet(S \cap 1..k) /\ Cardinality(S \cap 1..k) \in Nat
         /\ Cardinality(S \cap 1..k + 1) =
              Cardinality(S \cap 1..k) + IF k + 1 \in S THEN 1 ELSE 0
<1>1. IsFiniteSet(1..k) BY FS_Interval
<1>2. IsFiniteSet(S \cap 1..k) BY <1>1, FS_Intersection
<1>3. Cardinality(S \cap 1..k) \in Nat BY <1>2, FS_CardinalityType
<1>4. CASE k + 1 \in S
  <2>1. S \cap 1..k + 1 = (S \cap 1..k) \cup {k + 1} BY <1>4
  <2>2. k + 1 \notin S \cap 1..k OBVIOUS
  <2> QED BY <1>2, <1>3, <2>1, <2>2, <1>4, FS_AddElement
<1>5. CASE k + 1 \notin S
  <2>1. S \cap 1..k + 1 = S \cap 1..k BY <1>5
  <2> QED BY <1>2, <1>3, <2>1, <1>5
<1> QED BY <1>4, <1>5

\* How many captures are open after one more of them.
LEMMA OpenStep ==
  ASSUME NEW caps, NEW n \in Nat, DOMAIN caps = 1..n, NEW k \in 0..n - 1
  PROVE  /\ Open(caps, k) \in Int
         /\ Open(caps, k + 1) = Open(caps, k) + (IF caps[k + 1].siz = 0 THEN 1 ELSE 0)
                                              - (IF isclosecap(caps[k + 1]) THEN 1 ELSE 0)
<1>1. k \in Nat /\ k + 1 \in DOMAIN caps OBVIOUS
<1>2. k + 1 \in Opens(caps) <=> caps[k + 1].siz = 0 BY <1>1 DEF Opens
<1>3. k + 1 \in Closes(caps) <=> isclosecap(caps[k + 1]) BY <1>1 DEF Closes
<1> DEFINE o == Cardinality(Opens(caps) \cap 1..k)
           o1 == Cardinality(Opens(caps) \cap 1..k + 1)
           c == Cardinality(Closes(caps) \cap 1..k)
           c1 == Cardinality(Closes(caps) \cap 1..k + 1)
<1>4. o \in Nat /\ o1 = o + IF caps[k + 1].siz = 0 THEN 1 ELSE 0 BY <1>1, <1>2, CountStep
<1>5. c \in Nat /\ c1 = c + IF isclosecap(caps[k + 1]) THEN 1 ELSE 0 BY <1>1, <1>3, CountStep
<1>6. Open(caps, k) = o - c /\ Open(caps, k + 1) = o1 - c1 BY DEF Open
<1> HIDE DEF o, o1, c, c1
<1> QED BY <1>4, <1>5, <1>6

LEMMA OpenLast ==
  ASSUME NEW caps, NEW n \in Nat, DOMAIN caps = 1..n, NEW k \in 1..n
  PROVE  /\ Open(caps, k) \in Int /\ Open(caps, k - 1) \in Int
         /\ Open(caps, k) = Open(caps, k - 1) + (IF caps[k].siz = 0 THEN 1 ELSE 0)
                                              - (IF isclosecap(caps[k]) THEN 1 ELSE 0)
<1> DEFINE j == k - 1
<1>1. j \in 0..n - 1 /\ j + 1 = k OBVIOUS
<1> HIDE DEF j
<1>2. Open(caps, j) \in Int BY <1>1, OpenStep
<1>3. Open(caps, j + 1) = Open(caps, j) + (IF caps[j + 1].siz = 0 THEN 1 ELSE 0)
                                        - (IF isclosecap(caps[j + 1]) THEN 1 ELSE 0)
  BY <1>1, OpenStep
<1>4. Open(caps, k) = Open(caps, j) + (IF caps[k].siz = 0 THEN 1 ELSE 0)
                                    - (IF isclosecap(caps[k]) THEN 1 ELSE 0)
  BY <1>1, <1>3
<1> QED BY <1>2, <1>4 DEF j

\* Nothing is open before the first capture.
LEMMA OpenNone ==
  ASSUME NEW caps
  PROVE  Open(caps, 0) = 0
<1>1. Opens(caps) \cap 1..0 = {} /\ Closes(caps) \cap 1..0 = {} OBVIOUS
<1>2. Cardinality({}) = 0 BY FS_EmptySet
<1> QED BY <1>1, <1>2 DEF Open

\* What a list of captures is made of.
LEMMA CaptureType ==
  ASSUME NEW caps, CapturesOK(caps)
  PROVE  /\ Len(caps) \in Nat /\ DOMAIN caps = 1..Len(caps)
         /\ \A k \in 1..Len(caps) :
              /\ caps[k] \in [s : Nat \ {0}, idx : Int, kind : STRING, siz : Nat]
              /\ caps[k].s \in Nat \ {0} /\ caps[k].siz \in Nat /\ closeaddr(caps[k]) \in Int
<1>1. Len(caps) \in Nat /\ DOMAIN caps = 1..Len(caps) BY DEF CapturesOK
<1>2. ASSUME NEW k \in 1..Len(caps)
      PROVE  caps[k] \in [s : Nat \ {0}, idx : Int, kind : STRING, siz : Nat]
  <2> DEFINE C == [s : Nat \ {0}, idx : Int, kind : STRING, siz : Nat]
  <2>1. caps \in Seq(C) BY DEF CapturesOK
  <2> HIDE DEF C
  <2>2. caps[k] \in C BY <2>1, <1>1
  <2> QED BY <2>2 DEF C
<1>3. ASSUME NEW k \in 1..Len(caps)
      PROVE  caps[k].s \in Nat \ {0} /\ caps[k].siz \in Nat /\ closeaddr(caps[k]) \in Int
  BY <1>2 DEF closeaddr
<1> QED BY <1>1, <1>2, <1>3

\* The captures after the first k do not count.
LEMMA OpenSame ==
  ASSUME NEW caps, NEW caps2, NEW n \in Nat, DOMAIN caps = 1..n, NEW n2 \in Nat, DOMAIN caps2 = 1..n2,
         NEW k \in Nat, k <= n, k <= n2, \A i \in 1..k : caps2[i] = caps[i]
  PROVE  Open(caps2, k) = Open(caps, k)
<1>1. Opens(caps2) \cap 1..k = Opens(caps) \cap 1..k BY DEF Opens
<1>2. Closes(caps2) \cap 1..k = Closes(caps) \cap 1..k BY DEF Closes
<1> QED BY <1>1, <1>2 DEF Open

-----------------------------------------------------------------------------
(* Typings.                                                                *)

\* What the levels of the stack need of a typing.
IsTyping(at) ==
  /\ DOMAIN at \subseteq Nat /\ \A i \in DOMAIN at : IsWhere(at[i])
  /\ 0 \in DOMAIN at /\ at[0] = Where(TRUE, <<>>, 0, 0)
  /\ \A i \in DOMAIN at \ {0} : Within(at, at[i])

\* The last of a sequence, and the others (SequencesExt).
LEMMA LastFront ==
  ASSUME NEW S, NEW sq \in Seq(S), NEW x \in S
  PROVE  /\ Append(sq, x) \in Seq(S) /\ Append(sq, x) # <<>>
         /\ Last(Append(sq, x)) = x /\ Front(Append(sq, x)) = sq
<1>1. Append(sq, x) \in Seq(S) /\ Len(Append(sq, x)) = Len(sq) + 1 /\ Len(sq) \in Nat OBVIOUS
<1>2. Append(sq, x)[Len(sq) + 1] = x OBVIOUS
<1>3. Append(sq, x) # <<>> BY <1>1
<1>4. Last(Append(sq, x)) = x BY <1>1, <1>2 DEF Last
<1>5. Front(Append(sq, x)) = sq BY <1>1 DEF Front
<1> QED BY <1>1, <1>3, <1>4, <1>5

\* A pending choice goes on where no more captures are open.
LEMMA OpenBeforeLeast ==
  ASSUME NEW at, IsTyping(at), NEW q \in DOMAIN at
  PROVE  OpenBefore(at, at[q]) \in Nat /\ OpenBefore(at, at[q]) <= at[q].open
<1>1. IsWhere(at[q]) BY DEF IsTyping
<1>2. CASE at[q].pend = <<>> BY <1>1, <1>2 DEF OpenBefore, IsWhere
<1>3. CASE at[q].pend # <<>>
  <2>1. q # 0 BY <1>3 DEF IsTyping, Where
  <2>2. Within(at, at[q]) BY <2>1 DEF IsTyping
  <2> DEFINE o == Last(at[q].pend)
  <2>3. o \in DOMAIN at /\ at[o].open <= at[q].open BY <2>2, <1>3 DEF Within
  <2>4. IsWhere(at[o]) BY <2>3 DEF IsTyping
  <2> QED BY <2>3, <2>4, <1>3 DEF OpenBefore, IsWhere
<1> QED BY <1>2, <1>3

-----------------------------------------------------------------------------
(* The levels of the stack.                                                *)

\* One level after the other.
LEMMA FitsTop ==
  ASSUME NEW at, NEW end, NEW w, NEW caps, NEW base, NEW n \in Nat \ {0},
         Fits(at, end, w, caps, base, n - 1), LevelOK(at, end, w, caps, base, n)
  PROVE  Fits(at, end, w, caps, base, n)
<1> SUFFICES ASSUME NEW i \in 1..n PROVE LevelOK(at, end, w, caps, base, i) BY DEF Fits
<1>1. i # n => i \in 1..n - 1 OBVIOUS
<1> QED BY <1>1 DEF Fits

\* What a level says depends on the levels up to it and on the captures it keeps.
LEMMA Kept ==
  ASSUME NEW at, NEW end, NEW w, NEW w2, NEW caps, NEW caps2, NEW base, NEW base2,
         NEW m \in Nat, NEW k \in Nat, k <= Len(caps), k <= Len(caps2), CapturesOK(caps), CapturesOK(caps2),
         \A i \in 1..k : caps2[i] = caps[i],
         \A i \in 1..m : w2[i] = w[i] /\ base2[i] = base[i],
         \A i \in 1..m : w[i].s # NULL => w[i].caplevel <= k,
         Fits(at, end, w, caps, base, m)
  PROVE  Fits(at, end, w2, caps2, base2, m)
<1> SUFFICES ASSUME NEW i \in 1..m PROVE LevelOK(at, end, w2, caps2, base2, i) BY DEF Fits
<1>1. LevelOK(at, end, w, caps, base, i) BY DEF Fits
<1>2. w2[i] = w[i] /\ base2[i] = base[i] OBVIOUS
<1>3. i > 1 => w2[i - 1] = w[i - 1] /\ base2[i - 1] = base[i - 1]
  <2> SUFFICES ASSUME i > 1 PROVE w2[i - 1] = w[i - 1] /\ base2[i - 1] = base[i - 1] OBVIOUS
  <2>1. i - 1 \in 1..m OBVIOUS
  <2> QED BY <2>1
<1>4. Linked(at, w2, i) BY <1>1, <1>2, <1>3 DEF LevelOK, Linked
<1>5. Based(at, w2, base2, i) BY <1>1, <1>2, <1>3 DEF LevelOK, Based
<1>6. ASSUME NEW j \in 1..i - 1 PROVE Above(at, w2, base2, j, i)
  <2>1. j \in 1..m OBVIOUS
  <2>2. w2[j] = w[j] /\ base2[j] = base[j] BY <2>1
  <2>3. Above(at, w, base, j, i) BY <1>1 DEF LevelOK
  <2> QED BY <2>2, <2>3, <1>2 DEF Above
<1>7. ASSUME w2[i].s # NULL
      PROVE  Keeps(at, end, w2, caps2, i) /\ Open(caps2, w2[i].caplevel) = base2[i] + at[w2[i].p].open
  <2>1. Keeps(at, end, w, caps, i) /\ Open(caps, w[i].caplevel) = base[i] + at[w[i].p].open
    BY <1>1, <1>2, <1>7 DEF LevelOK
  <2> DEFINE l == w[i].caplevel
  <2>2. l \in Nat /\ l <= k /\ Len(caps) \in Nat /\ Len(caps2) \in Nat BY <2>1, <1>2, <1>7 DEF Keeps, CapturesOK
  <2>3. DOMAIN caps = 1..Len(caps) /\ DOMAIN caps2 = 1..Len(caps2) BY DEF CapturesOK
  <2>4. \A j \in 1..l : caps2[j] = caps[j] BY <2>2
  <2>5. Open(caps2, l) = Open(caps, l)
    <3>1. l <= Len(caps) /\ l <= Len(caps2) BY <2>2
    <3> HIDE DEF l
    <3> QED BY <2>2, <2>3, <2>4, <3>1, OpenSame
  <2>6. Keeps(at, end, w2, caps2, i) BY <2>1, <2>2, <2>4, <1>2 DEF Keeps
  <2> QED BY <2>1, <2>5, <2>6, <1>2
<1> QED BY <1>1, <1>2, <1>4, <1>5, <1>6, <1>7 DEF LevelOK

\* The captures that the choices below a choice keep are among the ones it keeps.
LEMMA KeptBelow ==
  ASSUME NEW at, NEW end, NEW w, NEW caps, NEW base, NEW n \in Nat \ {0},
         Fits(at, end, w, caps, base, n), w[n].s # NULL
  PROVE  /\ w[n].caplevel \in 0..Len(caps)
         /\ \A i \in 1..n : w[i].s # NULL => w[i].caplevel <= w[n].caplevel
<1>1. LevelOK(at, end, w, caps, base, n) BY DEF Fits
<1>2. w[n].caplevel \in 0..Len(caps) BY <1>1 DEF LevelOK, Keeps
<1>3. ASSUME NEW i \in 1..n, w[i].s # NULL PROVE w[i].caplevel <= w[n].caplevel
  <2>1. CASE i = n BY <1>2, <2>1
  <2>2. CASE i # n
    <3>1. i \in 1..n - 1 BY <2>2
    <3>2. Above(at, w, base, i, n) BY <1>1, <3>1 DEF LevelOK
    <3> QED BY <3>2, <1>3 DEF Above
  <2> QED BY <2>1, <2>2
<1> QED BY <1>2, <1>3

\* The first captures of a list are a list.
LEMMA CutCaptures ==
  ASSUME NEW caps, CapturesOK(caps), NEW k \in 0..Len(caps)
  PROVE  /\ CapturesOK(SubSeq(caps, 1, k)) /\ Len(SubSeq(caps, 1, k)) = k
         /\ \A i \in 1..k : SubSeq(caps, 1, k)[i] = caps[i]
<1> DEFINE C == [s : Nat \ {0}, idx : Int, kind : STRING, siz : Nat]
           cut == SubSeq(caps, 1, k)
<1>1. caps \in Seq(C) /\ Len(caps) \in Nat /\ DOMAIN caps = 1..Len(caps) BY DEF CapturesOK
<1>2. cut \in Seq(C) /\ Len(cut) = k /\ \A i \in 1..k : cut[i] = caps[i]
  <2> HIDE DEF C
  <2> QED BY <1>1
<1> HIDE DEF cut
<1>3. DOMAIN cut = 1..k /\ 1..k \subseteq DOMAIN caps BY <1>1, <1>2
<1>4. \A i \in 1..k : i > 1 => cut[i - 1].s <= cut[i].s
  <2> SUFFICES ASSUME NEW i \in 1..k, i > 1 PROVE cut[i - 1].s <= cut[i].s OBVIOUS
  <2>1. i - 1 \in 1..k /\ i \in DOMAIN caps BY <1>3
  <2> QED BY <2>1, <1>2 DEF CapturesOK
<1>5. \A i \in 1..k : Open(cut, i) >= 0
  <2> SUFFICES ASSUME NEW i \in 1..k PROVE Open(cut, i) >= 0 OBVIOUS
  <2>1. /\ i \in Nat /\ k \in Nat /\ Len(caps) \in Nat /\ i <= k /\ i <= Len(caps)
        /\ DOMAIN caps = 1..Len(caps) /\ DOMAIN cut = 1..k
    BY <1>1, <1>3
  <2>0. \A j \in 1..i : cut[j] = caps[j] BY <1>2
  <2>2. Open(cut, i) = Open(caps, i)
    <3> HIDE DEF C
    <3> QED BY <2>0, <2>1, OpenSame
  <2>3. i \in DOMAIN caps BY <1>3
  <2> QED BY <2>2, <2>3 DEF CapturesOK
<1> QED BY <1>2, <1>3, <1>4, <1>5 DEF CapturesOK, cut

\* A failure comes back to a level (lpeg.c:526).
LEMMA Truncated ==
  ASSUME NEW at, NEW end, NEW w, NEW w2, NEW caps, NEW base, NEW n \in Nat, CapturesOK(caps),
         Fits(at, end, w, caps, base, n), NEW i \in 1..n, w[i].s # NULL,
         \A j \in 1..i : w2[j] = w[j]
  PROVE  LET cut == SubSeq(caps, 1, w[i].caplevel)
         IN  CapturesOK(cut) /\ Len(cut) = w[i].caplevel /\ Fits(at, end, w2, cut, base, i)
<1> DEFINE k == w[i].caplevel
           cut == SubSeq(caps, 1, k)
<1>1. Fits(at, end, w, caps, base, i)
  <2>1. 1..i \subseteq 1..n OBVIOUS
  <2> QED BY <2>1 DEF Fits
<1>2. k \in 0..Len(caps) /\ \A j \in 1..i : w[j].s # NULL => w[j].caplevel <= k
  <2>1. i \in Nat \ {0} OBVIOUS
  <2> QED BY <1>1, <2>1, KeptBelow
<1> HIDE DEF k
<1>3. CapturesOK(cut) /\ Len(cut) = k /\ \A j \in 1..k : cut[j] = caps[j] BY <1>2, CutCaptures
<1>4. k \in Nat /\ k <= Len(caps) /\ i \in Nat BY <1>2 DEF CapturesOK
<1> HIDE DEF cut
<1>5. Fits(at, end, w2, cut, base, i)
  <2>1. k <= Len(cut) BY <1>3, <1>4
  <2> QED BY <1>1, <1>2, <1>3, <1>4, <2>1, Kept
<1> QED BY <1>3, <1>5 DEF cut, k

\* The same, of the levels themselves.
LEMMA BackTo ==
  ASSUME NEW at, NEW end, NEW w, NEW caps, NEW base, NEW n \in Nat, CapturesOK(caps),
         Fits(at, end, w, caps, base, n), NEW i \in 1..n, w[i].s # NULL
  PROVE  LET cut == SubSeq(caps, 1, w[i].caplevel)
         IN  CapturesOK(cut) /\ Len(cut) = w[i].caplevel /\ Fits(at, end, w, cut, base, i)
<1> DEFINE w2 == [j \in 1..i |-> w[j]]
           cut == SubSeq(caps, 1, w[i].caplevel)
<1>1. \A j \in 1..i : w2[j] = w[j] OBVIOUS
<1> HIDE DEF w2, cut
<1>2. CapturesOK(cut) /\ Len(cut) = w[i].caplevel /\ Fits(at, end, w2, cut, base, i)
  BY <1>1, Truncated DEF cut
<1>3. LevelOK(at, end, w2, cut, base, i) BY <1>2 DEF Fits
<1>4. w2[i].caplevel = w[i].caplevel /\ w2[i].s # NULL /\ i \in Nat \ {0} BY <1>1
<1>5. \A j \in 1..i : w2[j].s # NULL => w2[j].caplevel <= Len(cut)
  BY <1>2, <1>4, KeptBelow
<1>6. Len(cut) \in Nat /\ Len(cut) <= Len(cut) BY <1>2, CaptureType
<1>7. Fits(at, end, w, cut, base, i) BY <1>1, <1>2, <1>4, <1>5, <1>6, Kept
<1> QED BY <1>2, <1>7 DEF cut

\* A level goes on at another address and position.
LEMMA Retyped ==
  ASSUME NEW at, NEW end, NEW w, NEW w2, NEW caps, NEW caps2, NEW base, NEW base2, NEW n \in Nat \ {0},
         LevelOK(at, end, w, caps, base, n), w[n].s # NULL,
         \A i \in 1..n - 1 : w2[i] = w[i] /\ base2[i] = base[i], base2[n] = base[n],
         NEW p2 \in DOMAIN at, NEW s2 \in at[p2].since + 1..end, NEW l2 \in 0..Len(caps2), IsTyping(at),
         w2[n] = [s |-> s2, p |-> p2, caplevel |-> l2],
         at[p2].main = at[w[n].p].main, at[p2].pend = at[w[n].p].pend,
         w[n].caplevel <= l2,
         \A k \in 1..l2 : caps2[k].s <= s2 - at[p2].since /\ closeaddr(caps2[k]) <= s2 - at[p2].since,
         Open(caps2, l2) = base[n] + at[p2].open,
         w[n].caplevel \in Nat, \A i \in 1..n - 1 : w[i].s # NULL => w[i].caplevel \in Nat
  PROVE  LevelOK(at, end, w2, caps2, base2, n)
<1>1. s2 \in Nat /\ s2 # NULL BY DEF IsTyping, IsWhere, NULL
<1>2. w2[n].s = s2 /\ w2[n].p = p2 /\ w2[n].caplevel = l2 OBVIOUS
<1>3. n > 1 => w2[n - 1] = w[n - 1] /\ base2[n - 1] = base[n - 1]
  <2> SUFFICES ASSUME n > 1 PROVE w2[n - 1] = w[n - 1] /\ base2[n - 1] = base[n - 1] OBVIOUS
  <2>1. n - 1 \in 1..n - 1 OBVIOUS
  <2> QED BY <2>1
<1>4. Linked(at, w2, n) BY <1>2, <1>3 DEF LevelOK, Linked
<1>5. Based(at, w2, base2, n) BY <1>3 DEF LevelOK, Based
<1>6. Keeps(at, end, w2, caps2, n) BY <1>2 DEF Keeps
<1>7. ASSUME NEW i \in 1..n - 1 PROVE Above(at, w2, base2, i, n)
  <2>1. Above(at, w, base, i, n) BY DEF LevelOK
  <2>2. w2[i] = w[i] /\ base2[i] = base[i] BY <1>7
  <2>3. OpenBefore(at, at[p2]) = OpenBefore(at, at[w[n].p]) BY DEF OpenBefore
  <2> SUFFICES ASSUME w[i].s # NULL PROVE Above(at, w2, base2, i, n) BY <2>2 DEF Above
  <2>4. w[i].caplevel <= l2 BY <2>1 DEF Above
  <2> QED BY <2>1, <2>2, <2>3, <2>4, <1>2 DEF Above
<1> QED BY <1>1, <1>2, <1>4, <1>5, <1>6, <1>7 DEF LevelOK

\* The current level moves on: the machine goes on at another address with the same
\* stack and the same captures.
LEMMA Moved ==
  ASSUME NEW at, NEW end, NEW w, NEW w2, NEW caps, NEW base, NEW n \in Nat \ {0}, CapturesOK(caps),
         Fits(at, end, w, caps, base, n), w[n].s # NULL, w[n].s \in Int,
         IsTyping(at), end \in Int,
         \A i \in 1..n - 1 : w2[i] = w[i],
         NEW p2 \in DOMAIN at, NEW s2 \in at[p2].since + 1..end,
         w2[n] = [s |-> s2, p |-> p2, caplevel |-> w[n].caplevel],
         at[p2].main = at[w[n].p].main, at[p2].pend = at[w[n].p].pend, at[p2].open = at[w[n].p].open,
         w[n].s - at[w[n].p].since <= s2 - at[p2].since
  PROVE  Fits(at, end, w2, caps, base, n)
<1> DEFINE l == w[n].caplevel
<1>1. LevelOK(at, end, w, caps, base, n) BY DEF Fits
<1>2. l \in 0..Len(caps) /\ \A i \in 1..n : w[i].s # NULL => w[i].caplevel <= l BY KeptBelow
<1>3. Len(caps) \in Nat /\ DOMAIN caps = 1..Len(caps) BY DEF CapturesOK
<1>4. Fits(at, end, w2, caps, base, n - 1)
  <2>1. Fits(at, end, w, caps, base, n - 1) BY DEF Fits
  <2>2. n - 1 \in Nat /\ l \in Nat /\ l <= Len(caps) BY <1>2, <1>3
  <2>3. \A i \in 1..n - 1 : w[i].s # NULL => w[i].caplevel <= l BY <1>2
  <2> HIDE DEF l
  <2> QED BY <2>1, <2>2, <2>3, Kept
<1>5. \A k \in 1..l : caps[k].s <= s2 - at[p2].since /\ closeaddr(caps[k]) <= s2 - at[p2].since
  <2> SUFFICES ASSUME NEW k \in 1..l
               PROVE  caps[k].s <= s2 - at[p2].since /\ closeaddr(caps[k]) <= s2 - at[p2].since
    OBVIOUS
  <2>1. caps[k].s <= w[n].s - at[w[n].p].since /\ closeaddr(caps[k]) <= w[n].s - at[w[n].p].since
    BY <1>1 DEF LevelOK, Keeps
  <2>2. k \in 1..Len(caps) BY <1>2, <1>3
  <2>3. caps[k].s \in Int /\ closeaddr(caps[k]) \in Int BY <2>2, CaptureType
  <2>4. at[w[n].p].since \in Int /\ at[p2].since \in Int /\ s2 \in Int
    <3>1. w[n].p \in DOMAIN at BY <1>1 DEF LevelOK
    <3>2. IsWhere(at[w[n].p]) /\ IsWhere(at[p2]) BY <3>1 DEF IsTyping
    <3>3. at[w[n].p].since \in Nat /\ at[p2].since \in Nat BY <3>2 DEF IsWhere
    <3> QED BY <3>3
  <2> QED BY <2>1, <2>3, <2>4
<1>6. Open(caps, l) = base[n] + at[p2].open BY <1>1 DEF LevelOK
<1>7. LevelOK(at, end, w2, caps, base, n)
  <2>1. \A i \in 1..n - 1 : w[i].s # NULL => w[i].caplevel \in Nat
    <3> SUFFICES ASSUME NEW i \in 1..n - 1, w[i].s # NULL PROVE w[i].caplevel \in Nat BY <1>2, <1>3
    <3>1. LevelOK(at, end, w, caps, base, i) BY DEF Fits
    <3> QED BY <3>1, <1>3 DEF LevelOK, Keeps
  <2>2. l \in Nat /\ l <= l BY <1>2, <1>3
  <2> QED BY <1>1, <1>2, <1>5, <1>6, <2>1, <2>2, Retyped
<1> QED BY <1>4, <1>7, FitsTop

\* A choice has no captures open that a level above it does not have.
LEMMA OpenBelow ==
  ASSUME NEW at, NEW end, NEW w, NEW caps, NEW base, NEW n \in Nat \ {0}, IsTyping(at),
         Fits(at, end, w, caps, base, n), NEW i \in 1..n, w[i].s # NULL
  PROVE  base[i] + at[w[i].p].open <= base[n] + at[w[n].p].open
<1>1. LevelOK(at, end, w, caps, base, i) /\ LevelOK(at, end, w, caps, base, n) BY DEF Fits
<1>2. /\ w[i].p \in DOMAIN at /\ w[n].p \in DOMAIN at
      /\ base[i] \in Nat /\ base[n] \in Nat
  BY <1>1 DEF LevelOK
<1>3. at[w[i].p].open \in Nat /\ at[w[n].p].open \in Nat BY <1>2 DEF IsTyping, IsWhere
<1>4. CASE i = n BY <1>2, <1>3, <1>4
<1>5. CASE i # n
  <2>1. i \in 1..n - 1 BY <1>5
  <2>2. Above(at, w, base, i, n) BY <2>1, <1>1 DEF LevelOK
  <2>3. base[i] + at[w[i].p].open <= base[n] + OpenBefore(at, at[w[n].p]) BY <2>2 DEF Above
  <2>4. OpenBefore(at, at[w[n].p]) <= at[w[n].p].open /\ OpenBefore(at, at[w[n].p]) \in Nat
    BY <1>2, OpenBeforeLeast
  <2> QED BY <2>3, <2>4, <1>2, <1>3
<1> QED BY <1>4, <1>5

\* A level is pushed on a choice (lpeg.c:483).
LEMMA OnChoice ==
  ASSUME NEW at, NEW end, NEW w, NEW caps, NEW base, NEW n \in Nat \ {0}, CapturesOK(caps),
         Fits(at, end, w, caps, base, n), w[n].s # NULL,
         IsTyping(at), end \in Int,
         NEW p2 \in DOMAIN at, NEW s2 \in at[p2].since + 1..end,
         w[n + 1] = [s |-> s2, p |-> p2, caplevel |-> w[n].caplevel],
         at[p2].main = at[w[n].p].main, at[p2].pend = Append(at[w[n].p].pend, w[n].p),
         at[p2].open = at[w[n].p].open,
         \A k \in 1..w[n].caplevel :
           caps[k].s <= s2 - at[p2].since /\ closeaddr(caps[k]) <= s2 - at[p2].since
  PROVE  \E base2 : Fits(at, end, w, caps, base2, n + 1)
<1> DEFINE base2 == [i \in 1..n + 1 |-> IF i = n + 1 THEN base[n] ELSE base[i]]
           l == w[n].caplevel
           q == w[n].p
<1>1. LevelOK(at, end, w, caps, base, n) BY DEF Fits
<1>2. l \in 0..Len(caps) /\ \A i \in 1..n : w[i].s # NULL => w[i].caplevel <= l BY KeptBelow
<1>3. Len(caps) \in Nat /\ DOMAIN caps = 1..Len(caps) BY DEF CapturesOK
<1>4. base2[n + 1] = base[n] /\ \A i \in 1..n : base2[i] = base[i] OBVIOUS
<1>5. s2 \in Nat /\ s2 # NULL
  <2>1. IsWhere(at[p2]) BY DEF IsTyping
  <2>2. at[p2].since \in Nat BY <2>1 DEF IsWhere
  <2> QED BY <2>2 DEF NULL
<1>6. w[n + 1].s = s2 /\ w[n + 1].p = p2 /\ w[n + 1].caplevel = l OBVIOUS
<1>7. at[q].pend \in Seq(Nat) /\ q \in DOMAIN at /\ q \in Nat BY <1>1 DEF LevelOK, IsTyping, IsWhere
<1>8. at[p2].pend # <<>> /\ Last(at[p2].pend) = q
  <2> HIDE DEF q
  <2>1. at[p2].pend = Append(at[q].pend, q) BY DEF q
  <2> QED BY <1>7, <2>1, LastFront
<1> HIDE DEF base2, l, q
<1>9. Fits(at, end, w, caps, base2, n)
  <2>1. l \in Nat /\ l <= Len(caps) BY <1>2, <1>3
  <2> QED BY <1>2, <1>4, <2>1, Kept
<1>10. LevelOK(at, end, w, caps, base2, n + 1)
  <2>1. Linked(at, w, n + 1)
    <3>1. n + 1 > 1 /\ (n + 1) - 1 = n OBVIOUS
    <3> QED BY <3>1, <1>6, <1>8 DEF Linked, q
  <2>2. Based(at, w, base2, n + 1)
    <3>1. n + 1 # 1 /\ (n + 1) - 1 = n /\ n \in 1..n OBVIOUS
    <3> QED BY <3>1, <1>4 DEF Based
  <2>3. Keeps(at, end, w, caps, n + 1) BY <1>2, <1>6 DEF Keeps, l
  <2>4. Open(caps, l) = base[n] + at[p2].open BY <1>1 DEF LevelOK, l, q
  <2>5. OpenBefore(at, at[p2]) = at[q].open BY <1>8 DEF OpenBefore
  <2>6. ASSUME NEW i \in 1..n PROVE Above(at, w, base2, i, n + 1)
    <3> SUFFICES ASSUME w[i].s # NULL PROVE Above(at, w, base2, i, n + 1) BY DEF Above
    <3>1. base[i] + at[w[i].p].open <= base[n] + at[q].open BY OpenBelow DEF q
    <3> QED BY <3>1, <2>5, <1>2, <1>4, <1>6 DEF Above
  <2>7. w[n + 1].p \in DOMAIN at /\ w[n + 1].s \in Nat /\ base2[n + 1] \in Nat
    BY <1>1, <1>4, <1>5, <1>6 DEF LevelOK
  <2>8. \A i \in 1..(n + 1) - 1 : Above(at, w, base2, i, n + 1) BY <2>6
  <2> QED BY <1>4, <1>5, <1>6, <2>1, <2>2, <2>3, <2>4, <2>7, <2>8 DEF LevelOK
<1> QED
  <2>1. n + 1 \in Nat \ {0} /\ (n + 1) - 1 = n OBVIOUS
  <2> QED BY <1>9, <1>10, <2>1, FitsTop

\* Only the level that gives up is the first one.
LEMMA NotFirst ==
  ASSUME NEW at, NEW end, NEW w, NEW caps, NEW base, NEW n \in Nat \ {0}, IsTyping(at),
         LevelOK(at, end, w, caps, base, n)
  PROVE  w[n].p # 0 <=> n > 1
<1> DEFINE x == at[w[n].p]
<1>1. w[n].p \in DOMAIN at /\ Linked(at, w, n) BY DEF LevelOK
<1>2. CASE w[n].p = 0
  <2>1. x.main /\ x.pend = <<>> BY <1>2 DEF IsTyping, Where
  <2> QED BY <2>1, <1>1, <1>2 DEF Linked
<1>3. CASE w[n].p # 0
  <2>1. x.main => x.pend # <<>> BY <1>1, <1>3 DEF IsTyping, Within
  <2>2. x.main \in BOOLEAN BY <1>1 DEF IsTyping, IsWhere
  <2> QED BY <2>1, <2>2, <1>1, <1>3 DEF Linked
<1> QED BY <1>2, <1>3

\* A call is pushed: the machine goes on in a rule, with no captures open (lpeg.c:493).
LEMMA OnCall ==
  ASSUME NEW at, NEW end, NEW w, NEW w2, NEW caps, NEW base, NEW n \in Nat \ {0}, CapturesOK(caps),
         Fits(at, end, w, caps, base, n), w[n].s # NULL, w[n].p # 0,
         IsTyping(at), end \in Int,
         \A i \in 1..n - 1 : w2[i] = w[i],
         NEW q \in DOMAIN at, NEW p2 \in DOMAIN at,
         w2[n] = [s |-> NULL, p |-> q, caplevel |-> 0],
         w2[n + 1] = [s |-> w[n].s, p |-> p2, caplevel |-> w[n].caplevel],
         at[q].main = at[w[n].p].main, at[q].pend = at[w[n].p].pend, at[q].open = at[w[n].p].open,
         at[q].since = 0, ~at[p2].main, at[p2].pend = <<>>, at[p2].open = 0, at[p2].since <= at[w[n].p].since
  PROVE  \E base2 : Fits(at, end, w2, caps, base2, n + 1)
<1> DEFINE base2 == [i \in 1..n + 1 |-> IF i = n + 1 THEN base[n] + at[q].open ELSE base[i]]
           l == w[n].caplevel
           x == w[n].p
<1>1. LevelOK(at, end, w, caps, base, n) BY DEF Fits
<1>2. l \in 0..Len(caps) /\ \A i \in 1..n : w[i].s # NULL => w[i].caplevel <= l BY KeptBelow
<1>3. Len(caps) \in Nat /\ DOMAIN caps = 1..Len(caps) BY DEF CapturesOK
<1>4. base2[n + 1] = base[n] + at[q].open /\ \A i \in 1..n : base2[i] = base[i] OBVIOUS
<1>5. w[n].s \in Nat /\ base[n] \in Nat /\ x \in DOMAIN at BY <1>1 DEF LevelOK
<1>6. /\ w2[n + 1].s = w[n].s /\ w2[n + 1].p = p2 /\ w2[n + 1].caplevel = l
      /\ w2[n].s = NULL /\ w2[n].p = q
  OBVIOUS
<1>7. at[q].open \in Nat /\ at[p2].since \in Nat /\ at[x].since \in Nat BY <1>5 DEF IsTyping, IsWhere
<1> HIDE DEF base2, l, x
<1>8. n > 1 BY <1>1, NotFirst
<1>9. n - 1 \in 1..n - 1 /\ n - 1 \in 1..n BY <1>8
<1>10. Fits(at, end, w2, caps, base2, n - 1)
  <2>1. Fits(at, end, w, caps, base, n - 1) BY DEF Fits
  <2>2. n - 1 \in Nat /\ l \in Nat /\ l <= Len(caps) BY <1>2, <1>3
  <2>3. \A i \in 1..n - 1 : w[i].s # NULL => w[i].caplevel <= l BY <1>2
  <2>4. \A i \in 1..n - 1 : w2[i] = w[i] /\ base2[i] = base[i] BY <1>4
  <2> QED BY <2>1, <2>2, <2>3, <2>4, Kept
<1>11. LevelOK(at, end, w2, caps, base2, n)
  <2>1. w2[n - 1] = w[n - 1] /\ base2[n - 1] = base[n - 1] /\ base2[n] = base[n] BY <1>4, <1>9
  <2>2. Linked(at, w2, n) BY <1>1, <1>6, <2>1 DEF LevelOK, Linked, x
  <2>3. Based(at, w2, base2, n) BY <1>1, <2>1 DEF LevelOK, Based
  <2>4. OpenBefore(at, at[q]) = OpenBefore(at, at[x]) BY DEF OpenBefore, x
  <2>5. ASSUME NEW i \in 1..n - 1 PROVE Above(at, w2, base2, i, n)
    <3>1. Above(at, w, base, i, n) BY <1>1 DEF LevelOK
    <3>2. w2[i] = w[i] /\ base2[i] = base[i] BY <1>4
    <3> QED BY <3>1, <3>2, <2>1, <2>4, <1>6 DEF Above, x
  <2>6. NULL \in Nat BY DEF NULL
  <2> QED BY <1>5, <1>6, <1>8, <2>1, <2>2, <2>3, <2>5, <2>6 DEF LevelOK
<1>12. LevelOK(at, end, w2, caps, base2, n + 1)
  <2>1. n + 1 > 1 /\ (n + 1) - 1 = n /\ n + 1 # 1 OBVIOUS
  <2>2. Linked(at, w2, n + 1) BY <2>1, <1>6 DEF Linked
  <2>3. Based(at, w2, base2, n + 1)
    <3>1. base2[n] = base[n] BY <1>4
    <3> QED BY <3>1, <2>1, <1>4, <1>6 DEF Based
  <2>4. Keeps(at, end, w2, caps, n + 1)
    <3>1. Keeps(at, end, w, caps, n) BY <1>1 DEF LevelOK
    <3>2. w[n].s \in at[p2].since + 1..end BY <3>1, <1>5, <1>7 DEF Keeps, x
    <3>3. ASSUME NEW k \in 1..l
          PROVE  caps[k].s <= w[n].s - at[p2].since /\ closeaddr(caps[k]) <= w[n].s - at[p2].since
      <4>1. caps[k].s <= w[n].s - at[x].since /\ closeaddr(caps[k]) <= w[n].s - at[x].since
        BY <3>1 DEF Keeps, x, l
      <4>2. k \in 1..Len(caps) BY <1>2, <1>3
      <4>3. caps[k].s \in Int /\ closeaddr(caps[k]) \in Int BY <4>2, CaptureType
      <4>4. at[p2].since <= at[x].since BY DEF x
      <4> QED BY <4>1, <4>3, <4>4, <1>5, <1>7
    <3> QED BY <3>2, <3>3, <1>2, <1>6 DEF Keeps
  <2>5. Open(caps, l) = base2[n + 1] + at[p2].open
    <3>1. Open(caps, l) = base[n] + at[q].open BY <1>1 DEF LevelOK, l, x
    <3> QED BY <3>1, <1>4, <1>5, <1>7
  <2>6. ASSUME NEW i \in 1..n PROVE Above(at, w2, base2, i, n + 1)
    <3> SUFFICES ASSUME w2[i].s # NULL PROVE Above(at, w2, base2, i, n + 1) BY DEF Above
    <3>1. i \in 1..n - 1 BY <1>6
    <3>2. w2[i] = w[i] /\ base2[i] = base[i] BY <3>1, <1>4
    <3>3. base[i] + at[w[i].p].open <= base[n] + at[q].open BY <3>2, OpenBelow
    <3>4. OpenBefore(at, at[p2]) = 0 BY DEF OpenBefore
    <3>5. w[i].caplevel <= l BY <3>2, <1>2
    <3> QED BY <3>2, <3>3, <3>4, <3>5, <1>4, <1>5, <1>6, <1>7 DEF Above
  <2>7. base2[n + 1] \in Nat BY <1>4, <1>5, <1>7
  <2>8. \A i \in 1..(n + 1) - 1 : Above(at, w2, base2, i, n + 1) BY <2>6
  <2> QED BY <1>5, <1>6, <2>1, <2>2, <2>3, <2>4, <2>5, <2>7, <2>8 DEF LevelOK
<1> QED
  <2>1. n + 1 \in Nat \ {0} /\ (n + 1) - 1 = n OBVIOUS
  <2> QED BY <1>10, <1>11, <1>12, <2>1, FitsTop

\* The level below is removed: a choice is committed, or a call returns (lpeg.c:502,
\* 392).
LEMMA Uncovered ==
  ASSUME NEW at, NEW end, NEW w, NEW w2, NEW caps, NEW base, NEW n \in Nat, n > 1, CapturesOK(caps),
         Fits(at, end, w, caps, base, n), w[n].s # NULL,
         IsTyping(at), end \in Int,
         \A i \in 1..n - 2 : w2[i] = w[i],
         NEW p2 \in DOMAIN at,
         w2[n - 1] = [s |-> w[n].s, p |-> p2, caplevel |-> w[n].caplevel],
         at[p2].main = at[w[n - 1].p].main, at[p2].pend = at[w[n - 1].p].pend,
         base[n - 1] + at[p2].open = base[n] + at[w[n].p].open,
         at[p2].since <= at[w[n].p].since
  PROVE  Fits(at, end, w2, caps, base, n - 1)
<1> DEFINE l == w[n].caplevel
           x == w[n].p
           q == w[n - 1].p
           m == n - 1
<1>1. m \in Nat \ {0} /\ m \in 1..n /\ n - 2 = m - 1 /\ n \in 1..n /\ n \in Nat \ {0} OBVIOUS
<1>2. LevelOK(at, end, w, caps, base, n) /\ LevelOK(at, end, w, caps, base, m) BY <1>1 DEF Fits
<1>3. l \in 0..Len(caps) /\ \A i \in 1..n : w[i].s # NULL => w[i].caplevel <= l BY <1>1, KeptBelow
<1>4. Len(caps) \in Nat /\ DOMAIN caps = 1..Len(caps) BY DEF CapturesOK
<1>5. w[n].s \in Nat /\ x \in DOMAIN at BY <1>2 DEF LevelOK
<1>6. at[p2].since \in Nat /\ at[x].since \in Nat /\ at[p2].since <= at[x].since
  BY <1>5 DEF IsTyping, IsWhere, x
<1>7. w2[m].s = w[n].s /\ w2[m].p = p2 /\ w2[m].caplevel = l OBVIOUS
<1>8. at[p2].main = at[q].main /\ at[p2].pend = at[q].pend OBVIOUS
<1>9. Open(caps, l) = base[m] + at[p2].open BY <1>2 DEF LevelOK
<1>10. \A i \in 1..m - 1 : w2[i] = w[i] BY <1>1
<1>11. Keeps(at, end, w, caps, n) BY <1>2 DEF LevelOK
<1>12. w[m].p = q OBVIOUS
<1> HIDE DEF l, x, q, m
<1>13. Fits(at, end, w2, caps, base, m - 1)
  <2>1. Fits(at, end, w, caps, base, m - 1) BY <1>1 DEF Fits, m
  <2>2. m - 1 \in Nat /\ l \in Nat /\ l <= Len(caps) BY <1>1, <1>3, <1>4
  <2>3. \A i \in 1..m - 1 : w[i].s # NULL => w[i].caplevel <= l BY <1>1, <1>3 DEF m
  <2> QED BY <2>1, <2>2, <2>3, <1>10, Kept
<1>14. LevelOK(at, end, w2, caps, base, m)
  <2>1. m > 1 => w2[m - 1] = w[m - 1]
    <3> SUFFICES ASSUME m > 1 PROVE w2[m - 1] = w[m - 1] OBVIOUS
    <3>1. m - 1 \in 1..m - 1 BY <1>1
    <3> QED BY <3>1, <1>10
  <2>2. Linked(at, w2, m) BY <1>2, <1>7, <1>8, <1>12, <2>1 DEF LevelOK, Linked
  <2>3. Based(at, w2, base, m) BY <1>1, <1>2, <2>1 DEF LevelOK, Based
  <2>4. Keeps(at, end, w2, caps, m)
    <3>1. w[n].s \in at[p2].since + 1..end BY <1>11, <1>5, <1>6 DEF Keeps, x
    <3>2. ASSUME NEW k \in 1..l
          PROVE  caps[k].s <= w[n].s - at[p2].since /\ closeaddr(caps[k]) <= w[n].s - at[p2].since
      <4>1. caps[k].s <= w[n].s - at[x].since /\ closeaddr(caps[k]) <= w[n].s - at[x].since
        BY <1>11 DEF Keeps, x, l
      <4>2. k \in 1..Len(caps) BY <1>3, <1>4
      <4>3. caps[k].s \in Int /\ closeaddr(caps[k]) \in Int BY <4>2, CaptureType
      <4> QED BY <4>1, <4>3, <1>5, <1>6
    <3> QED BY <3>1, <3>2, <1>3, <1>7 DEF Keeps
  <2>5. OpenBefore(at, at[p2]) = OpenBefore(at, at[q]) BY <1>8 DEF OpenBefore
  <2>6. ASSUME NEW i \in 1..m - 1 PROVE Above(at, w2, base, i, m)
    <3>1. Above(at, w, base, i, m) BY <1>2 DEF LevelOK
    <3>2. w2[i] = w[i] BY <1>10
    <3>3. w[i].s # NULL => w[i].caplevel <= l BY <1>1, <1>3 DEF m
    <3> QED BY <3>1, <3>2, <3>3, <2>5, <1>7, <1>12 DEF Above
  <2> QED BY <1>2, <1>5, <1>7, <1>9, <2>2, <2>3, <2>4, <2>6 DEF LevelOK
<1> QED
  <2>1. Fits(at, end, w2, caps, base, m) BY <1>1, <1>13, <1>14, FitsTop
  <2> QED BY <2>1 DEF m

-----------------------------------------------------------------------------
(* Captures.                                                               *)

\* A capture is added (lpeg.c:557).
LEMMA Appended ==
  ASSUME NEW caps, CapturesOK(caps),
         NEW new \in [s : Nat \ {0}, idx : Int, kind : STRING, siz : Nat],
         \A i \in 1..Len(caps) : caps[i].s <= new.s,
         Open(caps, Len(caps)) + (IF new.siz = 0 THEN 1 ELSE 0) - (IF isclosecap(new) THEN 1 ELSE 0) >= 0
  PROVE  LET caps2 == Append(caps, new)
         IN  /\ CapturesOK(caps2) /\ Len(caps2) = Len(caps) + 1 /\ caps2[Len(caps) + 1] = new
             /\ \A i \in 1..Len(caps) : caps2[i] = caps[i]
             /\ Open(caps2, Len(caps2)) = Open(caps, Len(caps)) + (IF new.siz = 0 THEN 1 ELSE 0)
                                                                - (IF isclosecap(new) THEN 1 ELSE 0)
<1> DEFINE C == [s : Nat \ {0}, idx : Int, kind : STRING, siz : Nat]
           caps2 == Append(caps, new)
           n == Len(caps)
<1>1. caps \in Seq(C) /\ n \in Nat /\ DOMAIN caps = 1..n BY DEF CapturesOK
<1>2. new \in C OBVIOUS
<1> HIDE DEF C
<1>3. caps2 \in Seq(C) /\ Len(caps2) = n + 1 /\ caps2[n + 1] = new /\ \A i \in 1..n : caps2[i] = caps[i]
  BY <1>1, <1>2
<1>4. DOMAIN caps2 = 1..n + 1 BY <1>3, <1>1
<1> HIDE DEF caps2, n
<1>5. \A i \in 1..n : Open(caps2, i) = Open(caps, i)
  <2> SUFFICES ASSUME NEW i \in 1..n PROVE Open(caps2, i) = Open(caps, i) OBVIOUS
  <2>1. i \in Nat /\ i <= n /\ i <= n + 1 /\ n + 1 \in Nat /\ \A j \in 1..i : caps2[j] = caps[j]
    BY <1>1, <1>3
  <2> QED BY <2>1, <1>1, <1>4, OpenSame
<1>6. Open(caps2, n) = Open(caps, n)
  <2>1. n \in Nat /\ n <= n /\ n <= n + 1 /\ n + 1 \in Nat BY <1>1
  <2> QED BY <2>1, <1>1, <1>3, <1>4, OpenSame
<1>7. Open(caps2, n + 1) = Open(caps, n) + (IF new.siz = 0 THEN 1 ELSE 0) - (IF isclosecap(new) THEN 1 ELSE 0)
  <2>1. n + 1 \in Nat /\ n \in 0..(n + 1) - 1 BY <1>1
  <2>2. caps2[n + 1] = new BY <1>3
  <2>3. Open(caps2, n + 1) = Open(caps2, n) + (IF caps2[n + 1].siz = 0 THEN 1 ELSE 0)
                                            - (IF isclosecap(caps2[n + 1]) THEN 1 ELSE 0)
    BY <2>1, <1>4, OpenStep
  <2> QED BY <2>2, <2>3, <1>6
<1>8. ASSUME NEW i \in 1..n + 1 PROVE (i > 1 => caps2[i - 1].s <= caps2[i].s) /\ Open(caps2, i) >= 0
  <2>1. CASE i = n + 1
    <3>1. i > 1 => i - 1 \in 1..n /\ i - 1 = n BY <2>1, <1>1
    <3>2. i > 1 => caps[n].s <= new.s BY <3>1 DEF n
    <3>3. Open(caps2, i) >= 0 BY <2>1, <1>7 DEF n
    <3> QED BY <2>1, <3>1, <3>2, <3>3, <1>3
  <2>2. CASE i # n + 1
    <3>1. i \in 1..n /\ (i > 1 => i - 1 \in 1..n) BY <2>2, <1>1
    <3>2. (i > 1 => caps[i - 1].s <= caps[i].s) /\ Open(caps, i) >= 0 BY <3>1, <1>1 DEF CapturesOK
    <3> QED BY <3>1, <3>2, <1>3, <1>5
  <2> QED BY <2>1, <2>2
<1>9. CapturesOK(caps2) BY <1>3, <1>4, <1>8 DEF CapturesOK, C
<1> QED BY <1>3, <1>7, <1>9 DEF caps2, n

\* The last capture, which is open, is closed in its own entry (lpeg.c:541).
LEMMA ClosedInPlace ==
  ASSUME NEW caps, CapturesOK(caps), caps # <<>>, caps[Len(caps)].siz = 0, NEW k \in Nat \ {0},
         Open(caps, Len(caps)) > 0
  PROVE  LET caps2 == [caps EXCEPT ![Len(caps)].siz = k]
         IN  /\ CapturesOK(caps2) /\ Len(caps2) = Len(caps)
             /\ caps2[Len(caps)].s = caps[Len(caps)].s /\ caps2[Len(caps)].siz = k
             /\ \A i \in 1..Len(caps) - 1 : caps2[i] = caps[i]
             /\ Open(caps2, Len(caps)) = Open(caps, Len(caps)) - 1
<1> DEFINE C == [s : Nat \ {0}, idx : Int, kind : STRING, siz : Nat]
           n == Len(caps)
           last == [caps[n] EXCEPT !.siz = k]
           caps2 == [caps EXCEPT ![n] = last]
<1>1. caps \in Seq(C) /\ n \in Nat /\ DOMAIN caps = 1..n BY DEF CapturesOK
<1>2. n \in 1..n /\ n - 1 \in Nat
  <2> HIDE DEF C
  <2>1. n # 0 BY <1>1
  <2> QED BY <2>1, <1>1
<1>3. caps[n] \in C BY <1>2, CaptureType
<1>4. last \in C /\ last.s = caps[n].s /\ last.siz = k /\ last.kind = caps[n].kind BY <1>3
<1> HIDE DEF C, last
<1>5. /\ caps2 \in Seq(C) /\ Len(caps2) = n /\ caps2[n] = last /\ DOMAIN caps2 = 1..n
      /\ \A i \in 1..n - 1 : caps2[i] = caps[i]
  BY <1>1, <1>2, <1>4
<1>6. caps2 = [caps EXCEPT ![n].siz = k] BY DEF last
<1> HIDE DEF caps2, n
<1>7. \A i \in 0..n - 1 : Open(caps2, i) = Open(caps, i)
  <2> SUFFICES ASSUME NEW i \in 0..n - 1 PROVE Open(caps2, i) = Open(caps, i) OBVIOUS
  <2>1. i \in Nat /\ i <= n /\ \A j \in 1..i : caps2[j] = caps[j] BY <1>1, <1>5
  <2> QED BY <2>1, <1>1, <1>5, OpenSame
<1>8. Open(caps2, n) = Open(caps, n) - 1
  <2>1. n - 1 \in 0..n - 1 BY <1>2
  <2>2. /\ Open(caps, n - 1) \in Int
        /\ Open(caps, n) = Open(caps, n - 1) + 1 - (IF isclosecap(caps[n]) THEN 1 ELSE 0)
    <3>1. caps[n].siz = 0 BY DEF n
    <3> QED BY <1>1, <1>2, <3>1, OpenLast
  <2>3. Open(caps2, n) = Open(caps2, n - 1) + 0 - (IF isclosecap(last) THEN 1 ELSE 0)
    <3>1. last.siz # 0 BY <1>4
    <3>2. DOMAIN caps2 = 1..n /\ caps2[n] = last /\ n \in Nat /\ n \in 1..n BY <1>1, <1>2, <1>5
    <3>3. Open(caps2, n) = Open(caps2, n - 1) + (IF caps2[n].siz = 0 THEN 1 ELSE 0)
                                              - (IF isclosecap(caps2[n]) THEN 1 ELSE 0)
      BY <3>2, OpenLast
    <3> QED BY <3>1, <3>2, <3>3
  <2>4. isclosecap(last) <=> isclosecap(caps[n]) BY <1>4 DEF isclosecap
  <2>5. Open(caps2, n - 1) = Open(caps, n - 1) BY <2>1, <1>7
  <2> QED BY <2>2, <2>3, <2>4, <2>5
<1>9. ASSUME NEW i \in 1..n PROVE (i > 1 => caps2[i - 1].s <= caps2[i].s) /\ Open(caps2, i) >= 0
  <2>1. (i > 1 => caps[i - 1].s <= caps[i].s) /\ Open(caps, i) >= 0 BY <1>1 DEF CapturesOK
  <2>2. caps2[i].s = caps[i].s
    <3>1. CASE i = n BY <3>1, <1>4, <1>5
    <3>2. CASE i # n
      <4>1. i \in 1..n - 1 BY <3>2, <1>1
      <4> QED BY <4>1, <1>5
    <3> QED BY <3>1, <3>2
  <2>3. i > 1 => i - 1 \in 1..n - 1 BY <1>1
  <2>4. i > 1 => caps2[i - 1] = caps[i - 1] BY <2>3, <1>5
  <2>5. Open(caps2, i) >= 0
    <3>1. CASE i = n
      <4>1. Open(caps, n) > 0 BY DEF n
      <4>2. Open(caps, n) \in Int BY <1>1, <1>2, OpenLast
      <4> QED BY <4>1, <4>2, <1>8, <3>1
    <3>2. CASE i # n
      <4>1. i \in 0..n - 1 BY <3>2, <1>1
      <4> QED BY <4>1, <2>1, <1>7
    <3> QED BY <3>1, <3>2
  <2> QED BY <2>1, <2>2, <2>4, <2>5
<1>10. CapturesOK(caps2) BY <1>5, <1>9 DEF CapturesOK, C
<1> QED BY <1>4, <1>5, <1>6, <1>8, <1>10 DEF n

\* The current level after its captures changed.
LEMMA Recaptured ==
  ASSUME NEW at, NEW end, NEW w, NEW w2, NEW caps, NEW caps2, NEW base, NEW n \in Nat \ {0},
         CapturesOK(caps), CapturesOK(caps2), IsTyping(at), end \in Int,
         Fits(at, end, w, caps, base, n), w[n].s # NULL, w[n].caplevel = Len(caps),
         NEW k \in Nat, k <= Len(caps), Len(caps) <= Len(caps2), \A i \in 1..k : caps2[i] = caps[i],
         \A i \in 1..n - 1 : w[i].s # NULL => w[i].caplevel <= k,
         \A i \in 1..n - 1 : w2[i] = w[i],
         NEW p2 \in DOMAIN at, w[n].s \in at[p2].since + 1..end,
         w2[n] = [s |-> w[n].s, p |-> p2, caplevel |-> Len(caps2)],
         at[p2].main = at[w[n].p].main, at[p2].pend = at[w[n].p].pend,
         \A i \in 1..Len(caps2) :
           caps2[i].s <= w[n].s - at[p2].since /\ closeaddr(caps2[i]) <= w[n].s - at[p2].since,
         Open(caps2, Len(caps2)) = base[n] + at[p2].open
  PROVE  Fits(at, end, w2, caps2, base, n)
<1>1. LevelOK(at, end, w, caps, base, n) BY DEF Fits
<1>2. Len(caps) \in Nat /\ Len(caps2) \in Nat BY CaptureType
<1>3. Fits(at, end, w2, caps2, base, n - 1)
  <2>1. Fits(at, end, w, caps, base, n - 1) BY DEF Fits
  <2>2. n - 1 \in Nat /\ k <= Len(caps2) BY <1>2
  <2> QED BY <2>1, <2>2, Kept
<1>4. \A i \in 1..n - 1 : w[i].s # NULL => w[i].caplevel \in Nat
  <2> SUFFICES ASSUME NEW i \in 1..n - 1, w[i].s # NULL PROVE w[i].caplevel \in Nat OBVIOUS
  <2>1. LevelOK(at, end, w, caps, base, i) BY DEF Fits
  <2> QED BY <2>1, <1>2 DEF LevelOK, Keeps
<1>5. LevelOK(at, end, w2, caps2, base, n)
  <2>1. Len(caps2) \in 0..Len(caps2) /\ w[n].caplevel <= Len(caps2) /\ w[n].caplevel \in Nat BY <1>2
  <2> QED BY <1>1, <1>4, <2>1, Retyped
<1> QED BY <1>3, <1>5, FitsTop

\* A close finds its open capture above every choice (lpeg.c:541).
LEMMA AboveChoices ==
  ASSUME NEW at, NEW end, NEW w, NEW caps, NEW base, NEW n \in Nat \ {0},
         CapturesOK(caps), IsTyping(at),
         Fits(at, end, w, caps, base, n), w[n].s # NULL, w[n].caplevel = Len(caps),
         OpenBefore(at, at[w[n].p]) < at[w[n].p].open
  PROVE  /\ Open(caps, Len(caps)) > 0
         /\ \A i \in 1..n - 1 : w[i].s # NULL => w[i].caplevel <= Len(caps) - 1
<1>1. LevelOK(at, end, w, caps, base, n) BY DEF Fits
<1>2. w[n].p \in DOMAIN at /\ base[n] \in Nat BY <1>1 DEF LevelOK
<1>3. at[w[n].p].open \in Nat /\ OpenBefore(at, at[w[n].p]) \in Nat
  BY <1>2, OpenBeforeLeast DEF IsTyping, IsWhere
<1>4. Open(caps, Len(caps)) = base[n] + at[w[n].p].open BY <1>1 DEF LevelOK
<1>5. ASSUME NEW i \in 1..n - 1, w[i].s # NULL PROVE w[i].caplevel <= Len(caps) - 1
  <2>1. LevelOK(at, end, w, caps, base, i) BY DEF Fits
  <2>2. Open(caps, w[i].caplevel) = base[i] + at[w[i].p].open BY <2>1, <1>5 DEF LevelOK
  <2>3. base[i] + at[w[i].p].open <= base[n] + OpenBefore(at, at[w[n].p])
    BY <1>1, <1>5 DEF LevelOK, Above
  <2>4. base[i] \in Nat /\ at[w[i].p].open \in Nat BY <2>1 DEF LevelOK, IsTyping, IsWhere
  <2>5. w[i].caplevel # Len(caps) BY <2>2, <2>3, <2>4, <1>2, <1>3, <1>4
  <2>6. w[i].caplevel \in 0..Len(caps) BY <2>1, <1>5 DEF LevelOK, Keeps
  <2>7. Len(caps) \in Nat BY CaptureType
  <2> QED BY <2>5, <2>6, <2>7
<1> QED BY <1>2, <1>3, <1>4, <1>5

-----------------------------------------------------------------------------
(* What a typing says of the addresses that an instruction leads to.       *)

\* The groups of instructions (opproperties).
LEMMA Ops ==
  /\ Checks = {"IAny", "IChar", "ISet", "IZSet"}
  /\ Tests = {"ITestAny", "ITestChar", "ITestSet", "ITestZSet"}
  /\ Captures = {"IEmptyCapture", "IOpenCapture", "ICloseCapture", "IFullCapture"}
<1>1. Checks = {"IAny", "IChar", "ISet", "IZSet"} BY DEF Checks, Tested
<1>2. Tests = {Tested["IAny"], Tested["IChar"], Tested["ISet"], Tested["IZSet"]} BY <1>1 DEF Tests
<1>3. Tests = {"ITestAny", "ITestChar", "ITestSet", "ITestZSet"} BY <1>2 DEF Tested
<1>4. Captures = {"IEmptyCapture", "IOpenCapture", "ICloseCapture", "IFullCapture"}
  BY DEF Captures, MovableCaptures
<1> QED BY <1>1, <1>3, <1>4

\* A typing of a code is a typing.
LEMMA TypedIs ==
  ASSUME NEW code, NEW at, Typed(code, at)
  PROVE  /\ IsTyping(at) /\ 1 \in DOMAIN at /\ at[1] = Where(TRUE, <<0>>, 0, 0)
         /\ \A i \in DOMAIN at \ {0} : FieldsOK(code[i]) /\ Needs(code, at, i) /\ Within(at, at[i])
BY DEF Typed, IsTyping

\* The address j goes on like i, d characters later.
Same(at, i, j, d) ==
  /\ j \in DOMAIN at \ {0}
  /\ at[j].main = at[i].main /\ at[j].pend = at[i].pend /\ at[j].open = at[i].open
  /\ at[j].since <= at[i].since + d

\* What follows an address is typed as Flow says.
LEMMA Lands ==
  ASSUME NEW code, NEW at, Typed(code, at), NEW i \in DOMAIN at \ {0}, NEW f \in Flow(code, at, i)
  PROVE  /\ f.to \in DOMAIN at \ {0} /\ Agrees(at[f.to], f.at)
         /\ IsWhere(at[i]) /\ IsWhere(at[f.to])
BY DEF Typed

LEMMA FlowSince ==
  ASSUME NEW code, NEW at, Typed(code, at), NEW i \in DOMAIN at \ {0}, NEW j, NEW d \in Int,
         [to |-> j, at |-> [at[i] EXCEPT !.since = @ + d]] \in Flow(code, at, i)
  PROVE  Same(at, i, j, d)
<1> DEFINE f == [to |-> j, at |-> [at[i] EXCEPT !.since = @ + d]]
<1>1. f.to = j /\ f.at = [at[i] EXCEPT !.since = @ + d] OBVIOUS
<1>2. f \in Flow(code, at, i) OBVIOUS
<1> HIDE DEF f
<1>3. j \in DOMAIN at \ {0} /\ Agrees(at[j], [at[i] EXCEPT !.since = @ + d]) /\ IsWhere(at[i])
  BY <1>1, <1>2, Lands
<1> QED BY <1>3 DEF Agrees, Same, IsWhere

\* Checks and tests that succeed.
LEMMA FlowHolds ==
  ASSUME NEW code, NEW at, Typed(code, at), NEW i \in DOMAIN at \ {0}, code[i].op \in Checks \cup Tests
  PROVE  LET n == IF code[i].op \in {"IAny", "ITestAny"} THEN code[i].aux ELSE 1
         IN  n \in Nat /\ Same(at, i, i + sizei(code[i]), n)
<1> DEFINE n == IF code[i].op \in {"IAny", "ITestAny"} THEN code[i].aux ELSE 1
<1>1. n \in Nat
  <2>1. FieldsOK(code[i]) BY TypedIs
  <2> QED BY <2>1 DEF FieldsOK
<1>2. [to |-> i + sizei(code[i]), at |-> [at[i] EXCEPT !.since = @ + n]] \in Flow(code, at, i)
  BY Ops DEF Flow
<1> HIDE DEF n
<1>3. Same(at, i, i + sizei(code[i]), n) BY <1>1, <1>2, FlowSince
<1> QED BY <1>1, <1>3 DEF n

\* Whatever goes on with nothing else changed.
LEMMA FlowOn ==
  ASSUME NEW code, NEW at, Typed(code, at), NEW i \in DOMAIN at \ {0}, NEW j,
         [to |-> j, at |-> at[i]] \in Flow(code, at, i)
  PROVE  Same(at, i, j, 0)
<1>1. IsWhere(at[i]) BY DEF Typed
<1>2. at[i] = [at[i] EXCEPT !.since = @ + 0] BY <1>1 DEF IsWhere
<1> QED BY <1>2, FlowSince

LEMMA FlowJumps ==
  ASSUME NEW code, NEW at, Typed(code, at), NEW i \in DOMAIN at \ {0},
         code[i].op \in Tests \cup {"IJmp", "IPartialCommit"}
  PROVE  Same(at, i, i + code[i].off, 0)
<1>1. [to |-> i + code[i].off, at |-> at[i]] \in Flow(code, at, i) BY Ops DEF Flow
<1> QED BY <1>1, FlowOn

LEMMA FlowSpans ==
  ASSUME NEW code, NEW at, Typed(code, at), NEW i \in DOMAIN at \ {0},
         code[i].op \in {"ISpan", "ISpanZ", "IFunc", "ILFunc"}
  PROVE  Same(at, i, i + sizei(code[i]), 0)
<1>1. [to |-> i + sizei(code[i]), at |-> at[i]] \in Flow(code, at, i) BY Ops DEF Flow
<1> QED BY <1>1, FlowOn

LEMMA FlowChoice ==
  ASSUME NEW code, NEW at, Typed(code, at), NEW i \in DOMAIN at \ {0}, code[i].op = "IChoice"
  PROVE  LET q == i + code[i].off
         IN  /\ code[i].aux \in Nat /\ code[i].aux <= at[i].since
             /\ Same(at, i, q, -code[i].aux)
             /\ i + 1 \in DOMAIN at \ {0}
             /\ at[i + 1].main = at[i].main /\ at[i + 1].pend = Append(at[i].pend, q)
             /\ at[i + 1].open = at[i].open /\ at[i + 1].since <= at[i].since
<1> DEFINE q == i + code[i].off
           f == [to |-> i + 1, at |-> [at[i] EXCEPT !.pend = Append(@, q)]]
<1>1. code[i].aux \in Nat /\ code[i].aux <= at[i].since
  <2>1. FieldsOK(code[i]) /\ Needs(code, at, i) BY TypedIs
  <2> QED BY <2>1 DEF FieldsOK, Needs
<1>2. [to |-> q, at |-> [at[i] EXCEPT !.since = @ + (-code[i].aux)]] \in Flow(code, at, i)
  <2>1. IsWhere(at[i]) BY DEF Typed
  <2>2. at[i].since - code[i].aux = at[i].since + (-code[i].aux) BY <1>1, <2>1 DEF IsWhere
  <2>3. [to |-> q, at |-> [at[i] EXCEPT !.since = @ - code[i].aux]] \in Flow(code, at, i) BY Ops DEF Flow
  <2> QED BY <2>2, <2>3
<1>3. Same(at, i, q, -code[i].aux) BY <1>1, <1>2, FlowSince
<1>4. f \in Flow(code, at, i) BY Ops DEF Flow
<1>5. f.to = i + 1 /\ f.at = [at[i] EXCEPT !.pend = Append(@, q)] OBVIOUS
<1> HIDE DEF f
<1>6. i + 1 \in DOMAIN at \ {0} /\ Agrees(at[i + 1], [at[i] EXCEPT !.pend = Append(@, q)]) /\ IsWhere(at[i])
  BY <1>4, <1>5, Lands
<1> QED BY <1>1, <1>3, <1>6 DEF Agrees, IsWhere

LEMMA FlowCall ==
  ASSUME NEW code, NEW at, Typed(code, at), NEW i \in DOMAIN at \ {0}, code[i].op = "ICall"
  PROVE  LET q == i + code[i].off
         IN  /\ q \in DOMAIN at \ {0}
             /\ ~at[q].main /\ at[q].pend = <<>> /\ at[q].open = 0 /\ at[q].since <= at[i].since
             /\ i + 1 \in DOMAIN at \ {0}
             /\ at[i + 1].main = at[i].main /\ at[i + 1].pend = at[i].pend
             /\ at[i + 1].open = at[i].open /\ at[i + 1].since = 0
<1> DEFINE q == i + code[i].off
           f == [to |-> q, at |-> Where(FALSE, <<>>, 0, at[i].since)]
           g == [to |-> i + 1, at |-> [at[i] EXCEPT !.since = 0]]
<1>1. f \in Flow(code, at, i) /\ g \in Flow(code, at, i) BY Ops DEF Flow
<1>2. /\ f.to = q /\ f.at = Where(FALSE, <<>>, 0, at[i].since)
      /\ g.to = i + 1 /\ g.at = [at[i] EXCEPT !.since = 0]
  OBVIOUS
<1> HIDE DEF f, g
<1>3. q \in DOMAIN at \ {0} /\ Agrees(at[q], Where(FALSE, <<>>, 0, at[i].since))
  <2>1. f.to \in DOMAIN at \ {0} /\ Agrees(at[f.to], f.at) BY <1>1, Lands
  <2> QED BY <2>1, <1>2
<1>4. /\ i + 1 \in DOMAIN at \ {0} /\ Agrees(at[i + 1], [at[i] EXCEPT !.since = 0])
      /\ IsWhere(at[i]) /\ IsWhere(at[i + 1])
  BY <1>1, <1>2, Lands
<1> QED BY <1>3, <1>4 DEF Agrees, Where, IsWhere

\* A capture, by how many more are then open.
LEMMA FlowCapture ==
  ASSUME NEW code, NEW at, Typed(code, at), NEW i \in DOMAIN at \ {0}, code[i].op \in Captures
  PROVE  LET d == IF code[i].op = "IOpenCapture" THEN 1 ELSE IF code[i].op = "ICloseCapture" THEN -1 ELSE 0
         IN  /\ code[i].n \in Nat /\ code[i].n <= at[i].since
             /\ i + 1 \in DOMAIN at \ {0}
             /\ at[i + 1].main = at[i].main /\ at[i + 1].pend = at[i].pend
             /\ at[i + 1].open = at[i].open + d
             /\ at[i + 1].since <= IF code[i].op = "IFullCapture" THEN 0 ELSE code[i].n
<1> DEFINE d == IF code[i].op = "IOpenCapture" THEN 1 ELSE IF code[i].op = "ICloseCapture" THEN -1 ELSE 0
           n == IF code[i].op = "IFullCapture" THEN 0 ELSE code[i].n
           f == [to |-> i + 1, at |-> [at[i] EXCEPT !.open = @ + d, !.since = n]]
<1>1. code[i].n \in Nat /\ code[i].n <= at[i].since
  <2>1. FieldsOK(code[i]) /\ Needs(code, at, i) BY TypedIs
  <2> QED BY <2>1 DEF FieldsOK, Needs
<1>2. IsWhere(at[i]) BY DEF Typed
<1>3. f \in Flow(code, at, i)
  <2>1. CASE code[i].op = "IOpenCapture" BY <2>1, Ops DEF Flow
  <2>2. CASE code[i].op = "ICloseCapture"
    <3>1. at[i].open + d = at[i].open + (-1) BY <2>2
    <3> QED BY <2>2, <3>1, Ops DEF Flow
  <2>3. CASE code[i].op = "IEmptyCapture" BY <2>3, Ops DEF Flow
  <2>4. CASE code[i].op = "IFullCapture"
    <3>1. [at[i] EXCEPT !.open = @ + d, !.since = n] = [at[i] EXCEPT !.since = 0]
      <4>1. at[i].open + d = at[i].open /\ n = 0 BY <2>4, <1>2 DEF IsWhere
      <4> HIDE DEF d, n
      <4> QED BY <4>1, <1>2 DEF IsWhere
    <3>2. [to |-> i + 1, at |-> [at[i] EXCEPT !.since = 0]] \in Flow(code, at, i) BY <2>4, Ops DEF Flow
    <3> QED BY <3>1, <3>2
  <2> QED BY <2>1, <2>2, <2>3, <2>4, Ops
<1>4. f.to = i + 1 /\ f.at = [at[i] EXCEPT !.open = @ + d, !.since = n] OBVIOUS
<1> HIDE DEF f
<1>5. i + 1 \in DOMAIN at \ {0} /\ Agrees(at[i + 1], [at[i] EXCEPT !.open = @ + d, !.since = n])
  BY <1>3, <1>4, Lands
<1> QED BY <1>1, <1>2, <1>5 DEF Agrees, IsWhere

\* A commit, which takes a choice off the stack.
LEMMA FlowCommit ==
  ASSUME NEW code, NEW at, Typed(code, at), NEW i \in DOMAIN at \ {0}, code[i].op \in {"ICommit", "IBackCommit"}
  PROVE  LET q == i + code[i].off
         IN  /\ at[i].pend # <<>> /\ q \in DOMAIN at \ {0}
             /\ at[q].main = at[i].main /\ at[q].pend = Front(at[i].pend)
             /\ code[i].op = "ICommit" => at[q].open = at[i].open /\ at[q].since <= at[i].since
             /\ code[i].op = "IBackCommit" => at[q].open = at[Last(at[i].pend)].open /\ at[q].since = 0
<1> DEFINE q == i + code[i].off
           back == [Popped(at[i]) EXCEPT !.open = OpenBefore(at, at[i]), !.since = 0]
           f == [to |-> q, at |-> IF code[i].op = "ICommit" THEN Popped(at[i]) ELSE back]
<1>1. at[i].pend # <<>>
  <2>1. Needs(code, at, i) BY TypedIs
  <2> QED BY <2>1 DEF Needs
<1>2. IsWhere(at[i]) BY DEF Typed
<1>3. f \in Flow(code, at, i)
  <2>1. CASE code[i].op = "ICommit" BY <2>1, Ops DEF Flow
  <2>2. CASE code[i].op = "IBackCommit" BY <2>2, Ops DEF Flow
  <2> QED BY <2>1, <2>2
<1>4. f.to = q /\ f.at = (IF code[i].op = "ICommit" THEN Popped(at[i]) ELSE back) OBVIOUS
<1>5. /\ Popped(at[i]).main = at[i].main /\ Popped(at[i]).pend = Front(at[i].pend)
      /\ Popped(at[i]).open = at[i].open /\ Popped(at[i]).since = at[i].since
  BY <1>1, <1>2 DEF Popped, IsWhere
<1>6. /\ back.main = at[i].main /\ back.pend = Front(at[i].pend)
      /\ back.open = at[Last(at[i].pend)].open /\ back.since = 0
  BY <1>1, <1>2 DEF Popped, IsWhere, OpenBefore
<1> HIDE DEF f, back
<1>7. q \in DOMAIN at \ {0} /\ Agrees(at[q], f.at) /\ IsWhere(at[q])
  BY <1>3, <1>4, Lands
<1>8. at[q].since \in Nat BY <1>7 DEF IsWhere
<1> QED BY <1>1, <1>4, <1>5, <1>6, <1>7, <1>8 DEF Agrees

-----------------------------------------------------------------------------
(* The invariant.                                                          *)

At    == Typing(patt.code)
Entry == [s : Nat, p : Nat, caplevel : Nat]

MachineOK ==
  /\ stack \in Seq(Entry) /\ s \in Nat \ {0} /\ p \in Nat
  /\ CapturesOK(capture)
  /\ \E base : Fits(At, e, Levels, capture, base, Len(stack) + 1)

MatchInv ==
  /\ case \in Cases
  /\ status = "new" => p = 1 /\ capture = <<>>
  /\ status # "assertion"
  /\ status = "match" => Typed(patt.code, At) /\ MachineOK

\* The end of the subject.
LEMMA EndType ==
  ASSUME case \in Cases
  PROVE  subj \in Seq(Chars) /\ Len(subj) \in Nat /\ e \in Nat \ {0} /\ e \in Int /\ case.init \in Int
<1>1. subj \in Seq(Chars) /\ case.init \in Int BY CodeAssumption DEF subj
<1> QED BY <1>1 DEF e

\* The levels are the entries of the stack and the current state.
LEMMA LevelsAre ==
  ASSUME stack \in Seq(Entry)
  PROVE  /\ Len(stack) \in Nat /\ Len(stack) + 1 \in Nat \ {0}
         /\ \A i \in 1..Len(stack) : Levels[i] = stack[i] /\ stack[i] \in Entry
         /\ Levels[Len(stack) + 1] = [s |-> s, p |-> p, caplevel |-> Len(capture)]
BY DEF Levels

\* The state that the instructions of match begin in.
Ready == case \in Cases /\ status = "match" /\ Typed(patt.code, At) /\ MachineOK

\* What the current level is.
LEMMA Current ==
  ASSUME Ready, NEW base, Fits(At, e, Levels, capture, base, Len(stack) + 1)
  PROVE  LET n == Len(stack) + 1
         IN  /\ n \in Nat \ {0} /\ IsTyping(At) /\ e \in Int
             /\ LevelOK(At, e, Levels, capture, base, n)
             /\ Levels[n].s = s /\ Levels[n].p = p /\ Levels[n].caplevel = Len(capture)
             /\ s # NULL /\ p \in DOMAIN At /\ IsWhere(At[p]) /\ s \in At[p].since + 1..e /\ s \in Nat
             /\ p # 0 <=> n > 1
             /\ base[n] \in Nat
<1> DEFINE n == Len(stack) + 1
<1>1. n \in Nat \ {0} /\ Levels[n] = [s |-> s, p |-> p, caplevel |-> Len(capture)]
  BY LevelsAre DEF Ready, MachineOK
<1>2. IsTyping(At) BY TypedIs DEF Ready
<1>3. LevelOK(At, e, Levels, capture, base, n) BY <1>1 DEF Fits
<1>4. Levels[n].s = s /\ Levels[n].p = p /\ Levels[n].caplevel = Len(capture) BY <1>1
<1>5. s # NULL /\ s \in Nat BY DEF Ready, MachineOK, NULL
<1>6. Levels[n].p # 0 <=> n > 1 BY <1>1, <1>2, <1>3, NotFirst
<1> HIDE DEF n
<1>7. p \in DOMAIN At /\ base[n] \in Nat BY <1>3, <1>4 DEF LevelOK
<1>8. IsWhere(At[p]) BY <1>2, <1>7 DEF IsTyping
<1>9. s \in At[p].since + 1..e BY <1>3, <1>4, <1>5 DEF LevelOK, Keeps
<1>10. e \in Int BY EndType DEF Ready
<1> QED BY <1>1, <1>2, <1>3, <1>4, <1>5, <1>6, <1>7, <1>8, <1>9, <1>10 DEF n

\* What an instruction has to leave behind.
LEMMA Arrives ==
  ASSUME Ready, UNCHANGED <<case, patt>>,
         stack' \in Seq(Entry), s' \in Nat \ {0}, p' \in Nat, CapturesOK(capture'),
         NEW base, Fits(At, e, Levels', capture', base, Len(stack') + 1)
  PROVE  MachineOK' /\ At' = At /\ e' = e
<1>1. At' = At BY DEF At
<1>2. e' = e BY DEF e, subj
<1> QED BY <1>1, <1>2 DEF MachineOK

LEMMA LevelsBecome ==
  ASSUME stack' \in Seq(Entry)
  PROVE  /\ Len(stack') \in Nat
         /\ \A i \in 1..Len(stack') : Levels'[i] = stack'[i]
         /\ Levels'[Len(stack') + 1] = [s |-> s', p |-> p', caplevel |-> Len(capture')]
BY DEF Levels

-----------------------------------------------------------------------------
(* Instructions that leave the stack and the captures alone.               *)

\* The machine goes on at j, d characters later or more.
LEMMA StaysOK ==
  ASSUME Ready, p # 0, NEW j, NEW d \in Int, Same(At, p, j, d),
         NEW s2 \in Int, s + d <= s2, s2 <= e,
         Goto(j, s2), UNCHANGED <<stack, capture>>
  PROVE  MachineOK'
<1>1. PICK base : Fits(At, e, Levels, capture, base, Len(stack) + 1) BY DEF Ready, MachineOK
<1> DEFINE n == Len(stack) + 1
<1>2. /\ n \in Nat \ {0} /\ IsTyping(At) /\ e \in Int /\ s \in Nat /\ IsWhere(At[p])
      /\ Levels[n].s = s /\ Levels[n].p = p /\ Levels[n].caplevel = Len(capture) /\ s # NULL
      /\ s \in At[p].since + 1..e
  BY <1>1, Current
<1>3. CapturesOK(capture) /\ stack \in Seq(Entry) BY DEF Ready, MachineOK
<1>4. p' = j /\ s' = s2 /\ UNCHANGED <<case, patt, stack, capture>> BY DEF Goto
<1>5. /\ j \in DOMAIN At /\ At[j].main = At[p].main /\ At[j].pend = At[p].pend
      /\ At[j].open = At[p].open /\ At[j].since <= At[p].since + d
  BY DEF Same
<1>6. At[j].since \in Nat /\ At[p].since \in Nat /\ j \in Nat BY <1>2, <1>5 DEF IsTyping, IsWhere
<1>7. s2 \in At[j].since + 1..e /\ s - At[p].since <= s2 - At[j].since /\ s2 \in Nat \ {0}
  <2> DEFINE x == At[j].since
             y == At[p].since
  <2>1. x \in Nat /\ y \in Nat /\ x <= y + d /\ s \in Nat /\ y + 1 <= s /\ e \in Int
    BY <1>2, <1>5, <1>6
  <2> HIDE DEF x, y
  <2>2. x + 1 <= s2 /\ s - y <= s2 - x /\ s2 \in Nat \ {0} BY <2>1
  <2> QED BY <2>1, <2>2 DEF x, y
<1>8. Levels'[n] = [s |-> s2, p |-> j, caplevel |-> Len(capture)] /\ \A i \in 1..n - 1 : Levels'[i] = Levels[i]
  BY <1>3, <1>4, LevelsAre, LevelsBecome
<1> HIDE DEF n
<1>9. Fits(At, e, Levels', capture, base, n)
  <2>1. Fits(At, e, Levels, capture, base, n) BY <1>1 DEF n
  <2> QED BY <1>2, <1>3, <1>5, <1>7, <1>8, <2>1, Moved
<1> QED BY <1>3, <1>4, <1>6, <1>7, <1>9, Arrives DEF n

-----------------------------------------------------------------------------
(* Failures.                                                               *)

\* A set of numbers that is not empty has a least one, and a greatest one if it is bounded.
LEMMA MinNat ==
  ASSUME NEW S \in SUBSET Nat, S # {}
  PROVE  \E x \in S : \A y \in S : x <= y
<1> DEFINE R == OpToRel(<, Nat)
<1>1. IsWellFoundedOn(R, Nat) BY NatLessThanWellFounded
<1>2. \A x \in Nat : \A y \in Nat : y < x => <<y, x>> \in R BY DEF OpToRel
<1> HIDE DEF R
<1>3. PICK x \in S : \A y \in S : ~(<<y, x>> \in R) BY <1>1, WFMin
<1>4. ASSUME NEW y \in S PROVE x <= y
  <2>1. x \in Nat /\ y \in Nat /\ ~(y < x) BY <1>2, <1>3
  <2> QED BY <2>1
<1> QED BY <1>4

LEMMA MaxIn ==
  ASSUME NEW n \in Nat, NEW S \in SUBSET (1..n), S # {}
  PROVE  Max(S) \in S
<1> DEFINE D == {n - y : y \in S}
<1>1. D \in SUBSET Nat /\ D # {}
  <2>1. \A y \in S : y \in 1..n /\ n - y \in Nat OBVIOUS
  <2> QED BY <2>1
<1>2. PICK d \in D : \A x \in D : d <= x
  <2> HIDE DEF D
  <2> QED BY <1>1, MinNat
<1>3. PICK m \in S : d = n - m OBVIOUS
<1>4. ASSUME NEW y \in S PROVE m >= y
  <2>1. n - y \in D /\ y \in 1..n /\ m \in 1..n OBVIOUS
  <2>2. d <= n - y BY <1>2, <2>1
  <2> QED BY <1>3, <2>1, <2>2
<1>5. \E x \in S : \A y \in S : x >= y BY <1>4
<1> QED BY <1>5 DEF Max

\* There is always a choice to come back to (lpeg.c:526).
LEMMA FailOK ==
  ASSUME Ready, NEW st \in Seq(Entry), Len(st) \in 1..Len(stack), \A i \in 1..Len(st) : st[i] = stack[i],
         Fail(st)
  PROVE  MachineOK' /\ status' = status
<1>1. PICK base : Fits(At, e, Levels, capture, base, Len(stack) + 1) BY DEF Ready, MachineOK
<1> DEFINE n == Len(stack) + 1
           S == ChoiceEntries(st)
           i == Max(S)
<1>2. n \in Nat \ {0} /\ IsTyping(At) /\ e \in Int BY <1>1, Current
<1>3. CapturesOK(capture) /\ stack \in Seq(Entry) BY DEF Ready, MachineOK
<1>4. /\ Len(stack) \in Nat /\ Len(st) \in Nat
      /\ \A j \in 1..Len(stack) : Levels[j] = stack[j] /\ stack[j] \in Entry
  BY <1>3, LevelsAre
<1>5. 1 \in S
  <2>1. LevelOK(At, e, Levels, capture, base, 1) BY <1>1, <1>4 DEF Fits
  <2>2. Levels[1].s # NULL BY <2>1 DEF LevelOK
  <2>3. 1 \in 1..Len(st) /\ st[1] = Levels[1] BY <1>4
  <2> QED BY <2>2, <2>3 DEF ChoiceEntries
<1>6. S \in SUBSET (1..Len(st)) BY DEF ChoiceEntries
<1>7. i \in S
  <2> HIDE DEF S
  <2> QED BY <1>4, <1>5, <1>6, MaxIn
<1>8. /\ p' = st[i].p /\ s' = st[i].s /\ UNCHANGED <<case, patt, status>>
      /\ stack' = SubSeq(st, 1, i - 1) /\ capture' = SubSeq(capture, 1, st[i].caplevel)
  <2>1. S # {} BY <1>5
  <2> QED BY <2>1 DEF Fail, Goto
<1>9. i \in 1..Len(st) /\ st[i].s # NULL BY <1>6, <1>7 DEF ChoiceEntries
<1> HIDE DEF S, i
<1>10. i \in 1..n /\ i \in 1..Len(stack) /\ i \in Nat /\ st[i] = stack[i] /\ Levels[i] = stack[i] /\ stack[i] \in Entry
  BY <1>4, <1>9
<1>11. stack' \in Seq(Entry) /\ Len(stack') = i - 1 /\ \A j \in 1..i - 1 : stack'[j] = st[j]
  BY <1>4, <1>8, <1>9
<1>12. LevelOK(At, e, Levels, capture, base, i) BY <1>1, <1>10 DEF Fits
<1>13. Levels[i].s # NULL /\ Levels[i].caplevel \in 0..Len(capture)
  BY <1>9, <1>10, <1>12 DEF LevelOK, Keeps
<1>14. Len(capture') = stack[i].caplevel BY <1>3, <1>8, <1>10, <1>13, CutCaptures
<1>15. \A j \in 1..i : Levels'[j] = Levels[j]
  <2>1. Levels'[i] = stack[i]
    <3>1. Levels'[i] = [s |-> s', p |-> p', caplevel |-> Len(capture')]
      <4>1. Len(stack') + 1 = i BY <1>10, <1>11
      <4> QED BY <4>1, <1>11, LevelsBecome
    <3> QED BY <3>1, <1>8, <1>10, <1>14 DEF Entry
  <2>2. ASSUME NEW j \in 1..i - 1 PROVE Levels'[j] = Levels[j]
    <3>1. j \in 1..Len(stack') /\ j \in 1..Len(st) /\ j \in 1..Len(stack) BY <1>4, <1>9, <1>10, <1>11
    <3> QED BY <3>1, <1>4, <1>11, LevelsBecome
  <2>3. \A j \in 1..i : j = i \/ j \in 1..i - 1 BY <1>10
  <2> QED BY <2>1, <2>2, <2>3, <1>10
<1>16. CapturesOK(capture') /\ Fits(At, e, Levels', capture', base, i)
  <2>1. n \in Nat BY <1>2
  <2>2. Fits(At, e, Levels, capture, base, n) BY <1>1
  <2>3. capture' = SubSeq(capture, 1, Levels[i].caplevel) BY <1>8, <1>10
  <2> HIDE DEF n
  <2> QED BY <1>3, <1>10, <1>13, <1>15, <2>1, <2>2, <2>3, Truncated
<1>17. s' \in Nat \ {0} /\ p' \in Nat BY <1>8, <1>9, <1>10 DEF Entry, NULL
<1>18. i = Len(stack') + 1 BY <1>10, <1>11
<1> QED BY <1>8, <1>11, <1>16, <1>17, <1>18, Arrives

-----------------------------------------------------------------------------
(* Instructions that take from the stack, or push.                         *)

\* The stack without its last entry.
LEMMA StackFront ==
  ASSUME NEW st \in Seq(Entry), st # <<>>
  PROVE  /\ Len(st) \in Nat \ {0} /\ Last(st) = st[Len(st)] /\ st[Len(st)] \in Entry
         /\ Front(st) \in Seq(Entry) /\ Len(Front(st)) = Len(st) - 1
         /\ \A i \in 1..Len(st) - 1 : Front(st)[i] = st[i]
<1> HIDE DEF Entry
<1>1. Len(st) \in Nat \ {0} OBVIOUS
<1>2. Last(st) = st[Len(st)] BY DEF Last
<1>3. st[Len(st)] \in Entry BY <1>1
<1>4. /\ Front(st) \in Seq(Entry) /\ Len(Front(st)) = Len(st) - 1
      /\ \A i \in 1..Len(st) - 1 : Front(st)[i] = st[i]
  <2> DEFINE m == Len(st) - 1
  <2>1. m \in 0..Len(st) /\ m \in Nat BY <1>1
  <2>2. Front(st) = SubSeq(st, 1, m) BY DEF Front
  <2> HIDE DEF m
  <2>3. SubSeq(st, 1, m) \in Seq(Entry) /\ Len(SubSeq(st, 1, m)) = m
        /\ \A i \in 1..m : SubSeq(st, 1, m)[i] = st[i]
    BY <2>1
  <2> QED BY <2>2, <2>3 DEF m
<1> QED BY <1>1, <1>2, <1>3, <1>4

\* Below an address with a choice of its own there are that choice and another level.
LEMMA ChoiceBelow ==
  ASSUME Ready, NEW base, Fits(At, e, Levels, capture, base, Len(stack) + 1),
         At[p].pend # <<>>
  PROVE  LET n == Len(stack) + 1
             q == Last(At[p].pend)
         IN  /\ n > 1 /\ n - 1 = Len(stack) /\ stack # <<>>
             /\ stack[n - 1].s # NULL /\ stack[n - 1].p = q /\ Levels[n - 1] = stack[n - 1]
             /\ q \in DOMAIN At /\ At[q].main = At[p].main /\ At[q].pend = Front(At[p].pend)
             /\ base[n] = base[n - 1]
             /\ LevelOK(At, e, Levels, capture, base, n - 1)
             /\ (At[p].main => Len(At[p].pend) >= 2) => n > 2
<1> DEFINE n == Len(stack) + 1
           q == Last(At[p].pend)
<1>1. /\ n \in Nat \ {0} /\ IsTyping(At) /\ IsWhere(At[p])
      /\ LevelOK(At, e, Levels, capture, base, n) /\ Levels[n].p = p /\ p \in DOMAIN At
  BY Current
<1>2. stack \in Seq(Entry) BY DEF Ready, MachineOK
<1>3. Linked(At, Levels, n) /\ Based(At, Levels, base, n) BY <1>1 DEF LevelOK
<1>4. n > 1 /\ Levels[n - 1].s # NULL /\ Levels[n - 1].p = q BY <1>1, <1>3 DEF Linked
<1>5. n - 1 = Len(stack) /\ Len(stack) \in Nat /\ n - 1 \in 1..Len(stack) BY <1>2, <1>4, LevelsAre
<1>6. Levels[n - 1] = stack[n - 1] BY <1>2, <1>5, LevelsAre
<1>7. stack # <<>> BY <1>4, <1>5
<1>8. base[n] = base[n - 1] BY <1>3, <1>4 DEF Based
<1>9. n - 1 \in 1..Len(stack) + 1 BY <1>5
<1>10. LevelOK(At, e, Levels, capture, base, n - 1) BY <1>9 DEF Fits
<1>11. p # 0 BY <1>1 DEF IsTyping, Where
<1>12. Within(At, At[p]) BY <1>1, <1>11 DEF IsTyping
<1>13. q \in DOMAIN At /\ At[q].main = At[p].main /\ At[q].pend = Front(At[p].pend) BY <1>12 DEF Within
<1>14. ASSUME n - 1 = 1 PROVE At[p].main /\ Len(At[p].pend) = 1
  <2>1. At[q].pend = <<>> /\ At[q].main
    <3>1. Linked(At, Levels, 1) BY <1>10, <1>14 DEF LevelOK
    <3>2. Levels[1].p = q BY <1>4, <1>14
    <3>3. At[q].pend = <<>> BY <3>1, <3>2 DEF Linked
    <3> QED BY <3>1, <3>2, <3>3 DEF Linked
  <2>2. At[p].pend \in Seq(Nat) BY <1>1 DEF IsWhere
  <2>3. Len(Front(At[p].pend)) = 0 BY <2>1, <1>13
  <2> DEFINE sq == At[p].pend
             m == Len(sq) - 1
  <2>4. sq \in Seq(Nat) /\ sq # <<>> /\ Front(sq) = SubSeq(sq, 1, m) BY <2>2 DEF Front
  <2> HIDE DEF sq
  <2>5. Len(sq) \in Nat \ {0} BY <2>4
  <2>6. m \in 0..Len(sq) BY <2>5
  <2>7. m = 0
    <3> HIDE DEF m
    <3>1. Len(SubSeq(sq, 1, m)) = m BY <2>4, <2>6
    <3>2. Len(Front(sq)) = 0 BY <2>3 DEF sq
    <3> QED BY <3>1, <3>2, <2>4
  <2>8. Len(sq) = 1 BY <2>5, <2>7
  <2> QED BY <2>1, <2>8, <1>13 DEF sq
<1>15. (At[p].main => Len(At[p].pend) >= 2) => n > 2
  <2> SUFFICES ASSUME At[p].main => Len(At[p].pend) >= 2 PROVE n > 2 OBVIOUS
  <2> HIDE DEF n
  <2>1. n - 1 # 1
    <3> SUFFICES ASSUME n - 1 = 1 PROVE FALSE OBVIOUS
    <3>1. At[p].main /\ Len(At[p].pend) = 1 BY <1>14
    <3>2. 1 >= 2 BY <3>1
    <3> QED BY <3>2
  <2> QED BY <2>1, <1>1, <1>4
<1> HIDE DEF n, q
<1> QED BY <1>4, <1>5, <1>6, <1>7, <1>8, <1>10, <1>13, <1>15 DEF n, q

\* The last entry of the stack is taken off, and the machine goes on at j (lpeg.c:392, 502).
LEMMA PopOK ==
  ASSUME Ready, NEW base, Fits(At, e, Levels, capture, base, Len(stack) + 1), stack # <<>>,
         NEW j \in DOMAIN At \ {0}, Goto(j, s), stack' = Front(stack), UNCHANGED capture,
         At[j].main = At[stack[Len(stack)].p].main, At[j].pend = At[stack[Len(stack)].p].pend,
         base[Len(stack)] + At[j].open = base[Len(stack) + 1] + At[p].open,
         At[j].since <= At[p].since
  PROVE  MachineOK'
<1> DEFINE n == Len(stack) + 1
<1>1. /\ n \in Nat /\ IsTyping(At) /\ e \in Int /\ s \in Nat
      /\ Levels[n].s = s /\ Levels[n].p = p /\ Levels[n].caplevel = Len(capture) /\ s # NULL
  BY Current
<1>2. CapturesOK(capture) /\ stack \in Seq(Entry) BY DEF Ready, MachineOK
<1>3. Len(stack) \in Nat \ {0} /\ n > 1 /\ n - 1 = Len(stack) BY <1>2, StackFront
<1>4. p' = j /\ s' = s /\ UNCHANGED <<case, patt>> BY DEF Goto
<1>5. stack' \in Seq(Entry) /\ Len(stack') = n - 2 /\ \A i \in 1..n - 2 : stack'[i] = stack[i]
  <2>1. Len(stack) - 1 = n - 2 BY <1>3
  <2>2. /\ stack' \in Seq(Entry) /\ Len(stack') = Len(stack) - 1
        /\ \A i \in 1..Len(stack) - 1 : stack'[i] = stack[i]
    BY <1>2, StackFront
  <2> QED BY <2>1, <2>2
<1>6. \A i \in 1..n - 2 : Levels'[i] = Levels[i]
  <2> SUFFICES ASSUME NEW i \in 1..n - 2 PROVE Levels'[i] = Levels[i] OBVIOUS
  <2>1. i \in 1..Len(stack') /\ i \in 1..Len(stack) BY <1>3, <1>5
  <2> QED BY <2>1, <1>2, <1>5, LevelsAre, LevelsBecome
<1>7. Levels'[n - 1] = [s |-> s, p |-> j, caplevel |-> Len(capture)]
  <2>1. Len(stack') + 1 = n - 1 BY <1>1, <1>5
  <2> QED BY <2>1, <1>4, <1>5, LevelsBecome
<1>8. Levels[n - 1] = stack[Len(stack)] BY <1>2, <1>3, LevelsAre
<1>9. Fits(At, e, Levels, capture, base, n) OBVIOUS
<1>10. base[n - 1] + At[j].open = base[n] + At[p].open BY <1>3
<1> HIDE DEF n
<1>11. Fits(At, e, Levels', capture, base, n - 1)
  BY <1>1, <1>2, <1>3, <1>6, <1>7, <1>8, <1>9, <1>10, Uncovered
<1>12. n - 1 = Len(stack') + 1 BY <1>1, <1>5
<1>13. j \in Nat /\ s \in Nat \ {0} BY <1>1 DEF IsTyping, NULL
<1> QED BY <1>2, <1>4, <1>5, <1>11, <1>12, <1>13, Arrives

-----------------------------------------------------------------------------
(* The instructions, one after the other.                                  *)

\* What an instruction must do.
Goes ==
  /\ UNCHANGED <<case, patt>> /\ status' \notin {"new", "assertion"}
  /\ status' = "match" => MachineOK'

\* An instruction other than the one that gives up is one of the code.
LEMMA Here ==
  ASSUME Ready, I.op # "IGiveup"
  PROVE  /\ p # 0 /\ p \in DOMAIN At \ {0} /\ I = patt.code[p] /\ Typed(patt.code, At)
         /\ FieldsOK(I) /\ Needs(patt.code, At, p)
         /\ IsTyping(At) /\ IsWhere(At[p]) /\ s \in At[p].since + 1..e /\ s \in Nat /\ e \in Int
         /\ stack # <<>> /\ Len(stack) \in Nat \ {0} /\ stack \in Seq(Entry) /\ CapturesOK(capture)
<1>1. PICK base : Fits(At, e, Levels, capture, base, Len(stack) + 1) BY DEF Ready, MachineOK
<1>2. /\ p \in DOMAIN At /\ IsTyping(At) /\ IsWhere(At[p]) /\ s \in At[p].since + 1..e /\ s \in Nat
      /\ e \in Int /\ (p # 0 <=> Len(stack) + 1 > 1)
  BY <1>1, Current
<1>3. p # 0 /\ I = patt.code[p] BY DEF I, Inst
<1>4. stack \in Seq(Entry) /\ CapturesOK(capture) BY DEF Ready, MachineOK
<1>5. stack # <<>> /\ Len(stack) \in Nat \ {0}
  <2>1. Len(stack) \in Nat BY <1>4
  <2>2. Len(stack) > 0 BY <2>1, <1>2, <1>3
  <2> QED BY <2>1, <2>2
<1>6. Typed(patt.code, At) BY DEF Ready
<1>7. FieldsOK(patt.code[p]) /\ Needs(patt.code, At, p) BY <1>2, <1>3, <1>6, TypedIs
<1> QED BY <1>2, <1>3, <1>4, <1>5, <1>6, <1>7

LEMMA EndGoes ==
  ASSUME Ready, IEnd
  PROVE  Goes
<1>1. I.op = "IEnd" /\ I.op # "IGiveup" BY DEF IEnd, Executes
<1>2. At[p].main /\ At[p].pend = <<0>> /\ IsTyping(At)
  <2>1. I = patt.code[p] /\ Needs(patt.code, At, p) /\ IsTyping(At) BY <1>1, Here
  <2> QED BY <2>1, <1>1 DEF Needs
<1>3. PICK base : Fits(At, e, Levels, capture, base, Len(stack) + 1) BY DEF Ready, MachineOK
<1>4. At[p].pend # <<>> /\ Last(At[p].pend) = 0 BY <1>2 DEF Last
<1> DEFINE m == Len(stack) + 1 - 1
<1>5. m = Len(stack) /\ m + 1 > 1 /\ Levels[m].p = 0 /\ LevelOK(At, e, Levels, capture, base, m)
  BY <1>3, <1>4, ChoiceBelow
<1>6. m \in Nat \ {0} BY <1>1, <1>5, Here
<1> HIDE DEF m
<1>7. ~(m > 1) BY <1>2, <1>5, <1>6, NotFirst
<1>8. Len(stack) = 1 BY <1>5, <1>6, <1>7
<1> QED BY <1>8 DEF IEnd, Goes

LEMMA RetGoes ==
  ASSUME Ready, IRet
  PROVE  Goes
<1>1. I.op = "IRet" /\ I.op # "IGiveup" BY DEF IRet, Executes
<1>2. /\ ~At[p].main /\ At[p].pend = <<>> /\ At[p].open = 0 /\ IsTyping(At) /\ IsWhere(At[p])
      /\ stack # <<>> /\ stack \in Seq(Entry) /\ Len(stack) \in Nat \ {0}
  <2>1. I = patt.code[p] /\ Needs(patt.code, At, p) BY <1>1, Here
  <2>2. /\ IsTyping(At) /\ IsWhere(At[p])
        /\ stack # <<>> /\ stack \in Seq(Entry) /\ Len(stack) \in Nat \ {0}
    BY <1>1, Here
  <2> QED BY <2>1, <2>2, <1>1 DEF Needs
<1>3. PICK base : Fits(At, e, Levels, capture, base, Len(stack) + 1) BY DEF Ready, MachineOK
<1> DEFINE m == Len(stack)
           n == m + 1
           j == stack[m].p
<1>4. LevelOK(At, e, Levels, capture, base, n) /\ Levels[n].p = p BY <1>3, Current
<1>5. m \in Nat \ {0} /\ n - 1 = m /\ n > 1 /\ m \in 1..m /\ m \in 1..n /\ 1 \in 1..n BY <1>2
<1>6. Levels[m] = stack[m] /\ Last(stack) = stack[m] BY <1>2, <1>5, LevelsAre, StackFront
<1>7. LevelOK(At, e, Levels, capture, base, m) /\ LevelOK(At, e, Levels, capture, base, 1)
  BY <1>3, <1>5 DEF Fits
<1> HIDE DEF m, n, j
<1>8. Levels[m].s = NULL /\ base[n] = base[m] + At[j].open
  <2>1. Linked(At, Levels, n) /\ Based(At, Levels, base, n) BY <1>4 DEF LevelOK
  <2>2. Levels[m].s = NULL BY <2>1, <1>2, <1>4, <1>5 DEF Linked
  <2>3. n # 1 BY <1>5
  <2> QED BY <2>1, <2>2, <2>3, <1>5, <1>6 DEF Based, j
<1>9. At[j].since = 0 /\ j \in DOMAIN At BY <1>6, <1>7, <1>8 DEF LevelOK, j
<1>10. j # 0
  <2>1. m # 1 BY <1>7, <1>8 DEF LevelOK
  <2>2. Levels[m].p # 0 BY <2>1, <1>2, <1>5, <1>7, NotFirst
  <2> QED BY <2>2, <1>6 DEF j
<1>11. /\ status' = status /\ Goto(j, s) /\ stack' = Front(stack) /\ UNCHANGED capture
  <2>1. assert(Pending(FALSE)) /\ Goto(Last(stack).p, s) /\ stack' = Front(stack) /\ UNCHANGED capture
    BY DEF IRet
  <2>2. Pending(FALSE) BY <1>2, <1>6, <1>8 DEF Pending
  <2> QED BY <2>1, <2>2, <1>6 DEF assert, j
<1>12. MachineOK'
  <2>1. base[Len(stack)] + At[j].open = base[Len(stack) + 1] + At[p].open
    <3>1. At[j].open \in Nat /\ base[m] \in Nat BY <1>2, <1>7, <1>9 DEF IsTyping, IsWhere, LevelOK
    <3> QED BY <3>1, <1>2, <1>8 DEF m, n
  <2>2. At[j].since <= At[p].since BY <1>2, <1>9 DEF IsWhere
  <2>3. At[j].main = At[stack[Len(stack)].p].main /\ At[j].pend = At[stack[Len(stack)].p].pend
    BY DEF j, m
  <2>4. j \in DOMAIN At \ {0} BY <1>9, <1>10
  <2> QED BY <2>1, <2>2, <2>3, <2>4, <1>2, <1>3, <1>11, PopOK
<1> QED BY <1>11, <1>12 DEF Ready, Goto, Goes

LEMMA CommitGoes ==
  ASSUME Ready, ICommit
  PROVE  Goes
<1>1. I.op = "ICommit" /\ I.op # "IGiveup" BY DEF ICommit, Executes
<1> DEFINE j == p + I.off
           m == Len(stack)
<1>2. /\ p \in DOMAIN At \ {0} /\ I = patt.code[p] /\ Typed(patt.code, At) /\ IsWhere(At[p])
      /\ stack # <<>> /\ stack \in Seq(Entry) /\ m \in Nat \ {0}
  BY <1>1, Here
<1>3. /\ At[p].pend # <<>> /\ j \in DOMAIN At \ {0}
      /\ At[j].main = At[p].main /\ At[j].pend = Front(At[p].pend)
      /\ At[j].open = At[p].open /\ At[j].since <= At[p].since
  <2>1. patt.code[p].op \in {"ICommit", "IBackCommit"} BY <1>1, <1>2
  <2> QED BY <2>1, <1>1, <1>2, FlowCommit
<1>4. PICK base : Fits(At, e, Levels, capture, base, Len(stack) + 1) BY DEF Ready, MachineOK
<1>5. /\ stack[m].s # NULL /\ stack[m].p = Last(At[p].pend)
      /\ At[Last(At[p].pend)].main = At[p].main /\ At[Last(At[p].pend)].pend = Front(At[p].pend)
      /\ base[m + 1] = base[m]
  <2>1. m + 1 - 1 = m BY <1>2
  <2> QED BY <2>1, <1>3, <1>4, ChoiceBelow
<1>6. Last(stack) = stack[m] BY <1>2, StackFront
<1> HIDE DEF j
<1>7. status' = status /\ Goto(j, s) /\ stack' = Front(stack) /\ UNCHANGED capture
  <2>1. assert(Pending(TRUE)) /\ Goto(j, s) /\ stack' = Front(stack) /\ UNCHANGED capture
    BY DEF ICommit, j
  <2>2. Pending(TRUE) BY <1>2, <1>5, <1>6 DEF Pending
  <2> QED BY <2>1, <2>2 DEF assert
<1>8. MachineOK'
  <2>1. At[j].main = At[stack[m].p].main /\ At[j].pend = At[stack[m].p].pend BY <1>3, <1>5
  <2>2. base[m] + At[j].open = base[m + 1] + At[p].open BY <1>3, <1>5
  <2> QED BY <2>1, <2>2, <1>2, <1>3, <1>4, <1>7, PopOK
<1> QED BY <1>7, <1>8 DEF Ready, Goto, Goes

\* A sequence is its last element after the others.
LEMMA FrontLast ==
  ASSUME NEW S, NEW sq \in Seq(S), sq # <<>>
  PROVE  sq = Append(Front(sq), Last(sq))
<1> DEFINE m == Len(sq) - 1
<1>1. Len(sq) \in Nat \ {0} OBVIOUS
<1>2. m \in Nat /\ m \in 0..Len(sq) /\ m + 1 = Len(sq) BY <1>1
<1>3. Front(sq) = SubSeq(sq, 1, m) /\ Last(sq) = sq[m + 1] BY <1>2 DEF Front, Last
<1> HIDE DEF m
<1>4. SubSeq(sq, 1, m) \in Seq(S) /\ Len(SubSeq(sq, 1, m)) = m /\ \A i \in 1..m : SubSeq(sq, 1, m)[i] = sq[i]
  BY <1>2
<1>5. sq[m + 1] \in S BY <1>1, <1>2
<1> DEFINE f == SubSeq(sq, 1, m)
           x == sq[m + 1]
<1>6. f \in Seq(S) /\ Len(f) = m /\ x \in S /\ \A i \in 1..m : f[i] = sq[i] BY <1>4, <1>5
<1> HIDE DEF f
<1>7. Append(f, x) \in Seq(S) /\ Len(Append(f, x)) = m + 1 /\ \A i \in 1..m + 1 : Append(f, x)[i] = sq[i]
  BY <1>2, <1>6
<1>8. Append(f, x) = sq
  <2> DEFINE g == Append(f, x)
  <2>1. g \in Seq(S) /\ Len(g) = Len(sq) /\ \A i \in 1..Len(sq) : g[i] = sq[i] BY <1>2, <1>7
  <2> HIDE DEF g
  <2>2. g = sq BY <2>1
  <2> QED BY <2>2 DEF g
<1> QED BY <1>3, <1>8 DEF f

LEMMA PartialCommitGoes ==
  ASSUME Ready, IPartialCommit
  PROVE  Goes
<1>1. I.op = "IPartialCommit" /\ I.op # "IGiveup" BY DEF IPartialCommit, Executes
<1> DEFINE j == p + I.off
           m == Len(stack)
           n == m + 1
           x == At[p]
           q == Last(x.pend)
<1>2. /\ p \in DOMAIN At \ {0} /\ I = patt.code[p] /\ Typed(patt.code, At) /\ IsWhere(x) /\ IsTyping(At)
      /\ s \in x.since + 1..e /\ s \in Nat /\ e \in Int
      /\ stack # <<>> /\ stack \in Seq(Entry) /\ m \in Nat \ {0} /\ CapturesOK(capture)
  BY <1>1, Here
<1>3. x.pend # <<>> /\ At[q].open = x.open /\ At[q].since <= x.since
  <2>1. Needs(patt.code, At, p) /\ I = patt.code[p] BY <1>1, Here
  <2> QED BY <2>1, <1>1 DEF Needs
<1>4. Same(At, p, j, 0) BY <1>1, <1>2, FlowJumps
<1>5. /\ j \in DOMAIN At /\ At[j].main = x.main /\ At[j].pend = x.pend /\ At[j].open = x.open
      /\ At[j].since <= x.since + 0 /\ At[j].since \in Nat /\ x.since \in Nat /\ j \in Nat
  BY <1>2, <1>4 DEF Same, IsTyping, IsWhere
<1>6. PICK base : Fits(At, e, Levels, capture, base, n) BY DEF Ready, MachineOK
<1>7. /\ n \in Nat \ {0} /\ n > 1 /\ n - 1 = m /\ m \in 1..m /\ m + 1 = n BY <1>2
<1>8. /\ stack[m].s # NULL /\ stack[m].p = q /\ Levels[m] = stack[m] /\ q \in DOMAIN At
      /\ At[q].main = x.main /\ At[q].pend = Front(x.pend) /\ base[n] = base[m]
      /\ LevelOK(At, e, Levels, capture, base, m)
  <2>1. m + 1 - 1 = m BY <1>2
  <2> QED BY <2>1, <1>3, <1>6, ChoiceBelow
<1>9. /\ Levels[n].s = s /\ Levels[n].p = p /\ Levels[n].caplevel = Len(capture) /\ s # NULL
      /\ LevelOK(At, e, Levels, capture, base, n)
  BY <1>6, Current
<1>10. Last(stack) = stack[m] /\ stack[m] \in Entry BY <1>2, StackFront
<1> DEFINE top == [s |-> s, p |-> q, caplevel |-> Len(capture)]
<1>11. Len(capture) \in Nat BY <1>2, CaptureType
<1>12. q \in Nat BY <1>2, <1>8 DEF IsTyping
<1>13. stack' = [stack EXCEPT ![m] = top]
  <2>1. [stack EXCEPT ![m].s = s, ![m].caplevel = Len(capture)] = [stack EXCEPT ![m] = top]
    <3> DEFINE old == stack[m]
               new == [[old EXCEPT !.s = s] EXCEPT !.caplevel = Len(capture)]
    <3>1. new = top
      <4>1. old \in Entry /\ old.p = q BY <1>8, <1>10
      <4> HIDE DEF old, q
      <4>2. old = [s |-> old.s, p |-> q, caplevel |-> old.caplevel] BY <4>1 DEF Entry
      <4>3. [old EXCEPT !.s = s] = [s |-> s, p |-> q, caplevel |-> old.caplevel] BY <4>2
      <4>4. [[s |-> s, p |-> q, caplevel |-> old.caplevel] EXCEPT !.caplevel = Len(capture)] = top OBVIOUS
      <4> QED BY <4>3, <4>4
    <3>2. [stack EXCEPT ![m].s = s, ![m].caplevel = Len(capture)] = [stack EXCEPT ![m] = new]
      BY <1>2
    <3> QED BY <3>1, <3>2
  <2> QED BY <2>1 DEF IPartialCommit
<1>14. /\ status' = status /\ Goto(j, s) /\ UNCHANGED capture
  <2>1. assert(Pending(TRUE)) /\ Goto(j, s) /\ UNCHANGED capture BY DEF IPartialCommit
  <2>2. Pending(TRUE) BY <1>2, <1>8, <1>10 DEF Pending
  <2> QED BY <2>1, <2>2 DEF assert
<1>15. top \in Entry BY <1>2, <1>11, <1>12 DEF Entry
<1> HIDE DEF top, q, j, x
<1>16. /\ stack' \in Seq(Entry) /\ Len(stack') = m /\ stack'[m] = top
       /\ \A i \in 1..m - 1 : stack'[i] = stack[i]
  <2> HIDE DEF Entry
  <2> QED BY <1>2, <1>7, <1>13, <1>15
<1>17. Levels'[n] = [s |-> s, p |-> j, caplevel |-> Len(capture)]
  <2>1. p' = j /\ s' = s /\ capture' = capture BY <1>14 DEF Goto
  <2> QED BY <2>1, <1>16, LevelsBecome
<1>18. Levels'[m] = top /\ \A i \in 1..m - 1 : Levels'[i] = Levels[i]
  <2>1. Levels'[m] = top BY <1>7, <1>16, LevelsBecome
  <2>2. ASSUME NEW i \in 1..m - 1 PROVE Levels'[i] = Levels[i]
    <3>1. i \in 1..m BY <1>2
    <3> QED BY <3>1, <1>2, <1>16, LevelsAre, LevelsBecome
  <2> QED BY <2>1, <2>2
<1> HIDE DEF n, m
<1>19. Fits(At, e, Levels', capture, base, m)
  <2>1. n - 2 = m - 1 BY <1>7
  <2>2. \A i \in 1..n - 2 : Levels'[i] = Levels[i] BY <2>1, <1>18
  <2>3. Levels'[n - 1] = [s |-> Levels[n].s, p |-> q, caplevel |-> Levels[n].caplevel]
    BY <1>7, <1>9, <1>18 DEF top
  <2>4. Levels[n - 1].p = q /\ Levels[n].p = p BY <1>7, <1>8, <1>9
  <2>5. base[n - 1] + At[q].open = base[n] + At[p].open BY <1>3, <1>7, <1>8 DEF x, q
  <2>6. At[q].since <= At[p].since BY <1>3 DEF x, q
  <2>7. Fits(At, e, Levels', capture, base, n - 1)
    BY <2>2, <2>3, <2>4, <2>5, <2>6, <1>2, <1>6, <1>7, <1>8, <1>9, Uncovered
  <2> QED BY <2>7, <1>7
<1>20. \E base2 : Fits(At, e, Levels', capture, base2, m + 1)
  <2>1. Levels'[m].s = s /\ Levels'[m].p = q /\ Levels'[m].caplevel = Len(capture) BY <1>18 DEF top
  <2>2. s \in At[j].since + 1..e BY <1>2, <1>5
  <2>3. Levels'[m + 1] = [s |-> s, p |-> j, caplevel |-> Len(capture)] BY <1>7, <1>17
  <2>4. At[j].pend = Append(At[q].pend, q)
    <3>1. x.pend \in Seq(Nat) BY <1>2 DEF IsWhere
    <3>2. x.pend = Append(Front(x.pend), Last(x.pend)) BY <3>1, <1>3, FrontLast
    <3> QED BY <3>2, <1>5, <1>8 DEF q
  <2>5. At[j].main = At[q].main /\ At[j].open = At[q].open BY <1>3, <1>5, <1>8 DEF q
  <2>6. ASSUME NEW k \in 1..Len(capture)
        PROVE  capture[k].s <= s - At[j].since /\ closeaddr(capture[k]) <= s - At[j].since
    <3>1. Keeps(At, e, Levels, capture, n) BY <1>9 DEF LevelOK
    <3>2. capture[k].s <= s - x.since /\ closeaddr(capture[k]) <= s - x.since
      BY <3>1, <1>9 DEF Keeps, x
    <3>3. capture[k].s \in Int /\ closeaddr(capture[k]) \in Int BY <1>2, CaptureType
    <3> QED BY <3>2, <3>3, <1>2, <1>5
  <2>7. m \in Nat \ {0} BY <1>2 DEF m
  <2> QED BY <2>1, <2>2, <2>3, <2>4, <2>5, <2>6, <2>7, <1>2, <1>5, <1>9, <1>19, OnChoice
<1>21. MachineOK'
  <2>1. p' = j /\ s' = s /\ UNCHANGED <<case, patt, capture>> BY <1>14 DEF Goto
  <2>2. s \in Nat \ {0} BY <1>2, <1>9 DEF NULL
  <2>3. PICK base2 : Fits(At, e, Levels', capture', base2, Len(stack') + 1) BY <2>1, <1>16, <1>20
  <2> QED BY <2>1, <2>2, <2>3, <1>2, <1>5, <1>16, Arrives
<1> QED BY <1>14, <1>21 DEF Ready, Goto, Goes

LEMMA BackCommitGoes ==
  ASSUME Ready, IBackCommit
  PROVE  Goes
<1>1. I.op = "IBackCommit" /\ I.op # "IGiveup" BY DEF IBackCommit, Executes
<1> DEFINE j == p + I.off
           m == Len(stack)
           q == Last(At[p].pend)
<1>2. /\ p \in DOMAIN At \ {0} /\ I = patt.code[p] /\ Typed(patt.code, At) /\ IsTyping(At) /\ e \in Int
      /\ stack # <<>> /\ stack \in Seq(Entry) /\ m \in Nat \ {0} /\ CapturesOK(capture)
  BY <1>1, Here
<1>3. /\ At[p].pend # <<>> /\ j \in DOMAIN At \ {0}
      /\ At[j].main = At[p].main /\ At[j].pend = Front(At[p].pend)
      /\ At[j].open = At[q].open /\ At[j].since = 0
  <2>1. patt.code[p].op \in {"ICommit", "IBackCommit"} BY <1>1, <1>2
  <2> QED BY <2>1, <1>1, <1>2, FlowCommit
<1>4. PICK base : Fits(At, e, Levels, capture, base, Len(stack) + 1) BY DEF Ready, MachineOK
<1>5. /\ stack[m].s # NULL /\ stack[m].p = q /\ Levels[m] = stack[m] /\ q \in DOMAIN At
      /\ At[q].main = At[p].main /\ At[q].pend = Front(At[p].pend)
      /\ LevelOK(At, e, Levels, capture, base, m)
  <2>1. m + 1 - 1 = m BY <1>2
  <2> QED BY <2>1, <1>3, <1>4, ChoiceBelow
<1>6. Last(stack) = stack[m] /\ stack[m] \in Entry BY <1>2, StackFront
<1> HIDE DEF j, q
<1> DEFINE l == stack[m].caplevel
           cut == SubSeq(capture, 1, Levels[m].caplevel)
<1>7. /\ status' = status /\ Goto(j, stack[m].s) /\ stack' = Front(stack) /\ capture' = cut
  <2>1. assert(Pending(TRUE)) /\ Goto(j, Last(stack).s) /\ stack' = Front(stack)
        /\ capture' = SubSeq(capture, 1, Last(stack).caplevel)
    BY DEF IBackCommit, j
  <2>2. Pending(TRUE) BY <1>2, <1>5, <1>6 DEF Pending
  <2> QED BY <2>1, <2>2, <1>5, <1>6 DEF assert
<1>8. CapturesOK(cut) /\ Len(cut) = l /\ Fits(At, e, Levels, cut, base, m)
  <2>1. m \in 1..Len(stack) + 1 /\ Len(stack) + 1 \in Nat BY <1>2
  <2>2. Levels[m].s # NULL /\ Levels[m].caplevel = l BY <1>5
  <2> DEFINE n == Len(stack) + 1
  <2>3. n \in Nat /\ m \in 1..n /\ Fits(At, e, Levels, capture, base, n) BY <2>1, <1>4
  <2> HIDE DEF n, cut, l, m
  <2>4. CapturesOK(cut) /\ Len(cut) = Levels[m].caplevel /\ Fits(At, e, Levels, cut, base, m)
    BY <2>2, <2>3, <1>2, BackTo DEF cut
  <2> QED BY <2>2, <2>4
<1>9. p' = j /\ s' = stack[m].s /\ UNCHANGED <<case, patt>> BY <1>7 DEF Goto
<1>10. stack' \in Seq(Entry) /\ Len(stack') = m - 1 /\ \A i \in 1..m - 1 : stack'[i] = stack[i]
  BY <1>2, <1>7, StackFront
<1>11. Levels'[m] = [s |-> stack[m].s, p |-> j, caplevel |-> l]
  <2>1. Len(stack') + 1 = m BY <1>2, <1>10
  <2>2. Len(capture') = l BY <1>7, <1>8
  <2> QED BY <2>1, <2>2, <1>9, <1>10, LevelsBecome
<1>12. \A i \in 1..m - 1 : Levels'[i] = Levels[i]
  <2> SUFFICES ASSUME NEW i \in 1..m - 1 PROVE Levels'[i] = Levels[i] OBVIOUS
  <2>1. i \in 1..m BY <1>2
  <2> QED BY <2>1, <1>2, <1>10, LevelsAre, LevelsBecome
<1>13. At[q].since \in Nat /\ j \in Nat BY <1>2, <1>3, <1>5 DEF IsTyping, IsWhere
<1> HIDE DEF cut, l, m
<1>14. stack[m].s \in At[q].since + 1..e /\ stack[m].s \in Nat \ {0} /\ stack[m].p \in Nat
  <2>1. Keeps(At, e, Levels, capture, m) BY <1>5 DEF LevelOK
  <2> QED BY <2>1, <1>5, <1>6 DEF Keeps, Entry, NULL
<1>15. Fits(At, e, Levels', cut, base, m)
  <2>1. Levels[m].s # NULL /\ Levels[m].s \in Int /\ Levels[m].p = q /\ Levels[m].caplevel = l
    BY <1>5, <1>14 DEF l
  <2>2. stack[m].s \in At[j].since + 1..e BY <1>3, <1>13, <1>14
  <2>3. At[j].main = At[q].main /\ At[j].pend = At[q].pend /\ At[j].open = At[q].open BY <1>3, <1>5
  <2>4. Levels[m].s - At[q].since <= stack[m].s - At[j].since BY <1>3, <1>5, <1>13, <1>14
  <2>5. m \in Nat \ {0} BY <1>2
  <2> QED BY <2>1, <2>2, <2>3, <2>4, <2>5, <1>2, <1>3, <1>8, <1>11, <1>12, Moved
<1>16. MachineOK'
  <2>1. Len(stack') + 1 = m BY <1>2, <1>10
  <2>2. Fits(At, e, Levels', capture', base, Len(stack') + 1) /\ CapturesOK(capture')
    BY <2>1, <1>7, <1>8, <1>15
  <2> QED BY <2>2, <1>9, <1>10, <1>13, <1>14, Arrives
<1> QED BY <1>7, <1>9, <1>16 DEF Ready, Goes

\* An instruction that fails.
LEMMA FailGoes ==
  ASSUME Ready, I.op # "IGiveup", Fail(stack)
  PROVE  Goes
<1>1. stack \in Seq(Entry) /\ Len(stack) \in Nat \ {0} BY Here
<1>2. Len(stack) \in 1..Len(stack) /\ \A i \in 1..Len(stack) : stack[i] = stack[i] BY <1>1
<1>3. MachineOK' /\ status' = status BY <1>1, <1>2, FailOK
<1>4. UNCHANGED <<case, patt>> BY DEF Fail, Goto
<1> QED BY <1>3, <1>4 DEF Ready, Goes

LEMMA FailTwiceGoes ==
  ASSUME Ready, IFailTwice
  PROVE  Goes
<1>1. I.op = "IFailTwice" /\ I.op # "IGiveup" BY DEF IFailTwice, Executes
<1>2. stack \in Seq(Entry) /\ stack # <<>> /\ Len(stack) \in Nat \ {0} BY <1>1, Here
<1>3. At[p].pend # <<>> /\ (At[p].main => Len(At[p].pend) >= 2)
  <2>1. Needs(patt.code, At, p) /\ I = patt.code[p] BY <1>1, Here
  <2> QED BY <2>1, <1>1 DEF Needs
<1>4. PICK base : Fits(At, e, Levels, capture, base, Len(stack) + 1) BY DEF Ready, MachineOK
<1>5. Len(stack) + 1 > 2 BY <1>3, <1>4, ChoiceBelow
<1> DEFINE st == Front(stack)
<1>6. st \in Seq(Entry) /\ Len(st) = Len(stack) - 1 /\ \A i \in 1..Len(stack) - 1 : st[i] = stack[i]
  BY <1>2, StackFront
<1> HIDE DEF st
<1>7. Len(st) \in 1..Len(stack) /\ \A i \in 1..Len(st) : st[i] = stack[i] BY <1>2, <1>5, <1>6
<1>8. Fail(st) BY DEF IFailTwice, st
<1>9. MachineOK' /\ status' = status BY <1>6, <1>7, <1>8, FailOK
<1>10. UNCHANGED <<case, patt>> BY <1>8 DEF Fail, Goto
<1> QED BY <1>9, <1>10 DEF Ready, Goes

\* An instruction that goes on at j, where the stack and the captures are typed alike.
LEMMA StaysGoes ==
  ASSUME Ready, I.op # "IGiveup", NEW n \in Int, NEW d \in Int, Same(At, p, p + n, d),
         NEW s2 \in Int, s + d <= s2, s2 <= e, Next_(n, s2)
  PROVE  Goes
<1>1. p # 0 BY Here
<1>2. Goto(p + n, s2) /\ UNCHANGED <<stack, capture, status>> BY DEF Next_
<1>3. MachineOK' BY <1>1, <1>2, StaysOK
<1> QED BY <1>2, <1>3 DEF Ready, Goto, Goes

LEMMA SizeType ==
  ASSUME NEW inst
  PROVE  sizei(inst) \in Int
BY DEF sizei

\* A set without NUL does not hold the character after the end.
LEMMA InSubject ==
  ASSUME NEW set, NUL \notin set, s \in Int, e \in Int, s <= e, byte(s) \in set
  PROVE  s < e
BY DEF byte

\* A test that holds leaves the position in the subject.
LEMMA HoldsGoes ==
  ASSUME Ready, I.op \in Checks \cup Tests, Holds, Next_(sizei(I), s + Taken)
  PROVE  Goes
<1>1. I.op # "IGiveup" BY Ops
<1>2. /\ p \in DOMAIN At \ {0} /\ I = patt.code[p] /\ Typed(patt.code, At) /\ IsWhere(At[p])
      /\ s \in At[p].since + 1..e /\ s \in Nat /\ e \in Int /\ Needs(patt.code, At, p)
  BY <1>1, Here
<1>3. Taken \in Nat /\ Same(At, p, p + sizei(I), Taken)
  <2>1. LET n == IF I.op \in {"IAny", "ITestAny"} THEN I.aux ELSE 1
        IN  n \in Nat /\ Same(At, p, p + sizei(I), n)
    BY <1>2, FlowHolds
  <2> QED BY <2>1 DEF Taken
<1>4. s <= e BY <1>2
<1>5. s + Taken <= e
  <2>1. CASE I.op \in {"IAny", "ITestAny"}
    <3>1. I.aux <= e - s BY <2>1 DEF Holds
    <3>2. Taken = I.aux BY <2>1 DEF Taken
    <3> QED BY <3>1, <3>2, <1>2, <1>3
  <2>2. CASE I.op \in {"ISet", "ITestSet"}
    <3>1. NUL \notin SetOf(patt.code, p)
      BY <2>2, <1>2 DEF Needs, SetOf, HasCharset
    <3>2. byte(s) \in SetOf(patt.code, p) BY <2>2 DEF Holds
    <3>3. s < e BY <3>1, <3>2, <1>2, <1>4, InSubject
    <3> QED BY <3>3, <2>2, <1>2 DEF Taken
  <2>3. CASE I.op \in {"IChar", "ITestChar", "IZSet", "ITestZSet"}
    <3>1. s < e BY <2>3 DEF Holds
    <3> QED BY <3>1, <2>3, <1>2 DEF Taken
  <2> QED BY <2>1, <2>2, <2>3, Ops
<1>6. sizei(I) \in Int BY SizeType
<1>7. s + Taken \in Int /\ Taken \in Int /\ s + Taken <= s + Taken BY <1>2, <1>3
<1> HIDE DEF Goes
<1> QED BY <1>1, <1>3, <1>5, <1>6, <1>7, StaysGoes

LEMMA CheckGoes ==
  ASSUME Ready, Check
  PROVE  Goes
<1>1. I.op \in Checks /\ IF Holds THEN Next_(sizei(I), s + Taken) ELSE Fail(stack) BY DEF Check, Executes
<1>2. I.op # "IGiveup" BY <1>1, Ops
<1> QED BY <1>1, <1>2, HoldsGoes, FailGoes

LEMMA TestGoes ==
  ASSUME Ready, Test
  PROVE  Goes
<1>1. I.op \in Tests /\ IF Holds THEN Next_(sizei(I), s + Taken) ELSE Next_(I.off, s) BY DEF Test, Executes
<1>2. I.op # "IGiveup" BY <1>1, Ops
<1>3. /\ I = patt.code[p] /\ Same(At, p, p + I.off, 0) /\ I.off \in Int
      /\ s \in Int /\ s + 0 <= s /\ s <= e
  <2>1. /\ p \in DOMAIN At \ {0} /\ I = patt.code[p] /\ Typed(patt.code, At) /\ FieldsOK(I)
        /\ s \in At[p].since + 1..e /\ s \in Nat /\ e \in Int /\ IsWhere(At[p])
    BY <1>2, Here
  <2>2. Same(At, p, p + I.off, 0) BY <2>1, <1>1, FlowJumps
  <2> QED BY <2>1, <2>2 DEF FieldsOK, IsWhere
<1> QED BY <1>1, <1>2, <1>3, HoldsGoes, StaysGoes

\* The characters of a set that follow end in the subject.
LEMMA SpanWithin ==
  ASSUME NEW set, NEW atend, s \in Nat, e \in Int, s <= e, NUL \notin set \/ atend
  PROVE  SpanEnd(set, atend) \in s..e
<1> DEFINE S == {i \in s..e : byte(i) \notin set \/ (atend /\ i = e)} \cup {e + 1}
<1>1. e \in S
  <2>1. byte(e) = NUL BY DEF byte
  <2> QED BY <2>1
<1>2. S \in SUBSET Nat /\ S # {} BY <1>1
<1>3. PICK x \in S : \A y \in S : x <= y
  <2> HIDE DEF S
  <2> QED BY <1>2, MinNat
<1>4. SpanEnd(set, atend) \in S /\ SpanEnd(set, atend) <= e
  <2>1. SpanEnd(set, atend) = Min(S) BY DEF SpanEnd
  <2> HIDE DEF S
  <2>2. Min(S) \in S /\ \A y \in S : Min(S) <= y BY <1>3 DEF Min
  <2> QED BY <2>1, <2>2, <1>1
<1> QED BY <1>4

LEMMA SpanGoes ==
  ASSUME Ready, ISpan \/ IFunc
  PROVE  Goes
<1>1. I.op \in {"ISpan", "ISpanZ", "IFunc"} /\ I.op # "IGiveup" BY DEF ISpan, IFunc, Executes
<1>2. /\ p \in DOMAIN At \ {0} /\ I = patt.code[p] /\ Typed(patt.code, At) /\ Needs(patt.code, At, p)
      /\ s \in At[p].since + 1..e /\ s \in Nat /\ e \in Int /\ IsWhere(At[p])
  BY <1>1, Here
<1>3. s <= e BY <1>2
<1>4. Same(At, p, p + sizei(I), 0) BY <1>1, <1>2, FlowSpans
<1>5. PICK s2 \in s..e : Next_(sizei(I), s2)
  <2>1. CASE ISpan
    <3>1. NUL \notin SetOf(patt.code, p) \/ I.op = "ISpanZ"
      <4>1. I.op \in {"ISpan", "ISpanZ"} BY <2>1 DEF ISpan, Executes
      <4> QED BY <4>1, <1>2 DEF Needs, SetOf, HasCharset
    <3>2. SpanEnd(SetOf(patt.code, p), I.op = "ISpanZ") \in s..e BY <3>1, <1>2, <1>3, SpanWithin
    <3> QED BY <3>2, <2>1 DEF ISpan
  <2>2. CASE IFunc
    <3> DEFINE s2 == SpanEnd(I.set \ {NUL}, FALSE)
    <3>1. s2 \in s..e
      <4> DEFINE set == I.set \ {NUL}
      <4>1. NUL \notin set OBVIOUS
      <4> HIDE DEF set
      <4>2. SpanEnd(set, FALSE) \in s..e BY <4>1, <1>2, <1>3, SpanWithin
      <4> QED BY <4>2 DEF set
    <3>2. Next_(sizei(I), s2) BY <2>2 DEF IFunc
    <3> HIDE DEF s2
    <3> QED BY <3>1, <3>2
  <2> QED BY <2>1, <2>2
<1>6. s2 \in Int /\ s + 0 <= s2 /\ s2 <= e BY <1>2, <1>5
<1>7. sizei(I) \in Int BY SizeType
<1> QED BY <1>1, <1>4, <1>5, <1>6, <1>7, StaysGoes

\* The position that the function of a pattern returns is tested (lpeg.c:463).
LEMMA FunctionGoes ==
  ASSUME Ready, ILFunc
  PROVE  Goes
<1>1. I.op = "ILFunc" /\ I.op # "IGiveup" BY DEF ILFunc, Executes
<1>2. /\ p \in DOMAIN At \ {0} /\ I = patt.code[p] /\ Typed(patt.code, At)
      /\ s \in Nat /\ e \in Int
  BY <1>1, Here
<1> DEFINE res == Called(patt.env[I.off][2], s)
<1>3. IF res \in s..e THEN Next_(1, res) ELSE Fail(stack) BY DEF ILFunc
<1> HIDE DEF res
<1>4. CASE res \in s..e
  <2>1. sizei(I) = 1 BY <1>1 DEF sizei, HasCharset
  <2>2. Same(At, p, p + sizei(I), 0) BY <1>1, <1>2, FlowSpans
  <2>3. res \in Int /\ s + 0 <= res /\ res <= e BY <1>2, <1>4
  <2>4. Next_(1, res) BY <1>3, <1>4
  <2> QED BY <2>1, <2>2, <2>3, <2>4, <1>1, StaysGoes
<1>5. CASE res \notin s..e BY <1>1, <1>3, <1>5, FailGoes
<1> QED BY <1>4, <1>5

LEMMA JumpGoes ==
  ASSUME Ready, IJmp
  PROVE  Goes
<1>1. I.op = "IJmp" /\ I.op # "IGiveup" BY DEF IJmp, Executes
<1>2. /\ p \in DOMAIN At \ {0} /\ I = patt.code[p] /\ Typed(patt.code, At) /\ FieldsOK(I)
      /\ s \in At[p].since + 1..e /\ s \in Nat /\ e \in Int /\ IsWhere(At[p])
  BY <1>1, Here
<1>3. Same(At, p, p + I.off, 0) BY <1>1, <1>2, FlowJumps
<1>4. I.off \in Int /\ s \in Int /\ s + 0 <= s /\ s <= e BY <1>2 DEF FieldsOK, IsWhere
<1>5. Next_(I.off, s) BY DEF IJmp
<1> QED BY <1>1, <1>3, <1>4, <1>5, StaysGoes

\* An entry is pushed.
LEMMA Pushed ==
  ASSUME stack \in Seq(Entry), NEW entry \in Entry, stack' = Append(stack, entry)
  PROVE  LET n == Len(stack) + 1
         IN  /\ stack' \in Seq(Entry) /\ Len(stack') = n
             /\ Levels'[n] = entry /\ Levels'[n + 1] = [s |-> s', p |-> p', caplevel |-> Len(capture')]
             /\ \A i \in 1..n - 1 : Levels'[i] = Levels[i]
<1> DEFINE n == Len(stack) + 1
<1> HIDE DEF Entry
<1>1. Len(stack) \in Nat /\ n - 1 = Len(stack) /\ n \in 1..n OBVIOUS
<1>2. /\ stack' \in Seq(Entry) /\ Len(stack') = n /\ stack'[n] = entry
      /\ \A i \in 1..n - 1 : stack'[i] = stack[i]
  BY <1>1
<1>3. Levels'[n] = entry /\ Levels'[n + 1] = [s |-> s', p |-> p', caplevel |-> Len(capture')]
  BY <1>1, <1>2, LevelsBecome
<1>4. \A i \in 1..n - 1 : Levels'[i] = Levels[i]
  <2> SUFFICES ASSUME NEW i \in 1..n - 1 PROVE Levels'[i] = Levels[i] OBVIOUS
  <2>1. i \in 1..Len(stack) /\ i \in 1..Len(stack') BY <1>1, <1>2
  <2> QED BY <2>1, <1>1, <1>2, LevelsAre, LevelsBecome
<1> QED BY <1>2, <1>3, <1>4

\* Characters that the current level keeps are consumed still where less is needed.
LEMMA KeepsOn ==
  ASSUME Ready, NEW base, Fits(At, e, Levels, capture, base, Len(stack) + 1), NEW d \in Nat, d <= At[p].since
  PROVE  /\ s \in d + 1..e
         /\ \A k \in 1..Len(capture) : capture[k].s <= s - d /\ closeaddr(capture[k]) <= s - d
<1> DEFINE n == Len(stack) + 1
<1>1. /\ LevelOK(At, e, Levels, capture, base, n)
      /\ Levels[n].s = s /\ Levels[n].p = p /\ Levels[n].caplevel = Len(capture)
      /\ s # NULL /\ IsWhere(At[p]) /\ s \in At[p].since + 1..e /\ s \in Nat
  BY Current
<1>2. Keeps(At, e, Levels, capture, n) BY <1>1 DEF LevelOK
<1>3. At[p].since \in Nat BY <1>1 DEF IsWhere
<1>4. ASSUME NEW k \in 1..Len(capture)
      PROVE  capture[k].s <= s - d /\ closeaddr(capture[k]) <= s - d
  <2>1. capture[k].s <= s - At[p].since /\ closeaddr(capture[k]) <= s - At[p].since
    BY <1>1, <1>2 DEF Keeps
  <2>2. capture[k].s \in Int /\ closeaddr(capture[k]) \in Int
    <3>1. CapturesOK(capture) BY DEF Ready, MachineOK
    <3> QED BY <3>1, CaptureType
  <2> QED BY <2>1, <2>2, <1>1, <1>3
<1> QED BY <1>1, <1>3, <1>4

LEMMA ChoiceGoes ==
  ASSUME Ready, IChoice
  PROVE  Goes
<1>1. I.op = "IChoice" /\ I.op # "IGiveup" BY DEF IChoice, Executes
<1> DEFINE j == p + I.off
           n == Len(stack) + 1
           s2 == s - I.aux
           entry == [s |-> s2, p |-> j, caplevel |-> Len(capture)]
<1>2. /\ p \in DOMAIN At \ {0} /\ I = patt.code[p] /\ Typed(patt.code, At) /\ IsTyping(At)
      /\ IsWhere(At[p]) /\ s \in At[p].since + 1..e /\ s \in Nat /\ e \in Int
      /\ stack \in Seq(Entry) /\ CapturesOK(capture) /\ Len(capture) \in Nat
  BY <1>1, Here, CaptureType
<1>3. Push(entry, p + 1) BY DEF IChoice
<1>4. CASE Len(stack) >= MAXBACK BY <1>3, <1>4 DEF Push, Returns, Goes
<1>5. CASE ~(Len(stack) >= MAXBACK)
  <2>1. Goto(p + 1, s) /\ stack' = Append(stack, entry) /\ UNCHANGED <<capture, status>>
    BY <1>3, <1>5 DEF Push
  <2>2. /\ I.aux \in Nat /\ I.aux <= At[p].since /\ Same(At, p, j, -I.aux)
        /\ p + 1 \in DOMAIN At \ {0}
        /\ At[p + 1].main = At[p].main /\ At[p + 1].pend = Append(At[p].pend, j)
        /\ At[p + 1].open = At[p].open /\ At[p + 1].since <= At[p].since
    BY <1>1, <1>2, FlowChoice
  <2>3. /\ j \in DOMAIN At /\ At[j].main = At[p].main /\ At[j].pend = At[p].pend
        /\ At[j].open = At[p].open /\ At[j].since <= At[p].since - I.aux
    <3>1. At[p].since + (-I.aux) = At[p].since - I.aux BY <1>2, <2>2 DEF IsWhere
    <3> QED BY <2>2, <3>1 DEF Same
  <2>4. /\ At[p].since \in Nat /\ At[j].since \in Nat /\ At[p + 1].since \in Nat
        /\ j \in Nat /\ p + 1 \in Nat
    BY <1>2, <2>2, <2>3 DEF IsTyping, IsWhere
  <2>5. /\ s2 \in At[j].since + 1..e /\ s - At[p].since <= s2 - At[j].since /\ s2 \in Nat
        /\ s \in At[p + 1].since + 1..e
    <3> DEFINE a == I.aux
               c == At[p].since
               d == At[j].since
               f == At[p + 1].since
    <3>1. /\ a \in Nat /\ c \in Nat /\ d \in Nat /\ f \in Nat /\ d <= c - a /\ f <= c
          /\ s \in c + 1..e /\ s \in Nat /\ e \in Int
      BY <1>2, <2>2, <2>3, <2>4
    <3> HIDE DEF a, c, d, f
    <3>2. s - a \in d + 1..e /\ s - c <= (s - a) - d /\ s - a \in Nat /\ s \in f + 1..e BY <3>1
    <3> QED BY <3>2 DEF a, c, d, f
  <2>6. PICK base : Fits(At, e, Levels, capture, base, n) BY DEF Ready, MachineOK
  <2>7. /\ n \in Nat \ {0} /\ Levels[n].s = s /\ Levels[n].p = p /\ Levels[n].caplevel = Len(capture)
        /\ s # NULL
    BY <2>6, Current
  <2> HIDE DEF s2, j
  <2>8. entry \in Entry BY <1>2, <2>4, <2>5 DEF Entry
  <2>9. p' = p + 1 /\ s' = s /\ UNCHANGED <<case, patt, capture, status>> BY <2>1 DEF Goto
  <2> HIDE DEF entry
  <2>10. /\ stack' \in Seq(Entry) /\ Len(stack') = n /\ Levels'[n] = entry
         /\ Levels'[n + 1] = [s |-> s, p |-> p + 1, caplevel |-> Len(capture)]
         /\ \A i \in 1..n - 1 : Levels'[i] = Levels[i]
    <3>1. /\ stack' \in Seq(Entry) /\ Len(stack') = n /\ Levels'[n] = entry
          /\ Levels'[n + 1] = [s |-> s', p |-> p', caplevel |-> Len(capture')]
          /\ \A i \in 1..n - 1 : Levels'[i] = Levels[i]
      BY <1>2, <2>1, <2>8, Pushed
    <3> QED BY <3>1, <2>9
  <2> HIDE DEF n
  <2>11. Fits(At, e, Levels', capture, base, n)
    <3>1. Levels'[n] = [s |-> s2, p |-> j, caplevel |-> Levels[n].caplevel] BY <2>7, <2>10 DEF entry
    <3>2. Levels[n].s \in Int /\ Levels[n].s - At[p].since <= s2 - At[j].since BY <1>2, <2>5, <2>7
    <3> QED BY <3>1, <3>2, <1>2, <2>3, <2>5, <2>6, <2>7, <2>10, Moved
  <2>12. \E base2 : Fits(At, e, Levels', capture, base2, n + 1)
    <3>1. Levels'[n].s = s2 /\ Levels'[n].p = j /\ Levels'[n].caplevel = Len(capture)
      BY <2>10 DEF entry
    <3>2. s2 # NULL BY <2>4, <2>5 DEF NULL
    <3>3. At[p + 1].main = At[j].main /\ At[p + 1].pend = Append(At[j].pend, j) /\ At[p + 1].open = At[j].open
      BY <2>2, <2>3
    <3>4. \A k \in 1..Len(capture) :
            capture[k].s <= s - At[p + 1].since /\ closeaddr(capture[k]) <= s - At[p + 1].since
      BY <2>2, <2>4, <2>6, KeepsOn DEF n
    <3>5. p + 1 \in DOMAIN At BY <2>2
    <3> QED BY <3>1, <3>2, <3>3, <3>4, <3>5, <1>2, <2>5, <2>7, <2>10, <2>11, OnChoice
  <2>13. PICK base2 : Fits(At, e, Levels', capture', base2, Len(stack') + 1) BY <2>9, <2>10, <2>12
  <2>14. s \in Nat \ {0} BY <1>2, <2>7 DEF NULL
  <2>15. MachineOK' BY <1>2, <2>4, <2>9, <2>10, <2>13, <2>14, Arrives
  <2> QED BY <2>9, <2>15 DEF Ready, Goes
<1> QED BY <1>4, <1>5

LEMMA CallGoes ==
  ASSUME Ready, ICall
  PROVE  Goes
<1>1. I.op = "ICall" /\ I.op # "IGiveup" BY DEF ICall, Executes
<1> DEFINE j == p + I.off
           n == Len(stack) + 1
           entry == [s |-> NULL, p |-> p + 1, caplevel |-> 0]
<1>2. /\ p # 0 /\ p \in DOMAIN At \ {0} /\ I = patt.code[p] /\ Typed(patt.code, At) /\ IsTyping(At)
      /\ s \in Nat /\ e \in Int /\ stack \in Seq(Entry) /\ CapturesOK(capture)
  BY <1>1, Here
<1>3. Push(entry, j) BY DEF ICall
<1>4. CASE Len(stack) >= MAXBACK BY <1>3, <1>4 DEF Push, Returns, Goes
<1>5. CASE ~(Len(stack) >= MAXBACK)
  <2>1. Goto(j, s) /\ stack' = Append(stack, entry) /\ UNCHANGED <<capture, status>>
    BY <1>3, <1>5 DEF Push
  <2>2. /\ j \in DOMAIN At \ {0}
        /\ ~At[j].main /\ At[j].pend = <<>> /\ At[j].open = 0 /\ At[j].since <= At[p].since
        /\ p + 1 \in DOMAIN At \ {0}
        /\ At[p + 1].main = At[p].main /\ At[p + 1].pend = At[p].pend
        /\ At[p + 1].open = At[p].open /\ At[p + 1].since = 0
    BY <1>1, <1>2, FlowCall
  <2>3. j \in Nat /\ p + 1 \in Nat BY <1>2, <2>2 DEF IsTyping
  <2>4. PICK base : Fits(At, e, Levels, capture, base, n) BY DEF Ready, MachineOK
  <2>5. /\ n \in Nat \ {0} /\ Levels[n].s = s /\ Levels[n].p = p /\ Levels[n].caplevel = Len(capture)
        /\ s # NULL
    BY <2>4, Current
  <2> HIDE DEF j
  <2>6. entry \in Entry BY <2>3 DEF Entry, NULL
  <2>7. p' = j /\ s' = s /\ UNCHANGED <<case, patt, capture, status>> BY <2>1 DEF Goto
  <2> HIDE DEF entry
  <2>8. /\ stack' \in Seq(Entry) /\ Len(stack') = n /\ Levels'[n] = entry
        /\ Levels'[n + 1] = [s |-> s, p |-> j, caplevel |-> Len(capture)]
        /\ \A i \in 1..n - 1 : Levels'[i] = Levels[i]
    <3>1. /\ stack' \in Seq(Entry) /\ Len(stack') = n /\ Levels'[n] = entry
          /\ Levels'[n + 1] = [s |-> s', p |-> p', caplevel |-> Len(capture')]
          /\ \A i \in 1..n - 1 : Levels'[i] = Levels[i]
      BY <1>2, <2>1, <2>6, Pushed
    <3> QED BY <3>1, <2>7
  <2> HIDE DEF n
  <2>9. \E base2 : Fits(At, e, Levels', capture, base2, n + 1)
    <3>1. Levels'[n] = [s |-> NULL, p |-> p + 1, caplevel |-> 0] BY <2>8 DEF entry
    <3>2. Levels'[n + 1] = [s |-> Levels[n].s, p |-> j, caplevel |-> Levels[n].caplevel] BY <2>5, <2>8
    <3>3. j \in DOMAIN At /\ p + 1 \in DOMAIN At BY <2>2
    <3> QED BY <3>1, <3>2, <3>3, <1>2, <2>2, <2>4, <2>5, <2>8, OnCall
  <2>10. PICK base2 : Fits(At, e, Levels', capture', base2, Len(stack') + 1) BY <2>7, <2>8, <2>9
  <2>11. s \in Nat \ {0} BY <1>2, <2>5 DEF NULL
  <2>12. MachineOK' BY <1>2, <2>3, <2>7, <2>8, <2>10, <2>11, Arrives
  <2> QED BY <2>7, <2>12 DEF Ready, Goes
<1> QED BY <1>4, <1>5

\* The captures change, and the machine goes on with the next instruction.
LEMMA CapturesGo ==
  ASSUME Ready, I.op \in Captures, NEW caps, CapturesOK(caps),
         NEW base, Fits(At, e, Levels, capture, base, Len(stack) + 1),
         NEW k \in Nat, k <= Len(capture), Len(capture) <= Len(caps), \A i \in 1..k : caps[i] = capture[i],
         \A i \in 1..Len(stack) : Levels[i].s # NULL => Levels[i].caplevel <= k,
         \A i \in k + 1..Len(caps) : caps[i].s <= s - At[p + 1].since /\ closeaddr(caps[i]) <= s - At[p + 1].since,
         Open(caps, Len(caps)) = base[Len(stack) + 1] + At[p + 1].open,
         Goto(p + 1, s), UNCHANGED <<stack, status>>, capture' = caps
  PROVE  Goes
<1>1. I.op # "IGiveup" BY Ops
<1> DEFINE n == Len(stack) + 1
<1>2. /\ p \in DOMAIN At \ {0} /\ I = patt.code[p] /\ Typed(patt.code, At) /\ IsTyping(At)
      /\ IsWhere(At[p]) /\ s \in Nat /\ e \in Int /\ stack \in Seq(Entry) /\ CapturesOK(capture)
      /\ Len(stack) \in Nat
  BY <1>1, Here
<1>3. /\ I.n \in Nat /\ I.n <= At[p].since
      /\ p + 1 \in DOMAIN At \ {0}
      /\ At[p + 1].main = At[p].main /\ At[p + 1].pend = At[p].pend
      /\ At[p + 1].since <= IF I.op = "IFullCapture" THEN 0 ELSE I.n
  BY <1>2, FlowCapture
<1>4. At[p + 1].since \in Nat /\ At[p].since \in Nat /\ p + 1 \in Nat BY <1>2, <1>3 DEF IsTyping, IsWhere
<1>5. At[p + 1].since <= At[p].since BY <1>3, <1>4
<1>6. /\ s \in At[p + 1].since + 1..e
      /\ \A i \in 1..Len(capture) :
           capture[i].s <= s - At[p + 1].since /\ closeaddr(capture[i]) <= s - At[p + 1].since
  BY <1>4, <1>5, KeepsOn
<1>7. /\ n \in Nat \ {0} /\ Levels[n].s = s /\ Levels[n].p = p /\ Levels[n].caplevel = Len(capture)
      /\ s # NULL
  BY Current
<1>8. p' = p + 1 /\ s' = s /\ UNCHANGED <<case, patt, stack, status>> /\ capture' = caps BY DEF Goto
<1>9. n - 1 = Len(stack) BY <1>2
<1>10. /\ \A i \in 1..n - 1 : Levels'[i] = Levels[i]
       /\ Levels'[n] = [s |-> s, p |-> p + 1, caplevel |-> Len(caps)]
  BY <1>2, <1>8, <1>9, LevelsAre, LevelsBecome
<1>11. Fits(At, e, Levels, capture, base, n) /\ Open(caps, Len(caps)) = base[n] + At[p + 1].open OBVIOUS
<1> HIDE DEF n
<1>12. Len(caps) \in Nat /\ Len(capture) \in Nat BY <1>2, CaptureType
<1>13. \A i \in 1..Len(caps) : caps[i].s <= s - At[p + 1].since /\ closeaddr(caps[i]) <= s - At[p + 1].since
  <2> SUFFICES ASSUME NEW i \in 1..Len(caps)
               PROVE  caps[i].s <= s - At[p + 1].since /\ closeaddr(caps[i]) <= s - At[p + 1].since
    OBVIOUS
  <2>1. CASE i <= k
    <3>1. i \in 1..k /\ i \in 1..Len(capture) BY <2>1, <1>12
    <3> QED BY <3>1, <1>6
  <2>2. CASE ~(i <= k)
    <3>1. i \in k + 1..Len(caps) BY <2>2, <1>12
    <3> QED BY <3>1
  <2> QED BY <2>1, <2>2
<1>14. \A i \in 1..n - 1 : Levels[i].s # NULL => Levels[i].caplevel <= k BY <1>9
<1>15. Fits(At, e, Levels', caps, base, n)
  <2>1. /\ p + 1 \in DOMAIN At /\ Levels[n].s \in At[p + 1].since + 1..e
        /\ Levels'[n] = [s |-> Levels[n].s, p |-> p + 1, caplevel |-> Len(caps)]
        /\ At[p + 1].main = At[Levels[n].p].main /\ At[p + 1].pend = At[Levels[n].p].pend
    BY <1>3, <1>6, <1>7, <1>10
  <2>2. \A i \in 1..Len(caps) :
          caps[i].s <= Levels[n].s - At[p + 1].since /\ closeaddr(caps[i]) <= Levels[n].s - At[p + 1].since
    BY <1>7, <1>13
  <2> QED BY <2>1, <2>2, <1>2, <1>7, <1>10, <1>11, <1>14, Recaptured
<1>16. s \in Nat \ {0} BY <1>2, <1>7 DEF NULL
<1>17. Fits(At, e, Levels', capture', base, Len(stack') + 1) BY <1>8, <1>15 DEF n
<1>18. MachineOK' BY <1>2, <1>4, <1>8, <1>16, <1>17, Arrives
<1> QED BY <1>8, <1>18 DEF Ready, Goes

\* A capture is added.
LEMMA CapturedGoes ==
  ASSUME Ready, I.op \in Captures, NEW siz \in Nat, siz = 0 <=> I.op = "IOpenCapture",
         siz <= IF I.op = "IFullCapture" THEN I.n + 1 ELSE 1,
         I.op = "ICloseCapture" => Open(capture, Len(capture)) > 0,
         Captured(siz)
  PROVE  Goes
<1>1. I.op # "IGiveup" BY Ops
<1> DEFINE n == Len(stack) + 1
           new == [s |-> s - I.n, idx |-> I.off, kind |-> I.aux, siz |-> siz]
<1>2. /\ p \in DOMAIN At \ {0} /\ I = patt.code[p] /\ Typed(patt.code, At) /\ FieldsOK(I) /\ IsTyping(At)
      /\ IsWhere(At[p]) /\ s \in Nat /\ s \in At[p].since + 1..e /\ e \in Int
      /\ stack \in Seq(Entry) /\ CapturesOK(capture) /\ Len(stack) \in Nat
  BY <1>1, Here
<1> DEFINE d == IF I.op = "IOpenCapture" THEN 1 ELSE IF I.op = "ICloseCapture" THEN -1 ELSE 0
<1>3. /\ I.n \in Nat /\ I.n <= At[p].since
      /\ p + 1 \in DOMAIN At \ {0} /\ At[p + 1].open = At[p].open + d
      /\ At[p + 1].since <= IF I.op = "IFullCapture" THEN 0 ELSE I.n
  BY <1>2, FlowCapture
<1>4. /\ At[p + 1].since \in Nat /\ At[p].since \in Nat /\ At[p].open \in Nat /\ At[p + 1].open \in Nat
  BY <1>2, <1>3 DEF IsTyping, IsWhere
<1>5. PICK base : Fits(At, e, Levels, capture, base, n) BY DEF Ready, MachineOK
<1>6. /\ n \in Nat \ {0} /\ LevelOK(At, e, Levels, capture, base, n) /\ base[n] \in Nat
      /\ Levels[n].s = s /\ Levels[n].p = p /\ Levels[n].caplevel = Len(capture) /\ s # NULL
  BY <1>5, Current
<1>7. /\ Len(capture) \in Nat /\ \A i \in 1..Len(capture) : capture[i].s <= s - I.n
  BY <1>2, <1>3, <1>5, KeepsOn, CaptureType
<1>8. new \in [s : Nat \ {0}, idx : Int, kind : STRING, siz : Nat]
  <2>1. s - I.n \in Nat \ {0} BY <1>2, <1>3, <1>4
  <2>2. I.off \in Int /\ I.aux \in STRING BY <1>2 DEF FieldsOK
  <2> QED BY <2>1, <2>2
<1>9. /\ new.s = s - I.n /\ new.siz = siz /\ (isclosecap(new) <=> I.op = "ICloseCapture")
  BY <1>2 DEF FieldsOK, isclosecap
<1>10. (IF new.siz = 0 THEN 1 ELSE 0) - (IF isclosecap(new) THEN 1 ELSE 0) = d BY <1>9
<1>11. Open(capture, Len(capture)) = base[n] + At[p].open
  BY <1>6 DEF LevelOK
<1> HIDE DEF new, n
<1> DEFINE o == IF new.siz = 0 THEN 1 ELSE 0
           c == IF isclosecap(new) THEN 1 ELSE 0
           caps == Append(capture, new)
<1>12. o - c = d /\ o \in Int /\ c \in Int /\ d \in Int BY <1>10
<1>13. Open(capture, Len(capture)) + o - c >= 0
  <2>1. base[n] + At[p].open + d >= 0
    <3>1. base[n] + At[p].open > 0 \/ d >= 0 BY <1>11
    <3> HIDE DEF d
    <3>2. d >= -1 BY DEF d
    <3> QED BY <3>1, <3>2, <1>4, <1>6, <1>12
  <2> HIDE DEF o, c, d
  <2> QED BY <2>1, <1>4, <1>6, <1>11, <1>12
<1>14. /\ CapturesOK(caps) /\ Len(caps) = Len(capture) + 1 /\ caps[Len(capture) + 1] = new
       /\ \A i \in 1..Len(capture) : caps[i] = capture[i]
       /\ Open(caps, Len(caps)) = Open(capture, Len(capture)) + o - c
  <2>1. \A i \in 1..Len(capture) : capture[i].s <= new.s BY <1>7, <1>9
  <2> QED BY <2>1, <1>2, <1>8, <1>13, Appended
<1> HIDE DEF caps
<1>15. Open(caps, Len(caps)) = base[n] + At[p + 1].open
  <2> DEFINE a == Open(capture, Len(capture))
             b == base[n]
             x == At[p].open
  <2>1. Open(caps, Len(caps)) = a + o - c /\ a = b + x /\ b \in Nat /\ x \in Nat
    BY <1>4, <1>6, <1>11, <1>14
  <2>2. At[p + 1].open = x + d BY <1>3
  <2> HIDE DEF o, c, d, a, b, x
  <2>3. a + o - c = b + (x + d) BY <2>1, <1>12
  <2> QED BY <2>1, <2>2, <2>3 DEF b
<1>16. new.s <= s - At[p + 1].since /\ closeaddr(new) <= s - At[p + 1].since
  <2>1. closeaddr(new) = (s - I.n) + siz - 1 BY <1>9 DEF closeaddr
  <2>2. CASE I.op = "IFullCapture"
    <3>1. At[p + 1].since = 0 /\ siz <= I.n + 1 BY <2>2, <1>3, <1>4
    <3> QED BY <3>1, <2>1, <1>2, <1>3, <1>9
  <2>3. CASE I.op # "IFullCapture"
    <3>1. At[p + 1].since <= I.n /\ siz <= 1 BY <2>3, <1>3
    <3> QED BY <3>1, <2>1, <1>2, <1>3, <1>4, <1>9
  <2> QED BY <2>2, <2>3
<1>17. \A i \in 1..Len(stack) : Levels[i].s # NULL => Levels[i].caplevel <= Len(capture)
  <2>1. \A i \in 1..n : Levels[i].s # NULL => Levels[i].caplevel <= Len(capture)
    BY <1>5, <1>6, KeptBelow
  <2> QED BY <2>1, <1>2 DEF n
<1>18. \A i \in Len(capture) + 1..Len(caps) :
         caps[i].s <= s - At[p + 1].since /\ closeaddr(caps[i]) <= s - At[p + 1].since
  <2> SUFFICES ASSUME NEW i \in Len(capture) + 1..Len(caps)
               PROVE  caps[i].s <= s - At[p + 1].since /\ closeaddr(caps[i]) <= s - At[p + 1].since
    OBVIOUS
  <2>1. i = Len(capture) + 1 BY <1>7, <1>14
  <2> QED BY <2>1, <1>14, <1>16
<1>19. Goto(p + 1, s) /\ UNCHANGED <<stack, status>> /\ capture' = caps BY DEF Captured, new, caps
<1>20. Len(capture) <= Len(capture) /\ Len(capture) <= Len(caps) BY <1>7, <1>14
<1> HIDE DEF Goes
<1> QED BY <1>5, <1>7, <1>14, <1>15, <1>17, <1>18, <1>19, <1>20, CapturesGo DEF n

LEMMA CaptureGoes ==
  ASSUME Ready, IOpenCapture \/ IEmptyCapture \/ IFullCapture
  PROVE  Goes
<1>1. CASE IOpenCapture
  <2>1. I.op = "IOpenCapture" /\ Captured(0) BY <1>1 DEF IOpenCapture, Executes
  <2>2. I.op \in Captures /\ 0 \in Nat BY <2>1, Ops
  <2>3. 0 <= IF I.op = "IFullCapture" THEN I.n + 1 ELSE 1 BY <2>1
  <2> QED BY <2>1, <2>2, <2>3, CapturedGoes
<1>2. CASE IEmptyCapture
  <2>1. I.op = "IEmptyCapture" /\ Captured(1) BY <1>2 DEF IEmptyCapture, Executes
  <2>2. I.op \in Captures /\ 1 \in Nat /\ 1 # 0 BY <2>1, Ops
  <2>3. 1 <= IF I.op = "IFullCapture" THEN I.n + 1 ELSE 1 BY <2>1
  <2> QED BY <2>1, <2>2, <2>3, CapturedGoes
<1>3. CASE IFullCapture
  <2>1. I.op = "IFullCapture" /\ Captured(I.n + 1) BY <1>3 DEF IFullCapture, Executes
  <2>2. I.op \in Captures /\ I.op # "IGiveup" BY <2>1, Ops
  <2>3. I.n \in Nat BY <2>2, Here DEF FieldsOK
  <2> DEFINE siz == I.n + 1
  <2>4. siz \in Nat /\ siz # 0 /\ Captured(siz) BY <2>1, <2>3
  <2>5. siz <= IF I.op = "IFullCapture" THEN I.n + 1 ELSE 1 BY <2>1, <2>3
  <2> HIDE DEF siz
  <2> QED BY <2>1, <2>2, <2>4, <2>5, CapturedGoes
<1> QED BY <1>1, <1>2, <1>3

\* A close is written into the entry of its capture, or added.
LEMMA CloseGoes ==
  ASSUME Ready, ICloseCapture
  PROVE  Goes
<1>1. I.op = "ICloseCapture" /\ I.op # "IGiveup" /\ I.op \in Captures
  BY Ops DEF ICloseCapture, Executes
<1> DEFINE n == Len(stack) + 1
           m == Len(capture)
           s1 == s - I.n
           last == Last(capture)
<1>2. /\ p \in DOMAIN At \ {0} /\ I = patt.code[p] /\ Typed(patt.code, At) /\ IsTyping(At)
      /\ IsWhere(At[p]) /\ s \in Nat /\ s \in At[p].since + 1..e /\ e \in Int
      /\ stack \in Seq(Entry) /\ CapturesOK(capture) /\ Len(stack) \in Nat
      /\ Needs(patt.code, At, p)
  BY <1>1, Here
<1>3. /\ I.n \in Nat /\ I.n <= At[p].since
      /\ p + 1 \in DOMAIN At \ {0} /\ At[p + 1].open = At[p].open - 1 /\ At[p + 1].since <= I.n
  <2>1. /\ I.n \in Nat /\ I.n <= At[p].since
        /\ p + 1 \in DOMAIN At \ {0} /\ At[p + 1].open = At[p].open + (-1) /\ At[p + 1].since <= I.n
    BY <1>1, <1>2, FlowCapture
  <2>2. At[p].open + (-1) = At[p].open - 1 BY <1>2 DEF IsWhere
  <2> QED BY <2>1, <2>2
<1>4. /\ At[p + 1].since \in Nat /\ At[p].since \in Nat /\ At[p].open \in Nat /\ At[p + 1].open \in Nat
  BY <1>2, <1>3 DEF IsTyping, IsWhere
<1>5. PICK base : Fits(At, e, Levels, capture, base, n) BY DEF Ready, MachineOK
<1>6. /\ n \in Nat \ {0} /\ LevelOK(At, e, Levels, capture, base, n) /\ base[n] \in Nat
      /\ Levels[n].s = s /\ Levels[n].p = p /\ Levels[n].caplevel = m /\ s # NULL
  BY <1>5, Current
<1>7. OpenBefore(At, At[p]) < At[p].open BY <1>1, <1>2 DEF Needs
<1>8. /\ Open(capture, m) > 0
      /\ \A i \in 1..n - 1 : Levels[i].s # NULL => Levels[i].caplevel <= m - 1
  BY <1>2, <1>5, <1>6, <1>7, AboveChoices
<1>9. m \in Nat \ {0} /\ capture # <<>>
  <2>1. m \in Nat BY <1>2, CaptureType
  <2>2. m # 0 BY <1>8, OpenNone
  <2> QED BY <2>1, <2>2
<1>10. CASE last.siz = 0 /\ s1 - last.s < UCHAR_MAX
  <2> DEFINE k == s1 - last.s + 1
             caps == [capture EXCEPT ![m].siz = k]
  <2>1. Goto(p + 1, s) /\ UNCHANGED <<stack, status>> /\ capture' = caps
    <3>1. capture # <<>> /\ ~(capture = <<>>) BY <1>9
    <3> QED BY <3>1, <1>10 DEF ICloseCapture
  <2>2. last = capture[m] BY <1>9 DEF Last
  <2>3. m \in 1..m BY <1>9
  <2>4. last.s <= s1 /\ last.s \in Nat
    <3>1. capture[m].s <= s - I.n BY <2>3, <1>3, <1>5, KeepsOn
    <3>2. capture[m].s \in Nat BY <2>3, <1>2, CaptureType
    <3> QED BY <3>1, <3>2, <2>2
  <2>5. s1 \in Int BY <1>2, <1>3
  <2>6. k \in Nat \ {0}
    <3> HIDE DEF s1, last
    <3> QED BY <2>4, <2>5
  <2>7. last.s + k - 1 = s1
    <3> HIDE DEF s1, last
    <3> QED BY <2>4, <2>5
  <2>8. /\ CapturesOK(caps) /\ Len(caps) = m
        /\ caps[m].s = capture[m].s /\ caps[m].siz = k
        /\ \A i \in 1..m - 1 : caps[i] = capture[i]
        /\ Open(caps, m) = Open(capture, m) - 1
    <3>1. capture[m].siz = 0 BY <1>10, <2>2
    <3> HIDE DEF k
    <3> QED BY <3>1, <2>6, <1>2, <1>8, <1>9, ClosedInPlace
  <2> HIDE DEF caps, k
  <2>9. closeaddr(caps[m]) = s1 BY <2>2, <2>7, <2>8 DEF closeaddr
  <2>10. caps[m].s <= s - At[p + 1].since /\ closeaddr(caps[m]) <= s - At[p + 1].since
    <3>1. s1 <= s - At[p + 1].since BY <1>2, <1>3, <1>4
    <3>2. caps[m].s = last.s BY <2>2, <2>8
    <3> HIDE DEF s1, last
    <3>3. s - At[p + 1].since \in Int BY <1>2, <1>4
    <3> QED BY <3>1, <3>2, <3>3, <2>4, <2>5, <2>9
  <2>11. Open(caps, Len(caps)) = base[n] + At[p + 1].open
    <3>1. Open(capture, m) = base[n] + At[p].open BY <1>6 DEF LevelOK
    <3> QED BY <3>1, <2>8, <1>3, <1>4, <1>6
  <2>12. \A i \in m - 1 + 1..Len(caps) :
           caps[i].s <= s - At[p + 1].since /\ closeaddr(caps[i]) <= s - At[p + 1].since
    <3> SUFFICES ASSUME NEW i \in m - 1 + 1..Len(caps)
                 PROVE  caps[i].s <= s - At[p + 1].since /\ closeaddr(caps[i]) <= s - At[p + 1].since
      OBVIOUS
    <3>1. i = m BY <1>9, <2>8
    <3> QED BY <3>1, <2>10
  <2>13. m - 1 \in Nat /\ m - 1 <= Len(capture) /\ Len(capture) <= Len(caps) BY <1>9, <2>8
  <2>14. \A i \in 1..Len(stack) : Levels[i].s # NULL => Levels[i].caplevel <= m - 1
    <3>1. n - 1 = Len(stack) BY <1>2
    <3> QED BY <3>1, <1>8
  <2> HIDE DEF Goes, m
  <2> QED BY <1>1, <1>5, <2>1, <2>8, <2>11, <2>12, <2>13, <2>14, CapturesGo
<1>11. CASE ~(last.siz = 0 /\ s1 - last.s < UCHAR_MAX)
  <2>1. Captured(1)
    <3>1. ~(capture = <<>>) BY <1>9
    <3> QED BY <3>1, <1>11 DEF ICloseCapture
  <2>2. 1 \in Nat /\ 1 # 0 /\ 1 <= IF I.op = "IFullCapture" THEN I.n + 1 ELSE 1 BY <1>1
  <2> QED BY <2>1, <2>2, <1>1, <1>8, CapturedGoes
<1> QED BY <1>10, <1>11

\* Every instruction of match leaves what the next one finds.
LEMMA InstructionGoes ==
  ASSUME Ready, Instruction
  PROVE  Goes
<1>1. CASE IEnd BY <1>1, EndGoes
<1>2. CASE IGiveup BY <1>2 DEF IGiveup, Returns, Goes
<1>3. CASE IRet BY <1>3, RetGoes
<1>4. CASE Check BY <1>4, CheckGoes
<1>5. CASE Test BY <1>5, TestGoes
<1>6. CASE ISpan \/ IFunc BY <1>6, SpanGoes
<1>7. CASE ILFunc BY <1>7, FunctionGoes
<1>8. CASE IJmp BY <1>8, JumpGoes
<1>9. CASE IChoice BY <1>9, ChoiceGoes
<1>10. CASE ICall BY <1>10, CallGoes
<1>11. CASE ICommit BY <1>11, CommitGoes
<1>12. CASE IPartialCommit BY <1>12, PartialCommitGoes
<1>13. CASE IBackCommit BY <1>13, BackCommitGoes
<1>14. CASE IFail
  <2>1. Fail(stack) /\ I.op # "IGiveup" BY <1>14 DEF IFail, Executes
  <2> QED BY <2>1, FailGoes
<1>15. CASE IFailTwice BY <1>15, FailTwiceGoes
<1>16. CASE IOpenCapture \/ IEmptyCapture \/ IFullCapture BY <1>16, CaptureGoes
<1>17. CASE ICloseCapture BY <1>17, CloseGoes
<1>18. CASE IOpenCall BY <1>18 DEF IOpenCall, Returns, Goes
<1> QED BY <1>1, <1>2, <1>3, <1>4, <1>5, <1>6, <1>7, <1>8, <1>9, <1>10, <1>11, <1>12, <1>13, <1>14,
           <1>15, <1>16, <1>17, <1>18 DEF Instruction

-----------------------------------------------------------------------------
(* The invariant holds.                                                    *)

\* match begins above the choice that gives up (lpeg.c:1640).
LEMMA StartGoes ==
  ASSUME MatchInv, matchl
  PROVE  MatchInv'
<1>1. /\ status = "new" /\ case \in Cases /\ p = 1 /\ capture = <<>>
      /\ patt' = Compiler(case.tree) /\ UNCHANGED <<case, p, capture>>
      /\ stack' = <<[s |-> s', p |-> 0, caplevel |-> 0]>>
      /\ status' = IF patt'.ok THEN "match" ELSE "done"
  BY DEF MatchInv, matchl
<1>2. CASE ~patt'.ok BY <1>1, <1>2 DEF MatchInv
<1>3. CASE patt'.ok
  <2> DEFINE at == At'
             end == e'
             w == Levels'
  <2>1. Typed(patt'.code, at)
    <3>1. case.tree \in {c.tree : c \in Cases} BY <1>1
    <3>2. Compiler(case.tree).ok => Typed(Compiler(case.tree).code, Typing(Compiler(case.tree).code))
      BY <3>1, CodeAssumption
    <3> QED BY <3>2, <1>1, <1>3 DEF At
  <2> HIDE DEF at
  <2>2. /\ IsTyping(at) /\ 1 \in DOMAIN at /\ at[1] = Where(TRUE, <<0>>, 0, 0)
        /\ 0 \in DOMAIN at /\ at[0] = Where(TRUE, <<>>, 0, 0)
    BY <2>1, TypedIs DEF IsTyping
  <2>3. end = e /\ Len(subj) \in Nat /\ e = Len(subj) + 1 /\ case.init \in Int
    BY <1>1, EndType DEF e, subj
  <2>4. s' \in 1..e
    <3> DEFINE l == Len(subj)
               i == case.init
    <3>1. s' = 1 + (IF i > 0 THEN (IF i <= l THEN i - 1 ELSE l) ELSE IF l + i >= 0 THEN l + i ELSE 0)
      BY DEF matchl
    <3>2. l \in Nat /\ i \in Int /\ e = l + 1 BY <2>3
    <3> HIDE DEF l, i
    <3> QED BY <3>1, <3>2
  <2> HIDE DEF end, w
  <2>5. e \in Int /\ end = e /\ s' \in Nat \ {0} BY <2>3, <2>4
  <2> DEFINE entry == [s |-> s', p |-> 0, caplevel |-> 0]
  <2>6. entry \in Entry BY <2>5 DEF Entry
  <2> HIDE DEF Entry
  <2>7. stack' \in Seq(Entry) /\ Len(stack') = 1 /\ stack'[1] = entry BY <1>1, <2>6
  <2>8. Len(capture) = 0 /\ capture' = capture /\ p' = 1 BY <1>1
  <2>9. w[1] = entry /\ w[2] = [s |-> s', p |-> 1, caplevel |-> 0]
    <3>1. /\ \A i \in 1..Len(stack') : Levels'[i] = stack'[i]
          /\ Levels'[Len(stack') + 1] = [s |-> s', p |-> p', caplevel |-> Len(capture')]
      BY <2>7, LevelsBecome
    <3>2. Levels'[1] = stack'[1] /\ Levels'[2] = [s |-> s', p |-> p', caplevel |-> Len(capture')]
      BY <3>1, <2>7
    <3> QED BY <3>2, <2>7, <2>8 DEF w
  <2>10. w[1].s = s' /\ w[1].p = 0 /\ w[1].caplevel = 0 BY <2>9
  <2>11. CapturesOK(capture)
    <3> DEFINE C == [s : Nat \ {0}, idx : Int, kind : STRING, siz : Nat]
    <3>1. capture \in Seq(C) /\ DOMAIN capture = {} BY <1>1
    <3> QED BY <3>1 DEF CapturesOK
  <2> DEFINE base == [i \in {1} |-> 0]
  <2>12. Fits(at, end, w, capture, base, 1)
    <3>1. base[1] = 0 OBVIOUS
    <3> HIDE DEF base, entry
    <3>2. /\ at[0].main = TRUE /\ at[0].pend = <<>> /\ at[0].open = 0 /\ at[0].since = 0
      BY <2>2 DEF Where
    <3>3. Linked(at, w, 1) BY <2>10, <3>2 DEF Linked
    <3>4. Based(at, w, base, 1) BY <3>1 DEF Based
    <3>5. Keeps(at, end, w, capture, 1)
      <4>1. w[1].s \in 0 + 1..end BY <2>4, <2>5, <2>10
      <4>2. 0 \in 0..Len(capture) /\ 1..0 = {} BY <2>8
      <4> QED BY <4>1, <4>2, <2>10, <3>2 DEF Keeps
    <3>6. Open(capture, w[1].caplevel) = base[1] + at[0].open BY <2>10, <3>1, <3>2, OpenNone
    <3>7. w[1].s # NULL /\ w[1].s \in Nat BY <2>5, <2>10 DEF NULL
    <3>8. LevelOK(at, end, w, capture, base, 1)
      BY <2>2, <2>10, <3>1, <3>3, <3>4, <3>5, <3>6, <3>7 DEF LevelOK
    <3> QED BY <3>8 DEF Fits
  <2>13. \E base2 : Fits(at, end, w, capture, base2, 1 + 1)
    <3> HIDE DEF base, entry
    <3>1. /\ at[1].main = at[0].main /\ at[1].pend = Append(at[0].pend, 0) /\ at[1].open = at[0].open
          /\ at[1].since = 0
      BY <2>2 DEF Where
    <3>2. s' \in at[1].since + 1..end BY <2>4, <2>5, <3>1
    <3>3. w[1].s # NULL BY <2>5, <2>10 DEF NULL
    <3> DEFINE n == 1
               p2 == 1
    <3>4. /\ n \in Nat \ {0} /\ Fits(at, end, w, capture, base, n) /\ w[n].s # NULL
          /\ w[n].caplevel = 0 /\ w[n].p = 0
      BY <2>10, <2>12, <3>3
    <3>5. p2 \in DOMAIN at /\ s' \in at[p2].since + 1..end /\ end \in Int BY <2>2, <2>5, <3>2
    <3>6. w[n + 1] = [s |-> s', p |-> p2, caplevel |-> w[n].caplevel]
      <4>1. n + 1 = 2 OBVIOUS
      <4> QED BY <4>1, <2>9, <3>4
    <3>7. /\ at[p2].main = at[w[n].p].main /\ at[p2].open = at[w[n].p].open
          /\ at[p2].pend = Append(at[w[n].p].pend, w[n].p)
      BY <3>1, <3>4
    <3> HIDE DEF n, p2
    <3>8. \A k \in 1..w[n].caplevel :
             capture[k].s <= s' - at[p2].since /\ closeaddr(capture[k]) <= s' - at[p2].since
      BY <3>4
    <3>9. \E base2 : Fits(at, end, w, capture, base2, n + 1)
      BY <2>2, <2>11, <3>4, <3>5, <3>6, <3>7, <3>8, OnChoice
    <3> QED BY <3>9 DEF n
  <2>14. PICK base2 : Fits(At', e', Levels', capture', base2, Len(stack') + 1)
    BY <2>7, <2>8, <2>13 DEF at, end, w
  <2>15. MachineOK' BY <2>5, <2>7, <2>8, <2>11, <2>14 DEF MachineOK
  <2>16. Typed(patt'.code, At') BY <2>1 DEF at
  <2> QED BY <1>1, <1>3, <2>15, <2>16 DEF MatchInv
<1> QED BY <1>2, <1>3

LEMMA MatchInit ==
  ASSUME Init
  PROVE  MatchInv
BY DEF Init, MatchInv

LEMMA MatchNext ==
  ASSUME MatchInv, [Next]_vars
  PROVE  MatchInv'
<1>1. CASE matchl BY <1>1, StartGoes
<1>2. CASE Instruction
  <2>1. status = "match"
    BY <1>2 DEF Instruction, Executes, IEnd, IGiveup, IRet, Check, Test, ISpan, IFunc, ILFunc, IJmp, IChoice,
       ICall, ICommit, IPartialCommit, IBackCommit, IFail, IFailTwice, IOpenCapture, IEmptyCapture,
       IFullCapture, ICloseCapture, IOpenCall
  <2>2. Ready BY <2>1 DEF MatchInv, Ready
  <2>3. Goes BY <1>2, <2>2, InstructionGoes
  <2>4. At' = At BY <2>3 DEF Goes, At
  <2> QED BY <2>2, <2>3, <2>4 DEF MatchInv, Ready, Goes
<1>3. CASE PushValues BY <1>3 DEF PushValues, Returns, MatchInv
<1>4. CASE Ended \/ UNCHANGED vars
  <2>1. UNCHANGED vars BY <1>4 DEF Ended
  <2>2. At' = At /\ e' = e /\ Levels' = Levels BY <2>1 DEF vars, At, e, subj, Levels
  <2> QED BY <2>1, <2>2 DEF vars, MatchInv, MachineOK
<1> QED BY <1>1, <1>2, <1>3, <1>4 DEF Next

\* The stack and the captures are always what the code was typed with.
THEOREM MatchInvariant == Spec => []MatchInv
<1>1. Init => MatchInv BY MatchInit
<1>2. MatchInv /\ [Next]_vars => MatchInv' BY MatchNext
<1> QED BY <1>1, <1>2, PTL DEF Spec

\* No assertion of match fails: a return finds a call, a commit a choice, a close an open
\* capture, a failure something to come back to, and the end nothing (lpeg.c:386).
THEOREM AssertsAlwaysHold == Spec => []AssertsHold
<1>1. MatchInv => AssertsHold BY DEF MatchInv, AssertsHold
<1> QED BY <1>1, MatchInvariant, PTL

\* match stays in the subject, its captures are ordered and end where it is or before,
\* and no capture is closed that was not open (lpeg.c:541, 557).
THEOREM CapturesAlwaysInOrder == Spec => []CapturesInOrder
<1>1. ASSUME MatchInv PROVE CapturesInOrder
  <2> SUFFICES ASSUME status = "match" PROVE CapturesInOrder BY DEF CapturesInOrder
  <2>1. Ready BY <1>1 DEF MatchInv, Ready
  <2>2. PICK base : Fits(At, e, Levels, capture, base, Len(stack) + 1) BY <2>1 DEF Ready, MachineOK
  <2>3. IsWhere(At[p]) /\ s \in Nat BY <2>1, <2>2, Current
  <2>4. 0 \in Nat /\ 0 <= At[p].since BY <2>3 DEF IsWhere
  <2>5. /\ s \in 0 + 1..e
        /\ \A k \in 1..Len(capture) : capture[k].s <= s - 0 /\ closeaddr(capture[k]) <= s - 0
    BY <2>1, <2>2, <2>4, KeepsOn
  <2>6. CapturesOK(capture) BY <2>1 DEF Ready, MachineOK
  <2>7. /\ Len(capture) \in Nat /\ DOMAIN capture = 1..Len(capture)
        /\ \A k \in 1..Len(capture) : capture[k].s \in Nat \ {0}
    BY <2>6, CaptureType
  <2>8. ASSUME NEW i \in DOMAIN capture
        PROVE  Cardinality({j \in 1..i : isclosecap(capture[j])}) <=
               Cardinality({j \in 1..i : capture[j].siz = 0})
    <3>1. i \in Nat /\ 1..i \subseteq DOMAIN capture BY <2>7
    <3>2. /\ {j \in 1..i : isclosecap(capture[j])} = Closes(capture) \cap 1..i
          /\ {j \in 1..i : capture[j].siz = 0} = Opens(capture) \cap 1..i
      BY <3>1 DEF Closes, Opens
    <3> DEFINE c == Cardinality(Closes(capture) \cap 1..i)
               o == Cardinality(Opens(capture) \cap 1..i)
    <3>3. c \in Nat /\ o \in Nat BY <3>1, CountStep
    <3>4. o - c >= 0 BY <2>6 DEF CapturesOK, Open
    <3> HIDE DEF c, o
    <3>5. c <= o BY <3>3, <3>4
    <3> QED BY <3>2, <3>5 DEF c, o
  <2>9. s \in 1..e BY <2>5
  <2>10. \A i \in DOMAIN capture : capture[i].s \in 1..s /\ closeaddr(capture[i]) <= s
    BY <2>3, <2>5, <2>7
  <2>11. \A i \in DOMAIN capture : i > 1 => capture[i - 1].s <= capture[i].s BY <2>6 DEF CapturesOK
  <2> QED BY <2>8, <2>9, <2>10, <2>11 DEF CapturesInOrder
<1> QED BY <1>1, MatchInvariant, PTL
=============================================================================
