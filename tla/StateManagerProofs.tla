------------------------- MODULE StateManagerProofs -------------------------
(***************************************************************************)
(* Proofs about StateManager.tla: what the ordered fold of the code makes  *)
(* of the updates the handlers let in is what Lcss.tla says of the set of  *)
(* them, and the client's fold of the mirrored updates gives the mirror.   *)
(***************************************************************************)
EXTENDS StateManager, LcssProofs

-----------------------------------------------------------------------------
(* The fold, one update at a time                                          *)

\* The fold of the updates us[i], i in S, in increasing order of i.
FoldOn(st, us, S) ==
    MapThenFoldSet(LAMBDA x, y : FoldUpdate(y, x), st, LAMBDA i : us[i], LAMBDA s : Max(s), S)

\* g is what the recursion of FoldOn computes for the subsets of S.
FoldsTo(st, us, S, g) ==
    g = [s \in SUBSET S |->
            IF s = {} THEN st ELSE FoldUpdate(g[s \ {Max(s)}], us[Max(s)])]

\* The fold is this recursion, by the definition in the library.
LEMMA FoldChosen ==
    ASSUME NEW st, NEW us, NEW S
    PROVE  FoldOn(st, us, S) = (CHOOSE g : FoldsTo(st, us, S, g))[S]
BY Zenon DEF FoldOn, MapThenFoldSet, FoldsTo

\* A finite set of numbers that is not empty has a greatest and a least element.
LEMMA MaxMinIn ==
    ASSUME NEW S \in SUBSET Int, IsFiniteSet(S), S # {}
    PROVE  /\ Max(S) \in S /\ \A y \in S : Max(S) >= y
           /\ Min(S) \in S /\ \A y \in S : Min(S) =< y
<1> DEFINE HasMax(T) == \E x \in T : \A y \in T : x >= y
           HasMin(T) == \E x \in T : \A y \in T : x =< y
           Good == {T \in SUBSET S : T = {} \/ (HasMax(T) /\ HasMin(T))}
<1>1. ASSUME NEW T \in SUBSET S, \A x \in T : T \ {x} \in Good
      PROVE  T \in Good
  <2>1. SUFFICES ASSUME T # {} PROVE HasMax(T) /\ HasMin(T)
    BY Zenon
  <2>2. PICK x : x \in T
    BY Zenon, <2>1
  <2>3. CASE T \ {x} = {}
    <3>1. \A y \in T : y = x
      BY Zenon, <2>3
    <3>2. x \in Int
      BY Zenon, <2>2
    <3> QED
      BY <2>2, <3>1, <3>2
  <2>4. CASE HasMax(T \ {x}) /\ HasMin(T \ {x})
    <3>1. PICK a \in T \ {x} : \A y \in T \ {x} : a >= y
      BY Zenon, <2>4
    <3>2. PICK b \in T \ {x} : \A y \in T \ {x} : b =< y
      BY Zenon, <2>4
    <3>3. a \in Int /\ b \in Int /\ x \in Int /\ a \in T /\ b \in T /\ T \in SUBSET Int
      BY Zenon, <2>2, <3>1, <3>2
    <3>4. HasMax(T)
      <4>1. CASE a >= x
        BY <2>2, <3>1, <3>3, <4>1
      <4>2. CASE x >= a
        BY <2>2, <3>1, <3>3, <4>2
      <4> QED
        BY <3>3, <4>1, <4>2
    <3>5. HasMin(T)
      <4>1. CASE b =< x
        BY <2>2, <3>2, <3>3, <4>1
      <4>2. CASE x =< b
        BY <2>2, <3>2, <3>3, <4>2
      <4> QED
        BY <3>3, <4>1, <4>2
    <3> QED
      BY Zenon, <3>4, <3>5
  <2> QED
    BY Zenon, <1>1, <2>2, <2>3, <2>4
<1>2. S \in Good
  <2> HIDE DEF Good
  <2> QED
    BY Zenon, <1>1, FiniteInduction
<1> QED
  BY Zenon, <1>2 DEF Max, Min

\* The recursion has one solution on a finite set of indices.
LEMMA FoldsUnique ==
    ASSUME NEW st, NEW us, NEW S \in SUBSET Int, IsFiniteSet(S), NEW g, NEW h,
           FoldsTo(st, us, S, g), FoldsTo(st, us, S, h)
    PROVE  \A T \in SUBSET S : g[T] = h[T]
<1> DEFINE Good == {T \in SUBSET S : \A R \in SUBSET T : g[R] = h[R]}
<1>1. ASSUME NEW T \in SUBSET S, \A x \in T : T \ {x} \in Good
      PROVE  T \in Good
  <2>1. ASSUME NEW R \in SUBSET T, R # T
        PROVE  g[R] = h[R]
    <3>1. PICK x \in T : x \notin R
      BY Zenon, <2>1
    <3> QED
      BY Zenon, <1>1, <3>1
  <2>2. g[T] = h[T]
    <3>1. CASE T = {}
      BY Zenon, <3>1 DEF FoldsTo
    <3>2. CASE T # {}
      <4>1. Max(T) \in T
        BY Zenon, <3>2, MaxMinIn, FS_Subset
      <4>2. g[T \ {Max(T)}] = h[T \ {Max(T)}]
        BY Zenon, <2>1, <4>1
      <4> QED
        BY Zenon, <3>2, <4>2 DEF FoldsTo
    <3> QED
      BY Zenon, <3>1, <3>2
  <2> QED
    BY Zenon, <2>1, <2>2
<1>2. S \in Good
  <2> HIDE DEF Good
  <2> QED
    BY Zenon, <1>1, FiniteInduction
<1> QED
  BY Zenon, <1>2

\* The last update is folded into what the others give.
LEMMA FoldLast ==
    ASSUME NEW st, NEW us, NEW S \in SUBSET Int, IsFiniteSet(S)
    PROVE  FoldOn(st, us, S) =
              IF S = {} THEN st ELSE FoldUpdate(FoldOn(st, us, S \ {Max(S)}), us[Max(S)])
<1> DEFINE F(T) == FoldOn(st, us, T)
           Step(T) == IF T = {} THEN st ELSE FoldUpdate(F(T \ {Max(T)}), us[Max(T)])
           Good == {T \in SUBSET S : \A R \in SUBSET T : F(R) = Step(R)}
<1>1. ASSUME NEW T \in SUBSET S, \A x \in T : T \ {x} \in Good
      PROVE  T \in Good
  <2>1. ASSUME NEW R \in SUBSET T, R # T
        PROVE  F(R) = Step(R)
    <3>1. PICK x \in T : x \notin R
      BY Zenon, <2>1
    <3>2. T \ {x} \in Good /\ R \in SUBSET (T \ {x})
      BY Zenon, <1>1, <3>1
    <3> QED
      BY Zenon, <3>2
  <2>2. IsFiniteSet(T) /\ T \in SUBSET Int /\ \A s \in SUBSET T : s # {} => Max(s) \in s
    BY Zenon, MaxMinIn, FS_Subset
  <2> DEFINE g == [s \in SUBSET T |-> IF s = T THEN Step(T) ELSE F(s)]
             c == CHOOSE k : FoldsTo(st, us, T, k)
  <2>3. FoldsTo(st, us, T, g)
    <3> SUFFICES ASSUME NEW s \in SUBSET T
                 PROVE  g[s] = IF s = {} THEN st ELSE FoldUpdate(g[s \ {Max(s)}], us[Max(s)])
      BY Zenon DEF FoldsTo
    <3>1. g[s] = Step(s)
      BY Zenon, <2>1
    <3>2. CASE s = {}
      BY Zenon, <3>1, <3>2
    <3>3. CASE s # {}
      <4>1. s \ {Max(s)} # T /\ s \ {Max(s)} \in SUBSET T
        BY Zenon, <2>2, <3>3
      <4>2. g[s \ {Max(s)}] = F(s \ {Max(s)})
        BY Zenon, <4>1
      <4> HIDE DEF g, F
      <4> QED
        BY Zenon, <3>1, <3>3, <4>2
    <3> QED
      BY Zenon, <3>2, <3>3
  <2>4. FoldsTo(st, us, T, c)
    <3> HIDE DEF g
    <3> QED
      BY Zenon, <2>3
  <2>5. \A R \in SUBSET T : g[R] = c[R]
    <3> HIDE DEF g, c
    <3> QED
      BY <2>2, <2>3, <2>4, FoldsUnique
  <2>6. F(T) = Step(T)
    BY Zenon, <2>5, FoldChosen
  <2> QED
    BY Zenon, <2>1, <2>6
<1>2. S \in Good
  <2> HIDE DEF Good
  <2> QED
    BY Zenon, <1>1, FiniteInduction
<1> QED
  BY Zenon, <1>2

\* The fold depends on the updates folded only.
LEMMA FoldEqual ==
    ASSUME NEW st, NEW us, NEW vs, NEW S \in SUBSET Int, IsFiniteSet(S),
           \A i \in S : us[i] = vs[i]
    PROVE  FoldOn(st, us, S) = FoldOn(st, vs, S)
<1> DEFINE Good == {T \in SUBSET S : FoldOn(st, us, T) = FoldOn(st, vs, T)}
<1>1. ASSUME NEW T \in SUBSET S, \A x \in T : T \ {x} \in Good
      PROVE  T \in Good
  <2>1. IsFiniteSet(T) /\ T \in SUBSET Int
    BY Zenon, FS_Subset
  <2>2. \A ws : FoldOn(st, ws, T) =
           IF T = {} THEN st ELSE FoldUpdate(FoldOn(st, ws, T \ {Max(T)}), ws[Max(T)])
    BY Zenon, <2>1, FoldLast
  <2>3. CASE T = {}
    BY Zenon, <2>2, <2>3
  <2>4. CASE T # {}
    <3>1. Max(T) \in T
      BY Zenon, <2>1, <2>4, MaxMinIn
    <3>2. FoldOn(st, us, T \ {Max(T)}) = FoldOn(st, vs, T \ {Max(T)}) /\ us[Max(T)] = vs[Max(T)]
      BY Zenon, <1>1, <3>1
    <3>3. FoldOn(st, us, T) = FoldOn(st, vs, T)
      BY Zenon, <2>2, <2>4, <3>2
    <3> QED
      BY Zenon, <3>3
  <2> QED
    BY Zenon, <2>3, <2>4
<1>2. S \in Good
  <2> HIDE DEF Good
  <2> QED
    BY Zenon, <1>1, FiniteInduction
<1> QED
  BY Zenon, <1>2

\* The fold of a Vec is the one of all of its places.
LEMMA FoldedOn ==
    ASSUME NEW st, NEW us
    PROVE  Folded(st, us) = FoldOn(st, us, DOMAIN us)
BY Zenon DEF Folded, FoldOn

\* Nothing to fold, and one update more.
LEMMA FoldedEmpty ==
    ASSUME NEW st
    PROVE  Folded(st, <<>>) = st
<1>1. DOMAIN <<>> = {}
  OBVIOUS
<1>2. IsFiniteSet({}) /\ {} \in SUBSET Int
  BY Zenon, FS_EmptySet
<1> QED
  BY Zenon, <1>1, <1>2, FoldedOn, FoldLast

\* Folding one more update is one step of the loop on what the others gave.
LEMMA FoldedAppend ==
    ASSUME NEW st, NEW R, NEW us \in Seq(R), NEW u \in R
    PROVE  Folded(st, Append(us, u)) = FoldUpdate(Folded(st, us), u)
<1> DEFINE n == Len(us)
           vs == Append(us, u)
           S == 1 .. n + 1
<1>1. n \in Nat /\ DOMAIN us = 1 .. n /\ DOMAIN vs = S /\ vs[n + 1] = u
  OBVIOUS
<1>2. \A i \in 1 .. n : vs[i] = us[i]
  OBVIOUS
<1> HIDE DEF n, vs
<1>3. IsFiniteSet(S) /\ S \in SUBSET Int /\ S # {} /\ n + 1 \in S
  <2>1. n + 1 \in Int /\ 1 \in Int /\ S \in SUBSET Int /\ n + 1 \in S
    BY <1>1
  <2>2. IsFiniteSet(S)
    BY Zenon, <2>1, FS_Interval
  <2> QED
    BY Zenon, <2>1, <2>2
<1>4. Max(S) = n + 1 /\ S \ {n + 1} = 1 .. n
  <2>1. Max(S) \in S /\ \A y \in S : Max(S) >= y
    BY Zenon, <1>3, MaxMinIn
  <2> QED
    BY <1>1, <1>3, <2>1
<1>5. FoldOn(st, vs, S) = FoldUpdate(FoldOn(st, vs, 1 .. n), u)
  <2> HIDE DEF S
  <2>1. FoldOn(st, vs, S) = FoldUpdate(FoldOn(st, vs, S \ {Max(S)}), vs[Max(S)])
    BY Zenon, <1>3, FoldLast
  <2>2. FoldOn(st, vs, S) = FoldUpdate(FoldOn(st, vs, 1 .. n), vs[n + 1])
    BY <1>4, <2>1
  <2> QED
    BY Zenon, <1>1, <2>2
<1>6. FoldOn(st, vs, 1 .. n) = FoldOn(st, us, 1 .. n)
  <2>1. 1 \in Int /\ n \in Int /\ 1 .. n \in SUBSET Int
    BY <1>1
  <2>2. IsFiniteSet(1 .. n)
    BY Zenon, <2>1, FS_Interval
  <2> QED
    BY Zenon, <1>2, <2>1, <2>2, FoldEqual
<1> QED
  BY Zenon, <1>1, <1>5, <1>6, FoldedOn DEF vs
-----------------------------------------------------------------------------
(* Lists of HTLCs                                                          *)

\* The HTLCs of a list are in the order of their ids,
Ascending(list) == \A i, j \in DOMAIN list : i < j => list[i].id < list[j].id

\* ... so that no two places hold the same id.
LEMMA DistinctIds ==
    ASSUME NEW R, \A x \in R : x.id \in Nat, NEW list \in Seq(R), Ascending(list)
    PROVE  \A i, j \in DOMAIN list : list[i].id = list[j].id => i = j
<1> SUFFICES ASSUME NEW i \in DOMAIN list, NEW j \in DOMAIN list, i # j
             PROVE  list[i].id # list[j].id
  OBVIOUS
<1>1. list[i] \in R /\ list[j] \in R /\ i \in Int /\ j \in Int
  OBVIOUS
<1>2. list[i].id \in Nat /\ list[j].id \in Nat /\ (i < j \/ j < i)
  BY <1>1
<1> QED
  BY <1>2 DEF Ascending

\* Looking for its id finds the HTLC.
Holds(list, h) == Place(list, h.id) # 0 /\ list[Place(list, h.id)] = h

\* Appending an HTLC with an id above the others.
LEMMA ListAppend ==
    ASSUME NEW R, NEW list \in Seq(R), NEW h \in R, Ascending(list),
           \A g \in Range(list) : g.id < h.id
    PROVE  /\ Append(list, h) \in Seq(R)
           /\ Range(Append(list, h)) = Range(list) \cup {h}
           /\ Ascending(Append(list, h))
<1> DEFINE n == Len(list)
           new == Append(list, h)
<1>1. n \in Nat /\ DOMAIN list = 1 .. n /\ new \in Seq(R) /\ DOMAIN new = 1 .. n + 1
  OBVIOUS
<1>2. new[n + 1] = h /\ \A i \in 1 .. n : new[i] = list[i]
  OBVIOUS
<1> HIDE DEF n, new
<1>3. \A i \in DOMAIN new : i \in DOMAIN list \/ i = n + 1
  BY <1>1
<1>4. n + 1 \in DOMAIN new /\ \A i \in DOMAIN list : i \in DOMAIN new /\ list[i].id < h.id
  BY <1>1 DEF Range
<1>5. Range(new) = Range(list) \cup {h}
  BY Zenon, <1>1, <1>2, <1>3, <1>4 DEF Range
<1>6. Ascending(new)
  <2> SUFFICES ASSUME NEW i \in DOMAIN new, NEW j \in DOMAIN new, i < j
               PROVE  new[i].id < new[j].id
    BY Zenon DEF Ascending
  <2>1. i \in 1 .. n
    BY <1>1
  <2>2. CASE j \in 1 .. n
    BY Zenon, <1>1, <1>2, <2>1, <2>2 DEF Ascending
  <2>3. CASE j = n + 1
    BY Zenon, <1>1, <1>2, <1>4, <2>1, <2>3
  <2> QED
    BY Zenon, <1>1, <1>3, <2>2, <2>3
<1> QED
  BY Zenon, <1>1, <1>5, <1>6 DEF new

\* Removing the first HTLC with the id of one in the list removes that one.
LEMMA ListRemove ==
    ASSUME NEW R, \A x \in R : x.id \in Nat, NEW list \in Seq(R), Ascending(list),
           NEW h \in Range(list)
    PROVE  LET pos == Place(list, h.id) IN
           /\ Holds(list, h)
           /\ RemoveAt(list, pos) \in Seq(R)
           /\ Range(RemoveAt(list, pos)) = Range(list) \ {h}
           /\ Ascending(RemoveAt(list, pos))
<1> DEFINE pos == Place(list, h.id)
           n == Len(list)
           I == {i \in 1 .. n : list[i].id = h.id}
           new == RemoveAt(list, pos)
           At(i) == IF i < pos THEN i ELSE i + 1
<1>1. n \in Nat /\ DOMAIN list = 1 .. n
  OBVIOUS
<1>2. PICK k \in 1 .. n : list[k] = h
  BY Zenon, <1>1 DEF Range
<1>12. \A i, j \in 1 .. n : list[i].id = list[j].id => i = j
  BY Zenon, <1>1, DistinctIds
<1>3. I = {k}
  BY Zenon, <1>2, <1>12
<1>4. Min({k}) = k
  <2>1. k \in Int
    BY <1>1, <1>2
  <2> QED
    BY <2>1 DEF Min
<1>5. pos = k
  BY Zenon, <1>3, <1>4 DEF Place
<1> HIDE DEF pos, n, I
<1>6. pos \in 1 .. n /\ pos \in Int /\ pos # 0
  BY <1>1, <1>2, <1>5
<1>7. /\ new \in Seq(R) /\ DOMAIN new = 1 .. n - 1
      /\ \A i \in 1 .. n - 1 : new[i] = list[At(i)]
  <2> DEFINE a == SubSeq(list, 1, pos - 1)
             b == SubSeq(list, pos + 1, n)
  <2>1. a \in Seq(R) /\ Len(a) = pos - 1 /\ \A i \in 1 .. pos - 1 : a[i] = list[i]
    BY <1>1, <1>6 DEF n
  <2>2. b \in Seq(R) /\ Len(b) = n - pos /\ \A i \in 1 .. n - pos : b[i] = list[pos + i]
    <3>1. \A i \in pos + 1 .. n : list[i] \in R
      BY <1>1, <1>6
    <3>2. b \in Seq(R)
      BY <1>1, <1>6, <3>1
    <3>3. Len(b) = n - pos
      BY <1>1, <1>6
    <3>4. ASSUME NEW i \in 1 .. n - pos
          PROVE  b[i] = list[pos + i]
      <4>1. pos + 1 + i - 1 = pos + i
        BY <1>1, <1>6
      <4>2. b[i] = list[pos + 1 + i - 1]
        BY <1>1, <1>6
      <4> QED
        BY Zenon, <4>1, <4>2
    <3> QED
      BY Zenon, <3>2, <3>3, <3>4
  <2>3. new = a \o b
    BY Zenon DEF RemoveAt, n
  <2> HIDE DEF a, b, new, At
  <2>4. new \in Seq(R) /\ Len(new) = n - 1
    <3>0. a \in Seq(R) /\ b \in Seq(R)
      BY Zenon, <2>1, <2>2
    <3>1. a \o b \in Seq(R) /\ Len(a \o b) = Len(a) + Len(b)
      BY <3>0
    <3>2. (pos - 1) + (n - pos) = n - 1
      BY <1>1, <1>6
    <3> QED
      BY <2>1, <2>2, <2>3, <3>1, <3>2
  <2>5. ASSUME NEW i \in 1 .. n - 1
        PROVE  new[i] = list[At(i)]
    <3>1. CASE i < pos
      <4>1. new[i] = a[i] /\ a[i] = list[i] /\ At(i) = i
        BY <1>1, <1>6, <2>1, <2>2, <2>3, <3>1 DEF At
      <4> QED
        BY Zenon, <4>1
    <3>2. CASE i >= pos
      <4>1. i - (pos - 1) \in 1 .. n - pos /\ pos + (i - (pos - 1)) = i + 1 /\ At(i) = i + 1
        BY <1>1, <1>6, <3>2 DEF At
      <4>2. new[i] = b[i - (pos - 1)]
        BY <1>1, <1>6, <2>1, <2>2, <2>3, <3>2
      <4> QED
        BY Zenon, <2>2, <4>1, <4>2
    <3> QED
      BY <1>1, <1>6, <3>1, <3>2
  <2> QED
    BY <2>4, <2>5
<1> HIDE DEF new
<1>8. /\ \A i \in 1 .. n - 1 : At(i) \in 1 .. n /\ At(i) # pos
      /\ \A i, j \in 1 .. n - 1 : i < j => At(i) < At(j)
      /\ \A j \in 1 .. n : j = pos \/ \E i \in 1 .. n - 1 : At(i) = j
  <2>1. ASSUME NEW j \in 1 .. n, j # pos
        PROVE  \E i \in 1 .. n - 1 : At(i) = j
    <3>1. CASE j < pos
      <4>1. j \in 1 .. n - 1 /\ At(j) = j
        BY <1>1, <1>6, <2>1, <3>1
      <4> QED
        BY Zenon, <4>1
    <3>2. CASE j > pos
      <4>1. j - 1 \in 1 .. n - 1 /\ At(j - 1) = j
        BY <1>1, <1>6, <2>1, <3>2
      <4> QED
        BY Zenon, <4>1
    <3> QED
      BY <1>1, <1>6, <2>1, <3>1, <3>2
  <2>2. /\ \A i \in 1 .. n - 1 : At(i) \in 1 .. n /\ At(i) # pos
        /\ \A i, j \in 1 .. n - 1 : i < j => At(i) < At(j)
    BY <1>1, <1>6
  <2> QED
    BY Zenon, <2>1, <2>2
<1> HIDE DEF At
<1>9. Range(new) = Range(list) \ {h}
  <2>1. \A i \in 1 .. n : list[i] = h => i = pos
    BY Zenon, <1>2, <1>5, <1>6, <1>12
  <2>2. ASSUME NEW x \in Range(new)
        PROVE  x \in Range(list) \ {h}
    <3>1. PICK i \in 1 .. n - 1 : x = list[At(i)]
      BY Zenon, <1>7 DEF Range
    <3> QED
      BY Zenon, <1>1, <1>8, <2>1, <3>1 DEF Range
  <2>3. ASSUME NEW x \in Range(list) \ {h}
        PROVE  x \in Range(new)
    <3>1. PICK j \in 1 .. n : x = list[j]
      BY Zenon, <1>1 DEF Range
    <3>2. j # pos
      BY Zenon, <1>2, <1>5, <2>3, <3>1
    <3>3. PICK i \in 1 .. n - 1 : At(i) = j
      BY Zenon, <1>8, <3>2
    <3> QED
      BY Zenon, <1>7, <3>1, <3>3 DEF Range
  <2> QED
    BY Zenon, <2>2, <2>3
<1>10. Ascending(new)
  <2> SUFFICES ASSUME NEW i \in 1 .. n - 1, NEW j \in 1 .. n - 1, i < j
               PROVE  new[i].id < new[j].id
    BY Zenon, <1>7 DEF Ascending
  <2>1. At(i) \in DOMAIN list /\ At(j) \in DOMAIN list /\ At(i) < At(j)
    BY Zenon, <1>1, <1>8
  <2>2. list[At(i)].id < list[At(j)].id
    BY Zenon, <2>1 DEF Ascending
  <2> QED
    BY Zenon, <1>7, <2>2
<1>11. Holds(list, h)
  BY Zenon, <1>2, <1>5, <1>6 DEF Holds, pos
<1> QED
  BY Zenon, <1>6, <1>7, <1>9, <1>10, <1>11 DEF new, pos
-----------------------------------------------------------------------------
(* One update                                                              *)

InHtlc == [id : Nat, pay : Payments]

\* A state with incoming HTLCs from I and outgoing ones from O.
StateOf(I, O) == [local_balance : Nat, remote_balance : Nat,
                  local_updates : Nat, remote_updates : Nat,
                  incoming_htlcs : Seq(I), outgoing_htlcs : Seq(O)]

State == StateOf(InHtlc, Outgoing)

\* UncommittedUpdate
HostUpdate == [side : {"local"}, kind : {"add"}, htlc : Outgoing]
         \cup [side : {"remote"}, kind : {"fulfill", "fail"}, htlc : Outgoing]
         \cup [side : {"remote"}, kind : {"add"}, htlc : InHtlc]
         \cup [side : {"local"}, kind : {"fulfill", "fail"}, htlc : InHtlc]

\* A state is not an error.
LEMMA NotFailed ==
    ASSUME NEW I, NEW O, NEW st \in StateOf(I, O)
    PROVE  ~Failed(st)
BY DEF Failed, StateOf

\* The arms of the match.
LEMMA FoldUpdateArms ==
    ASSUME NEW st, ~Failed(st)
    PROVE  /\ \A u : u.side = "local" /\ u.kind = "add" =>
                 FoldUpdate(st, u) = FoldAdd(st, "local_balance", "outgoing_htlcs", u.htlc)
           /\ \A u : u.side = "remote" /\ u.kind = "add" =>
                 FoldUpdate(st, u) = FoldAdd(st, "remote_balance", "incoming_htlcs", u.htlc)
           /\ \A u : u.side = "local" /\ u.kind = "fulfill" =>
                 FoldUpdate(st, u) = FoldResolve(st, "incoming_htlcs", u, "local_balance")
           /\ \A u : u.side = "remote" /\ u.kind = "fulfill" =>
                 FoldUpdate(st, u) = FoldResolve(st, "outgoing_htlcs", u, "remote_balance")
           /\ \A u : u.side = "local" /\ u.kind = "fail" =>
                 FoldUpdate(st, u) = FoldResolve(st, "incoming_htlcs", u, "remote_balance")
           /\ \A u : u.side = "remote" /\ u.kind = "fail" =>
                 FoldUpdate(st, u) = FoldResolve(st, "outgoing_htlcs", u, "local_balance")
BY Zenon DEF FoldUpdate

\* The state after an add of an amount the sender has.
LocallyAdded(st, h) ==
    [st EXCEPT !.local_balance = @ - Amount[h.pay], !.outgoing_htlcs = Append(@, h)]

RemotelyAdded(st, h) ==
    [st EXCEPT !.remote_balance = @ - Amount[h.pay], !.incoming_htlcs = Append(@, h)]

\* An add that the balance covers, on either view of the state.
LEMMA AddsDone ==
    ASSUME NEW I, NEW O, NEW st \in StateOf(I, O), NEW u, u.kind = "add",
           Amount[u.htlc.pay] \in Nat
    PROVE  /\ u.side = "local" /\ Amount[u.htlc.pay] =< st.local_balance =>
                FoldUpdate(st, u) = LocallyAdded(st, u.htlc)
           /\ u.side = "remote" /\ Amount[u.htlc.pay] =< st.remote_balance =>
                FoldUpdate(st, u) = RemotelyAdded(st, u.htlc)
<1>1. /\ u.side = "local" =>
            FoldUpdate(st, u) = FoldAdd(st, "local_balance", "outgoing_htlcs", u.htlc)
      /\ u.side = "remote" =>
            FoldUpdate(st, u) = FoldAdd(st, "remote_balance", "incoming_htlcs", u.htlc)
  BY Zenon, NotFailed, FoldUpdateArms
<1>2. st.local_balance \in Nat /\ st.remote_balance \in Nat
  BY DEF StateOf
<1>3. /\ Amount[u.htlc.pay] =< st.local_balance => ~(Amount[u.htlc.pay] > st.local_balance)
      /\ Amount[u.htlc.pay] =< st.remote_balance => ~(Amount[u.htlc.pay] > st.remote_balance)
  BY <1>2
<1>4. /\ Amount[u.htlc.pay] =< st.local_balance =>
            FoldAdd(st, "local_balance", "outgoing_htlcs", u.htlc) = LocallyAdded(st, u.htlc)
      /\ Amount[u.htlc.pay] =< st.remote_balance =>
            FoldAdd(st, "remote_balance", "incoming_htlcs", u.htlc) = RemotelyAdded(st, u.htlc)
  BY Zenon, <1>3 DEF FoldAdd, LocallyAdded, RemotelyAdded
<1> QED
  BY Zenon, <1>1, <1>4

\* The state after a resolution of an HTLC that is in the list.
Removed(st, list, bal, h) ==
    [st EXCEPT ![bal] = @ + Amount[h.pay], ![list] = RemoveAt(@, Place(st[list], h.id))]

\* A resolution of an HTLC that is in its list, on either view of the state.
LEMMA ResolvesDone ==
    ASSUME NEW I, NEW O, NEW st \in StateOf(I, O), NEW u
    PROVE  /\ u.side = "local" /\ Holds(st.incoming_htlcs, u.htlc) =>
              /\ u.kind = "fulfill" =>
                   FoldUpdate(st, u) = Removed(st, "incoming_htlcs", "local_balance", u.htlc)
              /\ u.kind = "fail" =>
                   FoldUpdate(st, u) = Removed(st, "incoming_htlcs", "remote_balance", u.htlc)
           /\ u.side = "remote" /\ Holds(st.outgoing_htlcs, u.htlc) =>
              /\ u.kind = "fulfill" =>
                   FoldUpdate(st, u) = Removed(st, "outgoing_htlcs", "remote_balance", u.htlc)
              /\ u.kind = "fail" =>
                   FoldUpdate(st, u) = Removed(st, "outgoing_htlcs", "local_balance", u.htlc)
<1>1. ASSUME NEW list, NEW bal, Holds(st[list], u.htlc)
      PROVE  FoldResolve(st, list, u, bal) = Removed(st, list, bal, u.htlc)
  BY Zenon, <1>1 DEF FoldResolve, Place, Holds, Removed
<1>2. /\ u.side = "local" /\ u.kind = "fulfill" =>
            FoldUpdate(st, u) = FoldResolve(st, "incoming_htlcs", u, "local_balance")
      /\ u.side = "remote" /\ u.kind = "fulfill" =>
            FoldUpdate(st, u) = FoldResolve(st, "outgoing_htlcs", u, "remote_balance")
      /\ u.side = "local" /\ u.kind = "fail" =>
            FoldUpdate(st, u) = FoldResolve(st, "incoming_htlcs", u, "remote_balance")
      /\ u.side = "remote" /\ u.kind = "fail" =>
            FoldUpdate(st, u) = FoldResolve(st, "outgoing_htlcs", u, "local_balance")
  BY Zenon, NotFailed, FoldUpdateArms
<1> QED
  BY Zenon, <1>1, <1>2

\* Mirroring an update changes its side.
LEMMA MirrorFields ==
    ASSUME NEW u \in HostUpdate
    PROVE  /\ Mirror(u).side = (IF u.side = "local" THEN "remote" ELSE "local")
           /\ Mirror(u).kind = u.kind
           /\ Mirror(u).htlc = u.htlc
BY DEF HostUpdate, Mirror

\* reverse() swaps the two lists.
LEMMA ReverseType ==
    ASSUME NEW st \in State
    PROVE  ReverseView(st) \in StateOf(Outgoing, InHtlc)
BY DEF State, StateOf, ReverseView

\* The update u can be folded into st: the sender has the amount of an HTLC it
\* adds, under a higher id, and an HTLC that is resolved is there.
Applies(st, u) ==
    /\ u.side = "local" /\ u.kind = "add" =>
          /\ Amount[u.htlc.pay] =< st.local_balance
          /\ \A g \in Range(st.outgoing_htlcs) : g.id < u.htlc.id
    /\ u.side = "remote" /\ u.kind = "add" =>
          /\ Amount[u.htlc.pay] =< st.remote_balance
          /\ \A g \in Range(st.incoming_htlcs) : g.id < u.htlc.id
    /\ u.side = "local" /\ u.kind # "add" => u.htlc \in Range(st.incoming_htlcs)
    /\ u.side = "remote" /\ u.kind # "add" => u.htlc \in Range(st.outgoing_htlcs)

\* r is st after u.
Follows(st, u, r) ==
    /\ r \in State /\ Ascending(r.incoming_htlcs) /\ Ascending(r.outgoing_htlcs)
    /\ r.local_balance = st.local_balance + LocalGain(AbstractUpdate(u))
    /\ r.remote_balance = st.remote_balance + RemoteGain(AbstractUpdate(u))
    /\ Range(r.incoming_htlcs) =
          IF u.side = "remote"
          THEN IF u.kind = "add" THEN Range(st.incoming_htlcs) \cup {u.htlc}
               ELSE Range(st.incoming_htlcs)
          ELSE IF u.kind = "add" THEN Range(st.incoming_htlcs)
               ELSE Range(st.incoming_htlcs) \ {u.htlc}
    /\ Range(r.outgoing_htlcs) =
          IF u.side = "local"
          THEN IF u.kind = "add" THEN Range(st.outgoing_htlcs) \cup {u.htlc}
               ELSE Range(st.outgoing_htlcs)
          ELSE IF u.kind = "add" THEN Range(st.outgoing_htlcs)
               ELSE Range(st.outgoing_htlcs) \ {u.htlc}
    /\ FoldUpdate(ReverseView(st), Mirror(u)) = ReverseView(r)

\* The types of the fields of a state.
LEMMA StateFields ==
    ASSUME NEW st \in State
    PROVE  /\ st.local_balance \in Nat /\ st.remote_balance \in Nat
           /\ st.local_updates \in Nat /\ st.remote_updates \in Nat
           /\ st.incoming_htlcs \in Seq(InHtlc) /\ st.outgoing_htlcs \in Seq(Outgoing)
BY DEF State, StateOf

\* The arm of a local update_add_htlc.
LEMMA LocalAddFolds ==
    ASSUME NEW st \in State, Ascending(st.incoming_htlcs), Ascending(st.outgoing_htlcs),
           NEW u \in HostUpdate, u.side = "local", u.kind = "add", Applies(st, u)
    PROVE  Follows(st, u, FoldUpdate(st, u))
<1> DEFINE h == u.htlc
           r == LocallyAdded(st, h)
           rv == ReverseView(st)
<1>1. h \in Outgoing /\ u = LocalAdd(h)
  BY DEF HostUpdate, LocalAdd
<1>2. Amount[h.pay] \in Nat /\ Amount[h.pay] =< st.local_balance
  BY Zenon, <1>1, AmountType DEF Applies
<1>3. AbstractUpdate(u) = LocalAdd(h)
  BY Zenon, <1>1 DEF AbstractUpdate
<1>4. FoldUpdate(st, u) = r
  BY Zenon, <1>2, AddsDone DEF State
<1>5. FoldUpdate(rv, Mirror(u)) = RemotelyAdded(rv, h)
  <2>1. rv \in StateOf(Outgoing, InHtlc) /\ rv.remote_balance = st.local_balance
    BY Zenon, ReverseType DEF ReverseView
  <2>2. Mirror(u).side = "remote" /\ Mirror(u).kind = "add" /\ Mirror(u).htlc = h
    BY Zenon, MirrorFields
  <2> QED
    BY Zenon, <1>2, <2>1, <2>2, AddsDone
<1>6. /\ Append(st.outgoing_htlcs, h) \in Seq(Outgoing)
      /\ Range(Append(st.outgoing_htlcs, h)) = Range(st.outgoing_htlcs) \cup {h}
      /\ Ascending(Append(st.outgoing_htlcs, h))
  BY Zenon, <1>1, StateFields, ListAppend DEF Applies
<1> HIDE DEF h
<1>7. /\ r.local_balance = st.local_balance - Amount[h.pay]
      /\ r.remote_balance = st.remote_balance /\ r.incoming_htlcs = st.incoming_htlcs
      /\ r.outgoing_htlcs = Append(st.outgoing_htlcs, h)
      /\ st.local_balance \in Nat /\ st.remote_balance \in Nat
  BY DEF State, StateOf, LocallyAdded
<1>8. r \in State
  <2>1. st.local_balance - Amount[h.pay] \in Nat
    BY <1>2, <1>7
  <2> QED
    BY <1>6, <2>1 DEF State, StateOf, LocallyAdded
<1>9. FoldUpdate(rv, Mirror(u)) = ReverseView(r)
  BY <1>5 DEF State, StateOf, ReverseView, LocallyAdded, RemotelyAdded
<1> HIDE DEF r
<1>10. /\ r.local_balance = st.local_balance + LocalGain(AbstractUpdate(u))
      /\ r.remote_balance = st.remote_balance + RemoteGain(AbstractUpdate(u))
  <2>1. LocalGain(AbstractUpdate(u)) = -Amount[h.pay] /\ RemoteGain(AbstractUpdate(u)) = 0
    BY Zenon, <1>3, Gains
  <2> QED
    BY <1>2, <1>7, <2>1
<1>11. Follows(st, u, r)
  BY Zenon, <1>6, <1>7, <1>8, <1>9, <1>10 DEF Follows, h
<1> QED
  BY Zenon, <1>4, <1>11

\* The arm of a remote update_add_htlc.
LEMMA RemoteAddFolds ==
    ASSUME NEW st \in State, Ascending(st.outgoing_htlcs), Ascending(st.incoming_htlcs),
           NEW u \in HostUpdate, u.side = "remote", u.kind = "add", Applies(st, u)
    PROVE  Follows(st, u, FoldUpdate(st, u))
<1> DEFINE h == u.htlc
           r == RemotelyAdded(st, h)
           rv == ReverseView(st)
<1>1. h \in InHtlc
  BY DEF HostUpdate
<1>2. Amount[h.pay] \in Nat /\ Amount[h.pay] =< st.remote_balance
  BY Zenon, <1>1, AmountType DEF Applies, InHtlc
<1>3. AbstractUpdate(u) = RemoteAdd(h.pay)
  BY DEF AbstractUpdate, HostUpdate, RemoteAdd
<1>4. FoldUpdate(st, u) = r
  BY Zenon, <1>2, AddsDone DEF State
<1>5. FoldUpdate(rv, Mirror(u)) = LocallyAdded(rv, h)
  <2>1. rv \in StateOf(Outgoing, InHtlc) /\ rv.local_balance = st.remote_balance
    BY Zenon, ReverseType DEF ReverseView
  <2>2. Mirror(u).side = "local" /\ Mirror(u).kind = "add" /\ Mirror(u).htlc = h
    BY Zenon, MirrorFields
  <2> QED
    BY Zenon, <1>2, <2>1, <2>2, AddsDone
<1>6. /\ Append(st.incoming_htlcs, h) \in Seq(InHtlc)
      /\ Range(Append(st.incoming_htlcs, h)) = Range(st.incoming_htlcs) \cup {h}
      /\ Ascending(Append(st.incoming_htlcs, h))
  BY Zenon, <1>1, StateFields, ListAppend DEF Applies
<1> HIDE DEF h
<1>7. /\ r.remote_balance = st.remote_balance - Amount[h.pay]
      /\ r.local_balance = st.local_balance /\ r.outgoing_htlcs = st.outgoing_htlcs
      /\ r.incoming_htlcs = Append(st.incoming_htlcs, h)
      /\ st.remote_balance \in Nat /\ st.local_balance \in Nat
  BY DEF State, StateOf, RemotelyAdded
<1>8. r \in State
  <2>1. st.remote_balance - Amount[h.pay] \in Nat
    BY <1>2, <1>7
  <2> QED
    BY <1>6, <2>1 DEF State, StateOf, RemotelyAdded
<1>9. FoldUpdate(rv, Mirror(u)) = ReverseView(r)
  BY <1>5 DEF State, StateOf, ReverseView, RemotelyAdded, LocallyAdded
<1> HIDE DEF r
<1>10. /\ r.remote_balance = st.remote_balance + RemoteGain(AbstractUpdate(u))
      /\ r.local_balance = st.local_balance + LocalGain(AbstractUpdate(u))
  <2>1. RemoteGain(AbstractUpdate(u)) = -Amount[h.pay] /\ LocalGain(AbstractUpdate(u)) = 0
    BY Zenon, <1>3, Gains
  <2> QED
    BY <1>2, <1>7, <2>1
<1>11. Follows(st, u, r)
  BY Zenon, <1>6, <1>7, <1>8, <1>9, <1>10 DEF Follows, h
<1> QED
  BY Zenon, <1>4, <1>11

\* What the removal of an incoming HTLC changes.
LEMMA IncomingRemoved ==
    ASSUME NEW st \in State, NEW h, Amount[h.pay] \in Nat,
           RemoveAt(st.incoming_htlcs, Place(st.incoming_htlcs, h.id)) \in Seq(InHtlc)
    PROVE  LET a == Removed(st, "incoming_htlcs", "local_balance", h)
               b == Removed(st, "incoming_htlcs", "remote_balance", h)
               new == RemoveAt(st.incoming_htlcs, Place(st.incoming_htlcs, h.id))
               rv == ReverseView(st) IN
           /\ a \in State /\ a.local_balance = st.local_balance + Amount[h.pay]
           /\ a.remote_balance = st.remote_balance
           /\ a.incoming_htlcs = new /\ a.outgoing_htlcs = st.outgoing_htlcs
           /\ Removed(rv, "outgoing_htlcs", "remote_balance", h) = ReverseView(a)
           /\ b \in State /\ b.remote_balance = st.remote_balance + Amount[h.pay]
           /\ b.local_balance = st.local_balance
           /\ b.incoming_htlcs = new /\ b.outgoing_htlcs = st.outgoing_htlcs
           /\ Removed(rv, "outgoing_htlcs", "local_balance", h) = ReverseView(b)
<1> DEFINE new == RemoveAt(st.incoming_htlcs, Place(st.incoming_htlcs, h.id))
           a == Removed(st, "incoming_htlcs", "local_balance", h)
           b == Removed(st, "incoming_htlcs", "remote_balance", h)
           c == Removed(ReverseView(st), "outgoing_htlcs", "remote_balance", h)
           d == Removed(ReverseView(st), "outgoing_htlcs", "local_balance", h)
           x == [local_balance |-> st.remote_balance,
                 remote_balance |-> st.local_balance + Amount[h.pay],
                 local_updates |-> st.remote_updates, remote_updates |-> st.local_updates,
                 outgoing_htlcs |-> new, incoming_htlcs |-> st.outgoing_htlcs]
           y == [local_balance |-> st.remote_balance + Amount[h.pay],
                 remote_balance |-> st.local_balance,
                 local_updates |-> st.remote_updates, remote_updates |-> st.local_updates,
                 outgoing_htlcs |-> new, incoming_htlcs |-> st.outgoing_htlcs]
<1>1. /\ a = [st EXCEPT !.local_balance = @ + Amount[h.pay], !.incoming_htlcs = new]
      /\ b = [st EXCEPT !.remote_balance = @ + Amount[h.pay], !.incoming_htlcs = new]
  BY DEF Removed, State, StateOf
<1>2. /\ c = [ReverseView(st) EXCEPT !.remote_balance = @ + Amount[h.pay], !.outgoing_htlcs = new]
      /\ d = [ReverseView(st) EXCEPT !.local_balance = @ + Amount[h.pay], !.outgoing_htlcs = new]
  BY DEF Removed, State, StateOf, ReverseView
<1>3. new \in Seq(InHtlc)
  BY Zenon
<1> HIDE DEF new, a, b, c, d
<1>4. /\ a.local_balance = st.local_balance + Amount[h.pay]
      /\ a.remote_balance = st.remote_balance
      /\ a.incoming_htlcs = new /\ a.outgoing_htlcs = st.outgoing_htlcs
      /\ a.local_updates = st.local_updates /\ a.remote_updates = st.remote_updates
  BY <1>1 DEF State, StateOf
<1>5. /\ b.remote_balance = st.remote_balance + Amount[h.pay]
      /\ b.local_balance = st.local_balance
      /\ b.incoming_htlcs = new /\ b.outgoing_htlcs = st.outgoing_htlcs
      /\ b.local_updates = st.local_updates /\ b.remote_updates = st.remote_updates
  BY <1>1 DEF State, StateOf
<1>6. a \in State /\ b \in State
  <2>1. st.local_balance + Amount[h.pay] \in Nat /\ st.remote_balance + Amount[h.pay] \in Nat
    BY StateFields
  <2> QED
    BY <1>1, <1>3, <2>1 DEF State, StateOf
<1>7. ReverseView(a) = x /\ ReverseView(b) = y
  BY Zenon, <1>4, <1>5 DEF ReverseView
<1>8. c = x /\ d = y
  BY <1>2, StateFields DEF ReverseView
<1> HIDE DEF x, y
<1>9. c = ReverseView(a) /\ d = ReverseView(b)
  BY Zenon, <1>7, <1>8
<1> QED
  BY Zenon, <1>4, <1>5, <1>6, <1>9 DEF a, b, c, d, new

\* The arms of a local fulfill and a local fail.
LEMMA LocalResolveFolds ==
    ASSUME NEW st \in State, Ascending(st.incoming_htlcs), Ascending(st.outgoing_htlcs),
           NEW u \in HostUpdate, u.side = "local", u.kind # "add", Applies(st, u)
    PROVE  Follows(st, u, FoldUpdate(st, u))
<1> DEFINE h == u.htlc
           a == Removed(st, "incoming_htlcs", "local_balance", h)
           b == Removed(st, "incoming_htlcs", "remote_balance", h)
           rv == ReverseView(st)
           pos == Place(st.incoming_htlcs, h.id)
           new == RemoveAt(st.incoming_htlcs, pos)
<1>1. h \in InHtlc /\ u.kind \in {"fulfill", "fail"} /\ h \in Range(st.incoming_htlcs)
  BY DEF HostUpdate, Applies
<1>2. Amount[h.pay] \in Nat
  BY Zenon, <1>1, AmountType DEF InHtlc
<1>3. /\ Holds(st.incoming_htlcs, h) /\ new \in Seq(InHtlc)
      /\ Range(new) = Range(st.incoming_htlcs) \ {h} /\ Ascending(new)
  <2>1. h \in Range(st.incoming_htlcs) /\ \A x \in InHtlc : x.id \in Nat
    BY <1>1 DEF InHtlc
  <2>2. st.incoming_htlcs \in Seq(InHtlc)
    BY Zenon, StateFields
  <2> QED
    BY Zenon, <2>1, <2>2, ListRemove
<1>4. /\ u.kind = "fulfill" => FoldUpdate(st, u) = a
      /\ u.kind = "fail" => FoldUpdate(st, u) = b
  BY <1>3, ResolvesDone DEF State
<1>5. /\ u.kind = "fulfill" =>
            FoldUpdate(rv, Mirror(u)) = Removed(rv, "outgoing_htlcs", "remote_balance", h)
      /\ u.kind = "fail" =>
            FoldUpdate(rv, Mirror(u)) = Removed(rv, "outgoing_htlcs", "local_balance", h)
  <2>1. rv \in StateOf(Outgoing, InHtlc) /\ rv.outgoing_htlcs = st.incoming_htlcs
    BY Zenon, ReverseType DEF ReverseView
  <2>2. Mirror(u).side = "remote" /\ Mirror(u).kind = u.kind /\ Mirror(u).htlc = h
    BY Zenon, MirrorFields
  <2> QED
    BY <1>3, <2>1, <2>2, ResolvesDone
<1>6. /\ a \in State /\ a.local_balance = st.local_balance + Amount[h.pay]
      /\ a.remote_balance = st.remote_balance
      /\ a.incoming_htlcs = new /\ a.outgoing_htlcs = st.outgoing_htlcs
      /\ Removed(rv, "outgoing_htlcs", "remote_balance", h) = ReverseView(a)
      /\ b \in State /\ b.remote_balance = st.remote_balance + Amount[h.pay]
      /\ b.local_balance = st.local_balance
      /\ b.incoming_htlcs = new /\ b.outgoing_htlcs = st.outgoing_htlcs
      /\ Removed(rv, "outgoing_htlcs", "local_balance", h) = ReverseView(b)
  BY Zenon, <1>2, <1>3, IncomingRemoved
<1>7. /\ u.kind = "fulfill" => /\ LocalGain(AbstractUpdate(u)) = Amount[h.pay]
                               /\ RemoteGain(AbstractUpdate(u)) = 0
      /\ u.kind = "fail" => /\ RemoteGain(AbstractUpdate(u)) = Amount[h.pay]
                            /\ LocalGain(AbstractUpdate(u)) = 0
  <2>1. /\ u.kind = "fulfill" => AbstractUpdate(u) = LocalFulfill(h.pay)
        /\ u.kind = "fail" => AbstractUpdate(u) = LocalFail(h.pay)
    BY DEF AbstractUpdate, HostUpdate, LocalFulfill, LocalFail
  <2> QED
    BY Zenon, <2>1, Gains
<1>8. /\ st.local_balance = st.local_balance + 0 /\ st.remote_balance = st.remote_balance + 0
  BY StateFields
<1> HIDE DEF a, b, new, pos, rv
<1>9. CASE u.kind = "fulfill"
  BY Zenon, <1>3, <1>4, <1>5, <1>6, <1>7, <1>8, <1>9 DEF Follows, rv
<1>10. CASE u.kind = "fail"
  BY Zenon, <1>3, <1>4, <1>5, <1>6, <1>7, <1>8, <1>10 DEF Follows, rv
<1> QED
  BY Zenon, <1>1, <1>9, <1>10

\* What the removal of an outgoing HTLC changes.
LEMMA OutgoingRemoved ==
    ASSUME NEW st \in State, NEW h, Amount[h.pay] \in Nat,
           RemoveAt(st.outgoing_htlcs, Place(st.outgoing_htlcs, h.id)) \in Seq(Outgoing)
    PROVE  LET a == Removed(st, "outgoing_htlcs", "local_balance", h)
               b == Removed(st, "outgoing_htlcs", "remote_balance", h)
               new == RemoveAt(st.outgoing_htlcs, Place(st.outgoing_htlcs, h.id))
               rv == ReverseView(st) IN
           /\ a \in State /\ a.local_balance = st.local_balance + Amount[h.pay]
           /\ a.remote_balance = st.remote_balance
           /\ a.outgoing_htlcs = new /\ a.incoming_htlcs = st.incoming_htlcs
           /\ Removed(rv, "incoming_htlcs", "remote_balance", h) = ReverseView(a)
           /\ b \in State /\ b.remote_balance = st.remote_balance + Amount[h.pay]
           /\ b.local_balance = st.local_balance
           /\ b.outgoing_htlcs = new /\ b.incoming_htlcs = st.incoming_htlcs
           /\ Removed(rv, "incoming_htlcs", "local_balance", h) = ReverseView(b)
<1> DEFINE new == RemoveAt(st.outgoing_htlcs, Place(st.outgoing_htlcs, h.id))
           a == Removed(st, "outgoing_htlcs", "local_balance", h)
           b == Removed(st, "outgoing_htlcs", "remote_balance", h)
           c == Removed(ReverseView(st), "incoming_htlcs", "remote_balance", h)
           d == Removed(ReverseView(st), "incoming_htlcs", "local_balance", h)
           x == [local_balance |-> st.remote_balance,
                 remote_balance |-> st.local_balance + Amount[h.pay],
                 local_updates |-> st.remote_updates, remote_updates |-> st.local_updates,
                 incoming_htlcs |-> new, outgoing_htlcs |-> st.incoming_htlcs]
           y == [local_balance |-> st.remote_balance + Amount[h.pay],
                 remote_balance |-> st.local_balance,
                 local_updates |-> st.remote_updates, remote_updates |-> st.local_updates,
                 incoming_htlcs |-> new, outgoing_htlcs |-> st.incoming_htlcs]
<1>1. /\ a = [st EXCEPT !.local_balance = @ + Amount[h.pay], !.outgoing_htlcs = new]
      /\ b = [st EXCEPT !.remote_balance = @ + Amount[h.pay], !.outgoing_htlcs = new]
  BY DEF Removed, State, StateOf
<1>2. /\ c = [ReverseView(st) EXCEPT !.remote_balance = @ + Amount[h.pay], !.incoming_htlcs = new]
      /\ d = [ReverseView(st) EXCEPT !.local_balance = @ + Amount[h.pay], !.incoming_htlcs = new]
  BY DEF Removed, State, StateOf, ReverseView
<1>3. new \in Seq(Outgoing)
  BY Zenon
<1> HIDE DEF new, a, b, c, d
<1>4. /\ a.local_balance = st.local_balance + Amount[h.pay]
      /\ a.remote_balance = st.remote_balance
      /\ a.outgoing_htlcs = new /\ a.incoming_htlcs = st.incoming_htlcs
      /\ a.local_updates = st.local_updates /\ a.remote_updates = st.remote_updates
  BY <1>1 DEF State, StateOf
<1>5. /\ b.remote_balance = st.remote_balance + Amount[h.pay]
      /\ b.local_balance = st.local_balance
      /\ b.outgoing_htlcs = new /\ b.incoming_htlcs = st.incoming_htlcs
      /\ b.local_updates = st.local_updates /\ b.remote_updates = st.remote_updates
  BY <1>1 DEF State, StateOf
<1>6. a \in State /\ b \in State
  <2>1. st.local_balance + Amount[h.pay] \in Nat /\ st.remote_balance + Amount[h.pay] \in Nat
    BY StateFields
  <2> QED
    BY <1>1, <1>3, <2>1 DEF State, StateOf
<1>7. ReverseView(a) = x /\ ReverseView(b) = y
  BY Zenon, <1>4, <1>5 DEF ReverseView
<1>8. c = x /\ d = y
  BY <1>2, StateFields DEF ReverseView
<1> HIDE DEF x, y
<1>9. c = ReverseView(a) /\ d = ReverseView(b)
  BY Zenon, <1>7, <1>8
<1> QED
  BY Zenon, <1>4, <1>5, <1>6, <1>9 DEF a, b, c, d, new

\* The arms of a remote fulfill and a remote fail.
LEMMA RemoteResolveFolds ==
    ASSUME NEW st \in State, Ascending(st.incoming_htlcs), Ascending(st.outgoing_htlcs),
           NEW u \in HostUpdate, u.side = "remote", u.kind # "add", Applies(st, u)
    PROVE  Follows(st, u, FoldUpdate(st, u))
<1> DEFINE h == u.htlc
           a == Removed(st, "outgoing_htlcs", "local_balance", h)
           b == Removed(st, "outgoing_htlcs", "remote_balance", h)
           rv == ReverseView(st)
           pos == Place(st.outgoing_htlcs, h.id)
           new == RemoveAt(st.outgoing_htlcs, pos)
<1>1. h \in Outgoing /\ u.kind \in {"fulfill", "fail"} /\ h \in Range(st.outgoing_htlcs)
  BY DEF HostUpdate, Applies
<1>2. Amount[h.pay] \in Nat
  BY Zenon, <1>1, AmountType
<1>3. /\ Holds(st.outgoing_htlcs, h) /\ new \in Seq(Outgoing)
      /\ Range(new) = Range(st.outgoing_htlcs) \ {h} /\ Ascending(new)
  <2>1. h \in Range(st.outgoing_htlcs) /\ \A x \in Outgoing : x.id \in Nat
    BY <1>1 DEF Outgoing
  <2>2. st.outgoing_htlcs \in Seq(Outgoing)
    BY Zenon, StateFields
  <2> QED
    BY Zenon, <2>1, <2>2, ListRemove
<1>4. /\ u.kind = "fulfill" => FoldUpdate(st, u) = b
      /\ u.kind = "fail" => FoldUpdate(st, u) = a
  BY <1>3, ResolvesDone DEF State
<1>5. /\ u.kind = "fulfill" =>
            FoldUpdate(rv, Mirror(u)) = Removed(rv, "incoming_htlcs", "local_balance", h)
      /\ u.kind = "fail" =>
            FoldUpdate(rv, Mirror(u)) = Removed(rv, "incoming_htlcs", "remote_balance", h)
  <2>1. rv \in StateOf(Outgoing, InHtlc) /\ rv.incoming_htlcs = st.outgoing_htlcs
    BY Zenon, ReverseType DEF ReverseView
  <2>2. Mirror(u).side = "local" /\ Mirror(u).kind = u.kind /\ Mirror(u).htlc = h
    BY Zenon, MirrorFields
  <2> QED
    BY <1>3, <2>1, <2>2, ResolvesDone
<1>6. /\ a \in State /\ a.local_balance = st.local_balance + Amount[h.pay]
      /\ a.remote_balance = st.remote_balance
      /\ a.outgoing_htlcs = new /\ a.incoming_htlcs = st.incoming_htlcs
      /\ Removed(rv, "incoming_htlcs", "remote_balance", h) = ReverseView(a)
      /\ b \in State /\ b.remote_balance = st.remote_balance + Amount[h.pay]
      /\ b.local_balance = st.local_balance
      /\ b.outgoing_htlcs = new /\ b.incoming_htlcs = st.incoming_htlcs
      /\ Removed(rv, "incoming_htlcs", "local_balance", h) = ReverseView(b)
  BY Zenon, <1>2, <1>3, OutgoingRemoved
<1>7. /\ u.kind = "fulfill" => /\ RemoteGain(AbstractUpdate(u)) = Amount[h.pay]
                               /\ LocalGain(AbstractUpdate(u)) = 0
      /\ u.kind = "fail" => /\ LocalGain(AbstractUpdate(u)) = Amount[h.pay]
                            /\ RemoteGain(AbstractUpdate(u)) = 0
  <2>1. /\ u.kind = "fulfill" => AbstractUpdate(u) = RemoteFulfill(h)
        /\ u.kind = "fail" => AbstractUpdate(u) = RemoteFail(h)
    BY DEF AbstractUpdate, HostUpdate, RemoteFulfill, RemoteFail
  <2> QED
    BY Zenon, <2>1, Gains
<1>8. /\ st.local_balance = st.local_balance + 0 /\ st.remote_balance = st.remote_balance + 0
  BY StateFields
<1> HIDE DEF a, b, new, pos, rv
<1>9. CASE u.kind = "fulfill"
  BY Zenon, <1>3, <1>4, <1>5, <1>6, <1>7, <1>8, <1>9 DEF Follows, rv
<1>10. CASE u.kind = "fail"
  BY Zenon, <1>3, <1>4, <1>5, <1>6, <1>7, <1>8, <1>10 DEF Follows, rv
<1> QED
  BY Zenon, <1>1, <1>9, <1>10

\* The four together.
LEMMA UpdateFolds ==
    ASSUME NEW st \in State, Ascending(st.incoming_htlcs), Ascending(st.outgoing_htlcs),
           NEW u \in HostUpdate, Applies(st, u)
    PROVE  Follows(st, u, FoldUpdate(st, u))
<1>1. u.side \in {"local", "remote"}
  BY DEF HostUpdate
<1> QED
  BY Zenon, <1>1, LocalAddFolds, RemoteAddFolds, LocalResolveFolds, RemoteResolveFolds

-----------------------------------------------------------------------------
(* A Vec of updates and the set of them                                    *)

\* The updates as Lcss.tla writes them.
Abstracted(us) == {AbstractUpdate(us[i]) : i \in DOMAIN us}

\* The update is about an outgoing HTLC.
OfOutgoing(u) == \/ u.side = "local" /\ u.kind = "add"
                 \/ u.side = "remote" /\ u.kind # "add"

\* An update as Lcss.tla writes it keeps its side and its kind.
LEMMA AbstractFields ==
    ASSUME NEW u \in HostUpdate
    PROVE  /\ AbstractUpdate(u) \in Update
           /\ AbstractUpdate(u).side = u.side /\ AbstractUpdate(u).kind = u.kind
           /\ OfOutgoing(u) => AbstractUpdate(u).htlc = u.htlc /\ u.htlc \in Outgoing
           /\ ~OfOutgoing(u) => AbstractUpdate(u).htlc = u.htlc.pay /\ u.htlc \in InHtlc
<1>1. CASE OfOutgoing(u)
  <2>1. AbstractUpdate(u) = u /\ u.htlc \in Outgoing /\ u \in Update
    BY <1>1 DEF OfOutgoing, AbstractUpdate, HostUpdate, Update
  <2> QED
    BY Zenon, <1>1, <2>1
<1>2. CASE ~OfOutgoing(u)
  <2> DEFINE x == [side |-> u.side, kind |-> u.kind, htlc |-> u.htlc.pay]
  <2>1. /\ u.htlc \in InHtlc /\ u = [side |-> u.side, kind |-> u.kind, htlc |-> u.htlc]
        /\ \/ u.side = "remote" /\ u.kind = "add"
           \/ u.side = "local" /\ u.kind # "add" /\ u.kind \in {"fulfill", "fail"}
    BY <1>2 DEF OfOutgoing, HostUpdate
  <2>2. AbstractUpdate(u) = [u EXCEPT !.htlc = u.htlc.pay]
    BY Zenon, <2>1 DEF AbstractUpdate
  <2>3. AbstractUpdate(u) = x
    BY <2>1, <2>2
  <2>4. u.htlc.pay \in Payments
    BY Zenon, <2>1 DEF InHtlc
  <2>5. x \in Update
    BY <2>1, <2>4 DEF Update
  <2>6. x.side = u.side /\ x.kind = u.kind /\ x.htlc = u.htlc.pay
    BY Zenon
  <2> HIDE DEF x
  <2> QED
    BY Zenon, <1>2, <2>1, <2>3, <2>5, <2>6
<1> QED
  BY Zenon, <1>1, <1>2

\* One more update, in the Vec and in the set.
LEMMA OneMore ==
    ASSUME NEW us \in Seq(HostUpdate), NEW u \in HostUpdate
    PROVE  /\ Range(Append(us, u)) = Range(us) \cup {u}
           /\ Abstracted(Append(us, u)) = Abstracted(us) \cup {AbstractUpdate(u)}
           /\ Mirrored(Append(us, u)) = Append(Mirrored(us), Mirror(u))
           /\ Mirrored(us) \in Seq({Mirror(v) : v \in HostUpdate})
<1> DEFINE n == Len(us)
           vs == Append(us, u)
<1>1. n \in Nat /\ DOMAIN us = 1 .. n /\ DOMAIN vs = 1 .. n + 1
  OBVIOUS
<1>2. vs[n + 1] = u /\ \A i \in 1 .. n : vs[i] = us[i] /\ us[i] \in HostUpdate
  OBVIOUS
<1> HIDE DEF n, vs
<1>3. /\ \A i \in DOMAIN vs : i \in DOMAIN us \/ i = n + 1
      /\ n + 1 \in DOMAIN vs /\ \A i \in DOMAIN us : i \in DOMAIN vs
  BY <1>1
<1>4. Range(vs) = Range(us) \cup {u} /\ Abstracted(vs) = Abstracted(us) \cup {AbstractUpdate(u)}
  BY Zenon, <1>1, <1>2, <1>3 DEF Range, Abstracted
<1>5. Mirrored(us) \in Seq({Mirror(v) : v \in HostUpdate})
  <2>1. \A i \in 1 .. n : Mirror(us[i]) \in {Mirror(v) : v \in HostUpdate}
    BY Zenon, <1>2
  <2> QED
    BY <1>1, <2>1 DEF Mirrored
<1>6. Mirrored(vs) = Append(Mirrored(us), Mirror(u))
  <2>1. DOMAIN Mirrored(vs) = 1 .. n + 1 /\ DOMAIN Mirrored(us) = 1 .. n
    BY Zenon, <1>1 DEF Mirrored
  <2>2. /\ Mirrored(vs)[n + 1] = Mirror(u)
        /\ \A i \in 1 .. n : Mirrored(vs)[i] = Mirrored(us)[i]
    BY Zenon, <1>1, <1>2, <1>3 DEF Mirrored
  <2> DEFINE ms == Mirrored(us)
             m == Mirror(u)
             xs == Append(ms, m)
  <2>3. Len(ms) = n /\ m \in {Mirror(v) : v \in HostUpdate}
    <3>1. Len(ms) \in Nat /\ DOMAIN ms = 1 .. Len(ms)
      <4> HIDE DEF ms
      <4> QED
        BY <1>5 DEF ms
    <3>2. Len(ms) = n
      <4> HIDE DEF ms
      <4> QED
        BY <1>1, <2>1, <3>1 DEF ms
    <3> QED
      BY Zenon, <3>2
  <2>4. DOMAIN xs = 1 .. n + 1 /\ xs[n + 1] = m /\ \A i \in 1 .. n : xs[i] = ms[i]
    <3>1. ms \in Seq({Mirror(v) : v \in HostUpdate})
      BY Zenon, <1>5
    <3> HIDE DEF ms, m
    <3> QED
      BY <1>1, <2>3, <3>1
  <2>5. xs = [i \in DOMAIN xs |-> xs[i]] /\ Mirrored(vs) = [i \in DOMAIN vs |-> Mirrored(vs)[i]]
    <3>1. xs \in Seq({Mirror(v) : v \in HostUpdate})
      <4>1. ms \in Seq({Mirror(v) : v \in HostUpdate})
        BY Zenon, <1>5
      <4> HIDE DEF ms, m
      <4> QED
        BY <2>3, <4>1
    <3>2. Mirrored(vs) = [i \in DOMAIN vs |-> Mirrored(vs)[i]]
      BY Zenon DEF Mirrored
    <3> HIDE DEF xs
    <3> QED
      BY <3>1, <3>2
  <2>6. \A i \in DOMAIN vs : Mirrored(vs)[i] = xs[i]
    <3> HIDE DEF xs
    <3> QED
      BY Zenon, <1>1, <1>3, <2>2, <2>4
  <2> HIDE DEF xs
  <2>7. Mirrored(vs) = xs
    BY Zenon, <1>1, <2>4, <2>5, <2>6
  <2> QED
    BY Zenon, <2>7 DEF xs
<1> QED
  BY Zenon, <1>4, <1>5, <1>6 DEF vs

\* The counts are numbers.
LEMMA CountType ==
    ASSUME NEW us \in Seq(HostUpdate)
    PROVE  LocalCount(us) \in Nat /\ RemoteCount(us) \in Nat
<1>1. 1 \in Int /\ Len(us) \in Int /\ DOMAIN us = 1 .. Len(us)
  OBVIOUS
<1>2. IsFiniteSet(DOMAIN us)
  BY Zenon, <1>1, FS_Interval
<1>3. \A s : IsFiniteSet({i \in DOMAIN us : us[i].side = s})
  BY Zenon, <1>2, FS_Subset
<1> QED
  BY Zenon, <1>3, FS_CardinalityType DEF LocalCount, RemoteCount, Places

\* One more update counts for its side.
LEMMA CountOneMore ==
    ASSUME NEW us \in Seq(HostUpdate), NEW u \in HostUpdate
    PROVE  /\ LocalCount(Append(us, u)) = LocalCount(us) + (IF u.side = "local" THEN 1 ELSE 0)
           /\ RemoteCount(Append(us, u)) = RemoteCount(us) + (IF u.side = "remote" THEN 1 ELSE 0)
<1> DEFINE n == Len(us)
           vs == Append(us, u)
           Of(s) == {i \in DOMAIN us : us[i].side = s}
           Now(s) == {i \in DOMAIN vs : vs[i].side = s}
<1>1. n \in Nat /\ DOMAIN us = 1 .. n /\ DOMAIN vs = 1 .. n + 1
  OBVIOUS
<1>2. vs[n + 1] = u /\ \A i \in 1 .. n : vs[i] = us[i]
  OBVIOUS
<1> HIDE DEF n, vs
<1>3. /\ \A i \in DOMAIN vs : i \in DOMAIN us \/ i = n + 1
      /\ n + 1 \in DOMAIN vs /\ n + 1 \notin DOMAIN us /\ \A i \in DOMAIN us : i \in DOMAIN vs
  BY <1>1
<1>4. IsFiniteSet(DOMAIN us)
  <2>1. 1 \in Int /\ n \in Int
    BY <1>1
  <2> QED
    BY Zenon, <1>1, <2>1, FS_Interval
<1>5. ASSUME NEW s
      PROVE  /\ Cardinality(Of(s)) \in Nat
             /\ Cardinality(Now(s)) = Cardinality(Of(s)) + (IF u.side = s THEN 1 ELSE 0)
  <2>1. IsFiniteSet(Of(s)) /\ n + 1 \notin Of(s)
    BY Zenon, <1>3, <1>4, FS_Subset
  <2>2. Cardinality(Of(s)) \in Nat
    BY Zenon, <2>1, FS_CardinalityType
  <2>3. CASE u.side = s
    <3>1. Now(s) = Of(s) \cup {n + 1}
      BY Zenon, <1>1, <1>2, <1>3, <2>3
    <3>2. Cardinality(Of(s) \cup {n + 1}) = Cardinality(Of(s)) + 1
      <4> HIDE DEF Of
      <4> QED
        BY Zenon, <2>1, FS_AddElement
    <3> QED
      BY Zenon, <2>2, <2>3, <3>1, <3>2
  <2>4. CASE u.side # s
    <3>1. Now(s) = Of(s)
      BY Zenon, <1>1, <1>2, <1>3, <2>4
    <3>2. Cardinality(Of(s)) = Cardinality(Of(s)) + 0
      <4> HIDE DEF Of
      <4> QED
        BY <2>2
    <3> QED
      BY Zenon, <2>2, <2>4, <3>1, <3>2
  <2> QED
    BY Zenon, <2>3, <2>4, <2>2
<1> QED
  BY Zenon, <1>5 DEF LocalCount, RemoteCount, Places, vs

\* The mirrored updates are counted for the other side.
LEMMA CountMirrored ==
    ASSUME NEW us \in Seq(HostUpdate)
    PROVE  LocalCount(Mirrored(us)) = RemoteCount(us) /\ RemoteCount(Mirrored(us)) = LocalCount(us)
<1>1. \A i \in DOMAIN us : us[i] \in HostUpdate /\ us[i].side \in {"local", "remote"}
  BY DEF HostUpdate
<1>2. DOMAIN Mirrored(us) = DOMAIN us /\ \A i \in DOMAIN us : Mirrored(us)[i] = Mirror(us[i])
  BY Zenon DEF Mirrored
<1>3. \A i \in DOMAIN us : /\ Mirrored(us)[i].side = "local" <=> us[i].side = "remote"
                           /\ Mirrored(us)[i].side = "remote" <=> us[i].side = "local"
  BY <1>1, <1>2, MirrorFields
<1>4. /\ {i \in DOMAIN Mirrored(us) : Mirrored(us)[i].side = "local"}
            = {i \in DOMAIN us : us[i].side = "remote"}
      /\ {i \in DOMAIN Mirrored(us) : Mirrored(us)[i].side = "remote"}
            = {i \in DOMAIN us : us[i].side = "local"}
  BY Zenon, <1>2, <1>3
<1> QED
  BY Zenon, <1>4 DEF LocalCount, RemoteCount, Places

-----------------------------------------------------------------------------
(* The invariant                                                           *)

\* The HTLCs that were or came into flight, and those that were resolved.
InAll(st, us) == Range(st.incoming_htlcs) \cup HtlcsOf(Range(us), "remote", "add")
OutAll(st, us) == Range(st.outgoing_htlcs) \cup HtlcsOf(Range(us), "local", "add")
InGone(us) == HtlcsOf(Range(us), "local", "fulfill") \cup HtlcsOf(Range(us), "local", "fail")
OutGone(us) == HtlcsOf(Range(us), "remote", "fulfill") \cup HtlcsOf(Range(us), "remote", "fail")

\* The ids of H are numbers up to n, and an id or a payment names one HTLC of H.
Named(H, n) ==
    \A g \in H : g.id \in 0 .. n /\ \A h \in H : g.id = h.id \/ g.pay = h.pay => g = h

\* The HTLCs of a state have ids of their own, that its counters have reached.
StateSound(st) ==
    /\ Ascending(st.incoming_htlcs) /\ Ascending(st.outgoing_htlcs)
    /\ Named(Range(st.incoming_htlcs), st.remote_updates)
    /\ Named(Range(st.outgoing_htlcs), st.local_updates)

\* The pending updates add HTLCs with ids and payments of their own, and resolve
\* HTLCs of the state.
PendingSound(st, us) ==
    /\ st \in State /\ us \in Seq(HostUpdate)
    /\ StateSound(st)
    /\ Named(InAll(st, us), NextRemoteUpdates(st, us))
    /\ Named(OutAll(st, us), NextLocalUpdates(st, us))
    /\ InGone(us) \subseteq Range(st.incoming_htlcs)
    /\ OutGone(us) \subseteq Range(st.outgoing_htlcs)

Funds(st) == [local |-> st.local_balance, remote |-> st.remote_balance]

\* r is what folding us into st has to give.
Gives(st, us, r) ==
    /\ r \in State /\ Ascending(r.incoming_htlcs) /\ Ascending(r.outgoing_htlcs)
    /\ Range(r.incoming_htlcs) = InAll(st, us) \ InGone(us)
    /\ Range(r.outgoing_htlcs) = OutAll(st, us) \ OutGone(us)
    /\ r.local_balance = NextBalance(Funds(st), Abstracted(us)).local
    /\ r.remote_balance = NextBalance(Funds(st), Abstracted(us)).remote
    /\ Folded(ReverseView(st), Mirrored(us)) = ReverseView(r)

\* Each update counts once.
Counted(us) ==
    /\ Abstracted(us) \in FiniteUpdates
    /\ Cardinality({a \in Abstracted(us) : a.side = "local"}) = LocalCount(us)
    /\ Cardinality({a \in Abstracted(us) : a.side = "remote"}) = RemoteCount(us)

\* What the handlers check before they push u: r is the state that would be next.
Pushable(st, us, r, u) ==
    /\ u.side = "local" /\ u.kind = "add" =>
          /\ u.htlc.id = NextLocalUpdates(st, us) + 1
          /\ Amount[u.htlc.pay] =< r.local_balance
          /\ \A g \in OutAll(st, us) : g.pay # u.htlc.pay
    /\ u.side = "remote" /\ u.kind = "add" =>
          /\ u.htlc.id = NextRemoteUpdates(st, us) + 1
          /\ Amount[u.htlc.pay] =< r.remote_balance
          /\ \A g \in InAll(st, us) : g.pay # u.htlc.pay
    /\ u.side = "local" /\ u.kind # "add" => u.htlc \in Range(st.incoming_htlcs) \ InGone(us)
    /\ u.side = "remote" /\ u.kind # "add" => u.htlc \in Range(st.outgoing_htlcs) \ OutGone(us)

\* Where the HTLC of a pending update is.
LEMMA HtlcOfPending ==
    ASSUME NEW us \in Seq(HostUpdate), NEW st, NEW i \in DOMAIN us
    PROVE  /\ us[i].side = "local" /\ us[i].kind = "add" => us[i].htlc \in OutAll(st, us)
           /\ us[i].side = "remote" /\ us[i].kind = "add" => us[i].htlc \in InAll(st, us)
           /\ us[i].side = "local" /\ us[i].kind # "add" => us[i].htlc \in InGone(us)
           /\ us[i].side = "remote" /\ us[i].kind # "add" => us[i].htlc \in OutGone(us)
<1>1. us[i] \in HostUpdate /\ us[i] \in Range(us)
  BY DEF Range
<1>2. us[i].kind \in {"add", "fulfill", "fail"}
  BY <1>1 DEF HostUpdate
<1>3. us[i].htlc \in HtlcsOf(Range(us), us[i].side, us[i].kind)
  BY Zenon, <1>1 DEF HtlcsOf
<1> QED
  BY Zenon, <1>2, <1>3 DEF InAll, OutAll, InGone, OutGone

\* An update that may be pushed is not pending.
LEMMA PushIsNew ==
    ASSUME NEW st, NEW us, NEW r, NEW u \in HostUpdate, PendingSound(st, us), Pushable(st, us, r, u)
    PROVE  AbstractUpdate(u) \notin Abstracted(us)
<1> SUFFICES ASSUME NEW i \in DOMAIN us, AbstractUpdate(us[i]) = AbstractUpdate(u)
             PROVE  FALSE
  BY Zenon DEF Abstracted
<1> DEFINE v == us[i]
<1>1. us \in Seq(HostUpdate) /\ v \in HostUpdate
  BY DEF PendingSound
<1>2. v.side = u.side /\ v.kind = u.kind
  BY <1>1, AbstractFields
<1>3. u.side \in {"local", "remote"}
  BY DEF HostUpdate
<1>4. CASE OfOutgoing(u)
  <2>1. v.htlc = u.htlc
    BY Zenon, <1>1, <1>2, <1>4, AbstractFields DEF OfOutgoing
  <2> QED
    BY Zenon, <1>1, <1>2, <1>4, <2>1, HtlcOfPending DEF OfOutgoing, Pushable
<1>5. CASE ~OfOutgoing(u)
  <2>1. v.htlc.pay = u.htlc.pay
    BY Zenon, <1>1, <1>2, <1>5, AbstractFields DEF OfOutgoing
  <2>2. CASE u.side = "remote" /\ u.kind = "add"
    BY Zenon, <1>1, <1>2, <2>1, <2>2, HtlcOfPending DEF Pushable
  <2>3. CASE u.side = "local" /\ u.kind # "add"
    <3>1. v.htlc \in InGone(us)
      BY Zenon, <1>1, <1>2, <2>3, HtlcOfPending
    <3>2. v.htlc \in InAll(st, us) /\ u.htlc \in InAll(st, us) /\ u.htlc \notin InGone(us)
      BY Zenon, <2>3, <3>1 DEF PendingSound, InAll, Pushable
    <3> QED
      BY Zenon, <2>1, <3>1, <3>2 DEF PendingSound, Named
  <2> QED
    BY Zenon, <1>3, <1>5, <2>2, <2>3 DEF OfOutgoing
<1> QED
  BY Zenon, <1>4, <1>5

-----------------------------------------------------------------------------
(* A push                                                                  *)

\* What one more update adds to the HTLCs that are added and resolved.
LEMMA HtlcsOneMore ==
    ASSUME NEW us \in Seq(HostUpdate), NEW u \in HostUpdate, NEW st
    PROVE  LET vs == Append(us, u)
               h == u.htlc IN
           /\ InAll(st, vs) = IF u.side = "remote" /\ u.kind = "add"
                              THEN InAll(st, us) \cup {h} ELSE InAll(st, us)
           /\ OutAll(st, vs) = IF u.side = "local" /\ u.kind = "add"
                               THEN OutAll(st, us) \cup {h} ELSE OutAll(st, us)
           /\ InGone(vs) = IF u.side = "local" /\ u.kind # "add"
                           THEN InGone(us) \cup {h} ELSE InGone(us)
           /\ OutGone(vs) = IF u.side = "remote" /\ u.kind # "add"
                            THEN OutGone(us) \cup {h} ELSE OutGone(us)
<1> DEFINE H(side, kind) == HtlcsOf(Range(us), side, kind)
           K(side, kind) == HtlcsOf(Range(Append(us, u)), side, kind)
<1>1. ASSUME NEW side, NEW kind
      PROVE  K(side, kind) = IF u.side = side /\ u.kind = kind
                             THEN H(side, kind) \cup {u.htlc} ELSE H(side, kind)
  <2>1. Range(Append(us, u)) = Range(us) \cup {u}
    BY Zenon, OneMore
  <2>2. CASE u.side = side /\ u.kind = kind
    BY Zenon, <2>1, <2>2 DEF HtlcsOf
  <2>3. CASE ~(u.side = side /\ u.kind = kind)
    BY Zenon, <2>1, <2>3 DEF HtlcsOf
  <2> QED
    BY Zenon, <2>2, <2>3
<1>2. u.kind \in {"add", "fulfill", "fail"}
  BY DEF HostUpdate
<1> HIDE DEF H, K
<1>3. ASSUME NEW side
      PROVE  K(side, "fulfill") \cup K(side, "fail") =
                IF u.side = side /\ u.kind # "add"
                THEN (H(side, "fulfill") \cup H(side, "fail")) \cup {u.htlc}
                ELSE H(side, "fulfill") \cup H(side, "fail")
  <2>1. CASE u.side = side /\ u.kind = "fulfill"
    BY <1>1, <2>1
  <2>2. CASE u.side = side /\ u.kind = "fail"
    BY <1>1, <2>2
  <2>3. CASE ~(u.side = side /\ u.kind # "add")
    <3>1. K(side, "fulfill") = H(side, "fulfill") /\ K(side, "fail") = H(side, "fail")
      BY <1>1, <2>3
    <3> QED
      BY Zenon, <2>3, <3>1
  <2> QED
    BY Zenon, <1>2, <2>1, <2>2, <2>3
<1>4. ASSUME NEW S, NEW side
      PROVE  S \cup K(side, "add") = IF u.side = side /\ u.kind = "add"
                                     THEN (S \cup H(side, "add")) \cup {u.htlc}
                                     ELSE S \cup H(side, "add")
  BY <1>1
<1> QED
  BY Zenon, <1>3, <1>4 DEF InAll, OutAll, InGone, OutGone, H, K

\* The next counters are numbers.
LEMMA CountersType ==
    ASSUME NEW st \in State, NEW us \in Seq(HostUpdate)
    PROVE  NextLocalUpdates(st, us) \in Nat /\ NextRemoteUpdates(st, us) \in Nat
<1>1. st.local_updates \in Nat /\ st.remote_updates \in Nat
  BY Zenon, StateFields
<1>2. LocalCount(us) \in Nat /\ RemoteCount(us) \in Nat
  BY Zenon, CountType
<1> QED
  BY <1>1, <1>2 DEF NextLocalUpdates, NextRemoteUpdates

\* One more update is counted for its side.
LEMMA CountersOneMore ==
    ASSUME NEW st \in State, NEW us \in Seq(HostUpdate), NEW u \in HostUpdate
    PROVE  /\ NextLocalUpdates(st, Append(us, u)) =
                 NextLocalUpdates(st, us) + (IF u.side = "local" THEN 1 ELSE 0)
           /\ NextRemoteUpdates(st, Append(us, u)) =
                 NextRemoteUpdates(st, us) + (IF u.side = "remote" THEN 1 ELSE 0)
<1> DEFINE x == IF u.side = "local" THEN 1 ELSE 0
           y == IF u.side = "remote" THEN 1 ELSE 0
           l == LocalCount(us)
           r == RemoteCount(us)
<1>1. st.local_updates \in Nat /\ st.remote_updates \in Nat
  BY Zenon, StateFields
<1>2. l \in Nat /\ r \in Nat
  BY Zenon, CountType
<1>3. LocalCount(Append(us, u)) = l + x /\ RemoteCount(Append(us, u)) = r + y
  BY Zenon, CountOneMore
<1>4. x \in Nat /\ y \in Nat
  OBVIOUS
<1> HIDE DEF l, r, x, y
<1>5. /\ st.local_updates + (l + x) = (st.local_updates + l) + x
      /\ st.remote_updates + (r + y) = (st.remote_updates + r) + y
  BY <1>1, <1>2, <1>4
<1> QED
  BY Zenon, <1>3, <1>5 DEF NextLocalUpdates, NextRemoteUpdates, l, r, x, y

\* An update that may be pushed can be folded.
LEMMA PushApplies ==
    ASSUME NEW st, NEW us, NEW r, NEW u \in HostUpdate,
           PendingSound(st, us), Gives(st, us, r), Pushable(st, us, r, u)
    PROVE  Applies(r, u)
<1> DEFINE nl == NextLocalUpdates(st, us)
           nr == NextRemoteUpdates(st, us)
<1>1. nl \in Nat /\ nr \in Nat
  BY Zenon, CountersType DEF PendingSound
<1> HIDE DEF nl, nr
<1>2. (\A i \in 0 .. nl : i < nl + 1) /\ (\A i \in 0 .. nr : i < nr + 1)
  BY <1>1
<1>3. /\ \A g \in OutAll(st, us) : g.id < nl + 1
      /\ \A g \in InAll(st, us) : g.id < nr + 1
  BY Zenon, <1>2 DEF PendingSound, Named, nl, nr
<1>4. /\ Range(r.incoming_htlcs) = InAll(st, us) \ InGone(us)
      /\ Range(r.outgoing_htlcs) = OutAll(st, us) \ OutGone(us)
  BY Zenon DEF Gives
<1>5. u.side = "local" /\ u.kind # "add" => u.htlc \in Range(r.incoming_htlcs)
  BY Zenon, <1>4 DEF Pushable, InAll
<1>6. u.side = "remote" /\ u.kind # "add" => u.htlc \in Range(r.outgoing_htlcs)
  BY Zenon, <1>4 DEF Pushable, OutAll
<1> QED
  BY Zenon, <1>3, <1>4, <1>5, <1>6 DEF Pushable, Applies, nl, nr

\* A new HTLC with the next id and a new payment.
LEMMA NamedOneMore ==
    ASSUME NEW H, NEW n \in Nat, Named(H, n), NEW h, h.id = n + 1, \A g \in H : g.pay # h.pay
    PROVE  Named(H \cup {h}, n + 1)
<1>1. (\A i \in 0 .. n : i # n + 1 /\ i \in 0 .. n + 1) /\ n + 1 \in 0 .. n + 1
  OBVIOUS
<1> QED
  BY <1>1 DEF Named

\* What counters have reached they have reached after one more update.
LEMMA NamedLater ==
    ASSUME NEW H, NEW n \in Nat, Named(H, n)
    PROVE  Named(H, n + 0) /\ Named(H, n + 1)
<1>1. n + 0 = n /\ \A i \in 0 .. n : i \in 0 .. n + 1
  OBVIOUS
<1> QED
  BY Zenon, <1>1 DEF Named

\* A push keeps ids and payments distinct.
LEMMA PushSound ==
    ASSUME NEW st, NEW us, NEW r, NEW u \in HostUpdate,
           PendingSound(st, us), Pushable(st, us, r, u)
    PROVE  PendingSound(st, Append(us, u))
<1> DEFINE vs == Append(us, u)
           nl == NextLocalUpdates(st, us)
           nr == NextRemoteUpdates(st, us)
<1>1. st \in State /\ us \in Seq(HostUpdate) /\ vs \in Seq(HostUpdate)
  BY DEF PendingSound
<1>2. nl \in Nat /\ nr \in Nat
  BY Zenon, <1>1, CountersType
<1>3. /\ NextLocalUpdates(st, vs) = nl + (IF u.side = "local" THEN 1 ELSE 0)
      /\ NextRemoteUpdates(st, vs) = nr + (IF u.side = "remote" THEN 1 ELSE 0)
  BY Zenon, <1>1, CountersOneMore
<1>4. /\ InAll(st, vs) = IF u.side = "remote" /\ u.kind = "add"
                         THEN InAll(st, us) \cup {u.htlc} ELSE InAll(st, us)
      /\ OutAll(st, vs) = IF u.side = "local" /\ u.kind = "add"
                          THEN OutAll(st, us) \cup {u.htlc} ELSE OutAll(st, us)
      /\ InGone(vs) = IF u.side = "local" /\ u.kind # "add"
                      THEN InGone(us) \cup {u.htlc} ELSE InGone(us)
      /\ OutGone(vs) = IF u.side = "remote" /\ u.kind # "add"
                       THEN OutGone(us) \cup {u.htlc} ELSE OutGone(us)
  BY Zenon, <1>1, HtlcsOneMore
<1>5. /\ Named(InAll(st, us), nr) /\ Named(OutAll(st, us), nl)
      /\ InGone(us) \subseteq Range(st.incoming_htlcs)
      /\ OutGone(us) \subseteq Range(st.outgoing_htlcs)
  BY Zenon DEF PendingSound
<1> HIDE DEF vs
<1>6. Named(InAll(st, vs), NextRemoteUpdates(st, vs))
  <2>1. CASE u.side = "remote" /\ u.kind = "add"
    <3>1. u.htlc.id = nr + 1 /\ \A g \in InAll(st, us) : g.pay # u.htlc.pay
      BY Zenon, <2>1 DEF Pushable
    <3>2. Named(InAll(st, us) \cup {u.htlc}, nr + 1)
      <4> HIDE DEF nr
      <4> QED
        BY <1>2, <1>5, <3>1, NamedOneMore
    <3> QED
      BY Zenon, <1>3, <1>4, <2>1, <3>2
  <2>2. CASE ~(u.side = "remote" /\ u.kind = "add")
    <3>1. NextRemoteUpdates(st, vs) = nr + 0 \/ NextRemoteUpdates(st, vs) = nr + 1
      BY Zenon, <1>3
    <3> QED
      BY Zenon, <1>2, <1>4, <1>5, <2>2, <3>1, NamedLater
  <2> QED
    BY Zenon, <2>1, <2>2
<1>7. Named(OutAll(st, vs), NextLocalUpdates(st, vs))
  <2>1. CASE u.side = "local" /\ u.kind = "add"
    <3>1. u.htlc.id = nl + 1 /\ \A g \in OutAll(st, us) : g.pay # u.htlc.pay
      BY Zenon, <2>1 DEF Pushable
    <3>2. Named(OutAll(st, us) \cup {u.htlc}, nl + 1)
      <4> HIDE DEF nl
      <4> QED
        BY <1>2, <1>5, <3>1, NamedOneMore
    <3> QED
      BY Zenon, <1>3, <1>4, <2>1, <3>2
  <2>2. CASE ~(u.side = "local" /\ u.kind = "add")
    <3>1. NextLocalUpdates(st, vs) = nl + 0 \/ NextLocalUpdates(st, vs) = nl + 1
      BY Zenon, <1>3
    <3> QED
      BY Zenon, <1>2, <1>4, <1>5, <2>2, <3>1, NamedLater
  <2> QED
    BY Zenon, <2>1, <2>2
<1>8. InGone(vs) \subseteq Range(st.incoming_htlcs)
  <2>1. u.side = "local" /\ u.kind # "add" => u.htlc \in Range(st.incoming_htlcs)
    BY Zenon DEF Pushable
  <2> QED
    BY Zenon, <1>4, <1>5, <2>1
<1>9. OutGone(vs) \subseteq Range(st.outgoing_htlcs)
  <2>1. u.side = "remote" /\ u.kind # "add" => u.htlc \in Range(st.outgoing_htlcs)
    BY Zenon DEF Pushable
  <2> QED
    BY Zenon, <1>4, <1>5, <2>1
<1>10. StateSound(st)
  BY Zenon DEF PendingSound
<1> QED
  BY Zenon, <1>1, <1>6, <1>7, <1>8, <1>9, <1>10 DEF PendingSound, vs

\* A new HTLC is not among those resolved.
LEMMA NewIsNotGone ==
    ASSUME NEW st, NEW us, NEW r, NEW u, PendingSound(st, us), Pushable(st, us, r, u)
    PROVE  /\ u.side = "remote" /\ u.kind = "add" => u.htlc \notin InGone(us)
           /\ u.side = "local" /\ u.kind = "add" => u.htlc \notin OutGone(us)
BY Zenon DEF PendingSound, Pushable, InAll, OutAll

\* A push keeps the fold right.
LEMMA PushGives ==
    ASSUME NEW st, NEW us, NEW r, NEW u \in HostUpdate,
           PendingSound(st, us), Gives(st, us, r), Counted(us), Pushable(st, us, r, u)
    PROVE  Gives(st, Append(us, u), FoldUpdate(r, u))
<1> DEFINE vs == Append(us, u)
           n == FoldUpdate(r, u)
           h == u.htlc
           U == Abstracted(us)
           a == AbstractUpdate(u)
<1>1. st \in State /\ us \in Seq(HostUpdate)
  BY Zenon DEF PendingSound
<1>2. Follows(r, u, n)
  BY Zenon, PushApplies, UpdateFolds DEF Gives
<1>3. n \in State /\ Ascending(n.incoming_htlcs) /\ Ascending(n.outgoing_htlcs)
  BY Zenon, <1>2 DEF Follows
<1>4. /\ InAll(st, vs) = IF u.side = "remote" /\ u.kind = "add"
                         THEN InAll(st, us) \cup {u.htlc} ELSE InAll(st, us)
      /\ OutAll(st, vs) = IF u.side = "local" /\ u.kind = "add"
                          THEN OutAll(st, us) \cup {u.htlc} ELSE OutAll(st, us)
      /\ InGone(vs) = IF u.side = "local" /\ u.kind # "add"
                      THEN InGone(us) \cup {u.htlc} ELSE InGone(us)
      /\ OutGone(vs) = IF u.side = "remote" /\ u.kind # "add"
                       THEN OutGone(us) \cup {u.htlc} ELSE OutGone(us)
  BY Zenon, <1>1, HtlcsOneMore
<1>5. u.side \in {"local", "remote"}
  BY DEF HostUpdate
<1>6. Folded(ReverseView(st), Mirrored(vs)) = ReverseView(n)
  <2>1. Mirrored(vs) = Append(Mirrored(us), Mirror(u))
    BY Zenon, <1>1, OneMore
  <2> DEFINE M == {Mirror(v) : v \in HostUpdate}
             x == ReverseView(st)
             ms == Mirrored(us)
             m == Mirror(u)
  <2>2. ms \in Seq(M) /\ m \in M
    BY Zenon, <1>1, OneMore
  <2>3. Folded(x, Append(ms, m)) = FoldUpdate(Folded(x, ms), m)
    <3> HIDE DEF M, x, ms, m
    <3> QED
      BY Zenon, <2>2, FoldedAppend
  <2>4. Folded(ReverseView(st), Mirrored(us)) = ReverseView(r)
    BY Zenon DEF Gives
  <2>5. FoldUpdate(ReverseView(r), Mirror(u)) = ReverseView(n)
    BY Zenon, <1>2 DEF Follows
  <2> HIDE DEF vs, n
  <2> QED
    BY Zenon, <2>1, <2>3, <2>4, <2>5
<1>7. /\ n.local_balance = NextBalance(Funds(st), Abstracted(vs)).local
      /\ n.remote_balance = NextBalance(Funds(st), Abstracted(vs)).remote
  <2>1. a \in Update /\ a \notin U /\ U \in FiniteUpdates
    BY Zenon, AbstractFields, PushIsNew DEF Counted
  <2>2. Funds(st) \in Balances
    BY <1>1, StateFields DEF Funds, Balances
  <2>3. /\ NextBalance(Funds(st), U \cup {a}).local = NextBalance(Funds(st), U).local + LocalGain(a)
        /\ NextBalance(Funds(st), U \cup {a}).remote = NextBalance(Funds(st), U).remote + RemoteGain(a)
    <3> HIDE DEF a, U
    <3> QED
      BY Zenon, <2>1, <2>2, NextBalanceAdd
  <2>4. Abstracted(vs) = U \cup {a}
    BY Zenon, <1>1, OneMore
  <2>5. /\ n.local_balance = r.local_balance + LocalGain(a)
        /\ n.remote_balance = r.remote_balance + RemoteGain(a)
    BY Zenon, <1>2 DEF Follows
  <2>6. /\ r.local_balance = NextBalance(Funds(st), U).local
        /\ r.remote_balance = NextBalance(Funds(st), U).remote
    BY Zenon DEF Gives
  <2> HIDE DEF a, U, vs, n
  <2> QED
    BY Zenon, <2>3, <2>4, <2>5, <2>6
<1> HIDE DEF vs, n
<1>8. Range(n.incoming_htlcs) = InAll(st, vs) \ InGone(vs)
  <2>1. Range(r.incoming_htlcs) = InAll(st, us) \ InGone(us)
    BY Zenon DEF Gives
  <2>2. CASE u.side = "remote" /\ u.kind = "add"
    <3>1. Range(n.incoming_htlcs) = Range(r.incoming_htlcs) \cup {h}
      BY Zenon, <1>2, <2>2 DEF Follows
    <3>2. InAll(st, vs) = InAll(st, us) \cup {h} /\ InGone(vs) = InGone(us)
      BY Zenon, <1>4, <2>2
    <3>3. h \notin InGone(us)
      BY Zenon, <2>2, NewIsNotGone
    <3> QED
      BY Zenon, <2>1, <3>1, <3>2, <3>3
  <2>3. CASE u.side = "local" /\ u.kind # "add"
    <3>1. Range(n.incoming_htlcs) = Range(r.incoming_htlcs) \ {h}
      BY Zenon, <1>2, <2>3 DEF Follows
    <3>2. InAll(st, vs) = InAll(st, us) /\ InGone(vs) = InGone(us) \cup {h}
      BY Zenon, <1>4, <2>3
    <3> QED
      BY Zenon, <2>1, <3>1, <3>2
  <2>4. CASE OfOutgoing(u)
    <3>1. Range(n.incoming_htlcs) = Range(r.incoming_htlcs)
      BY Zenon, <1>2, <2>4 DEF Follows, OfOutgoing
    <3>2. InAll(st, vs) = InAll(st, us) /\ InGone(vs) = InGone(us)
      BY Zenon, <1>4, <2>4 DEF OfOutgoing
    <3> QED
      BY Zenon, <2>1, <3>1, <3>2
  <2> QED
    BY Zenon, <1>5, <2>2, <2>3, <2>4 DEF OfOutgoing
<1>9. Range(n.outgoing_htlcs) = OutAll(st, vs) \ OutGone(vs)
  <2>1. Range(r.outgoing_htlcs) = OutAll(st, us) \ OutGone(us)
    BY Zenon DEF Gives
  <2>2. CASE u.side = "local" /\ u.kind = "add"
    <3>1. Range(n.outgoing_htlcs) = Range(r.outgoing_htlcs) \cup {h}
      BY Zenon, <1>2, <2>2 DEF Follows
    <3>2. OutAll(st, vs) = OutAll(st, us) \cup {h} /\ OutGone(vs) = OutGone(us)
      BY Zenon, <1>4, <2>2
    <3>3. h \notin OutGone(us)
      BY Zenon, <2>2, NewIsNotGone
    <3> QED
      BY Zenon, <2>1, <3>1, <3>2, <3>3
  <2>3. CASE u.side = "remote" /\ u.kind # "add"
    <3>1. Range(n.outgoing_htlcs) = Range(r.outgoing_htlcs) \ {h}
      BY Zenon, <1>2, <2>3 DEF Follows
    <3>2. OutAll(st, vs) = OutAll(st, us) /\ OutGone(vs) = OutGone(us) \cup {h}
      BY Zenon, <1>4, <2>3
    <3> QED
      BY Zenon, <2>1, <3>1, <3>2
  <2>4. CASE ~OfOutgoing(u)
    <3>1. Range(n.outgoing_htlcs) = Range(r.outgoing_htlcs)
      BY Zenon, <1>2, <1>5, <2>4 DEF Follows, OfOutgoing
    <3>2. OutAll(st, vs) = OutAll(st, us) /\ OutGone(vs) = OutGone(us)
      BY Zenon, <1>4, <1>5, <2>4 DEF OfOutgoing
    <3> QED
      BY Zenon, <2>1, <3>1, <3>2
  <2> QED
    BY Zenon, <2>2, <2>3, <2>4 DEF OfOutgoing
<1> QED
  BY Zenon, <1>3, <1>6, <1>7, <1>8, <1>9 DEF Gives, vs, n

\* A push counts once.
LEMMA PushCounted ==
    ASSUME NEW st, NEW us, NEW r, NEW u \in HostUpdate,
           PendingSound(st, us), Counted(us), Pushable(st, us, r, u)
    PROVE  Counted(Append(us, u))
<1> DEFINE U == Abstracted(us)
           V == Abstracted(Append(us, u))
           a == AbstractUpdate(u)
           Of(W, s) == {x \in W : x.side = s}
<1>1. us \in Seq(HostUpdate)
  BY Zenon DEF PendingSound
<1>2. V = U \cup {a}
  BY Zenon, <1>1, OneMore
<1>3. a \in Update /\ a.side = u.side /\ a \notin U /\ U \in FiniteUpdates
  BY Zenon, AbstractFields, PushIsNew DEF Counted
<1> HIDE DEF U, V, a
<1>4. V \in FiniteUpdates
  BY Zenon, <1>2, <1>3, AddUpdate
<1>5. ASSUME NEW s
      PROVE  Cardinality(Of(V, s)) = Cardinality(Of(U, s)) + (IF u.side = s THEN 1 ELSE 0)
  <2>1. IsFiniteSet(Of(U, s)) /\ a \notin Of(U, s)
    BY Zenon, <1>3, FS_Subset DEF FiniteUpdates
  <2>2. CASE u.side = s
    <3>1. Of(V, s) = Of(U, s) \cup {a}
      BY Zenon, <1>2, <1>3, <2>2
    <3>2. Cardinality(Of(U, s) \cup {a}) = Cardinality(Of(U, s)) + 1
      <4> HIDE DEF Of
      <4> QED
        BY Zenon, <2>1, FS_AddElement
    <3> QED
      BY Zenon, <2>2, <3>1, <3>2
  <2>3. CASE u.side # s
    <3>1. Of(V, s) = Of(U, s)
      BY Zenon, <1>2, <1>3, <2>3
    <3>2. Cardinality(Of(U, s)) = Cardinality(Of(U, s)) + 0
      <4>1. Cardinality(Of(U, s)) \in Nat
        BY Zenon, <2>1, FS_CardinalityType
      <4> HIDE DEF Of
      <4> QED
        BY <4>1
    <3> QED
      BY Zenon, <2>3, <3>1, <3>2
  <2> QED
    BY Zenon, <2>2, <2>3
<1>6. /\ LocalCount(Append(us, u)) = LocalCount(us) + (IF u.side = "local" THEN 1 ELSE 0)
      /\ RemoteCount(Append(us, u)) = RemoteCount(us) + (IF u.side = "remote" THEN 1 ELSE 0)
  BY Zenon, <1>1, CountOneMore
<1>7. Cardinality(Of(U, "local")) = LocalCount(us) /\ Cardinality(Of(U, "remote")) = RemoteCount(us)
  BY Zenon DEF Counted, U
<1> HIDE DEF Of
<1>8. /\ Cardinality(Of(V, "local")) = LocalCount(Append(us, u))
      /\ Cardinality(Of(V, "remote")) = RemoteCount(Append(us, u))
  BY Zenon, <1>5, <1>6, <1>7
<1> QED
  BY Zenon, <1>4, <1>8 DEF Counted, V, Of

-----------------------------------------------------------------------------
(* The next state                                                          *)

\* lcss_next sets the counters and takes the rest from the fold.
LEMMA NextFields ==
    ASSUME NEW st \in State, NEW us \in Seq(HostUpdate), Folded(st, us) \in State
    PROVE  LET r == Folded(st, us)
               n == LcssNext(st, us) IN
           /\ n \in State /\ ~Failed(n)
           /\ n.local_updates = NextLocalUpdates(st, us)
           /\ n.remote_updates = NextRemoteUpdates(st, us)
           /\ n.local_balance = r.local_balance /\ n.remote_balance = r.remote_balance
           /\ n.incoming_htlcs = r.incoming_htlcs /\ n.outgoing_htlcs = r.outgoing_htlcs
<1> DEFINE r == Folded(st, us)
           n == LcssNext(st, us)
           nl == NextLocalUpdates(st, us)
           nr == NextRemoteUpdates(st, us)
<1>1. r \in State
  BY Zenon
<1>2. n = [r EXCEPT !.local_updates = nl, !.remote_updates = nr]
  <2>1. ~Failed(r)
    BY Zenon, NotFailed DEF State
  <2> QED
    BY <2>1 DEF LcssNext, Folded
<1>3. nl \in Nat /\ nr \in Nat
  BY Zenon, CountersType
<1> HIDE DEF r, n, nl, nr
<1>4. n \in State
  BY <1>1, <1>2, <1>3 DEF State, StateOf
<1>5. /\ n.local_updates = nl /\ n.remote_updates = nr
      /\ n.local_balance = r.local_balance /\ n.remote_balance = r.remote_balance
      /\ n.incoming_htlcs = r.incoming_htlcs /\ n.outgoing_htlcs = r.outgoing_htlcs
  BY <1>1, <1>2 DEF State, StateOf
<1>6. ~Failed(n)
  BY Zenon, <1>4, NotFailed DEF State
<1> QED
  BY Zenon, <1>4, <1>5, <1>6 DEF r, n, nl, nr

\* Nothing is pending.
LEMMA NothingPending ==
    ASSUME NEW st \in State, StateSound(st)
    PROVE  PendingSound(st, <<>>) /\ Gives(st, <<>>, st) /\ Counted(<<>>)
<1> DEFINE us == <<>>
<1>1. DOMAIN us = {} /\ us \in Seq(HostUpdate)
  OBVIOUS
<1> HIDE DEF us
<1>2. Range(us) = {} /\ Abstracted(us) = {}
  BY Zenon, <1>1 DEF Range, Abstracted
<1>3. Mirrored(us) = <<>>
  BY <1>1 DEF Mirrored
<1>4. \A s, k : HtlcsOf(Range(us), s, k) = {}
  BY Zenon, <1>2 DEF HtlcsOf
<1>5. /\ InAll(st, us) = Range(st.incoming_htlcs) /\ OutAll(st, us) = Range(st.outgoing_htlcs)
      /\ InGone(us) = {} /\ OutGone(us) = {}
  BY Zenon, <1>4 DEF InAll, OutAll, InGone, OutGone
<1>6. LocalCount(us) = 0 /\ RemoteCount(us) = 0
  <2>1. \A s : {i \in DOMAIN us : us[i].side = s} = {}
    BY Zenon, <1>1
  <2> QED
    BY Zenon, <2>1, FS_EmptySet DEF LocalCount, RemoteCount, Places
<1>7. NextLocalUpdates(st, us) = st.local_updates /\ NextRemoteUpdates(st, us) = st.remote_updates
  BY <1>6, StateFields DEF NextLocalUpdates, NextRemoteUpdates
<1>8. PendingSound(st, us)
  BY Zenon, <1>1, <1>5, <1>7 DEF PendingSound, StateSound
<1>9. Counted(us)
  <2>1. \A s : {a \in Abstracted(us) : a.side = s} = {}
    BY Zenon, <1>2
  <2>2. Abstracted(us) \in FiniteUpdates
    BY Zenon, <1>2, FS_EmptySet DEF FiniteUpdates
  <2> QED
    BY Zenon, <1>6, <2>1, <2>2, FS_EmptySet DEF Counted
<1>10. /\ st.local_balance = NextBalance(Funds(st), {}).local
       /\ st.remote_balance = NextBalance(Funds(st), {}).remote
  <2>1. \A f : SumFunctionOnSet(f, {}) = 0
    BY Zenon, SumEmpty
  <2>2. NextBalance(Funds(st), {}) = [local |-> st.local_balance + 0, remote |-> st.remote_balance + 0]
    BY Zenon, <2>1 DEF NextBalance, Funds, SumFunction
  <2> QED
    BY <2>2, StateFields
<1>11. Folded(ReverseView(st), Mirrored(us)) = ReverseView(st)
  BY Zenon, <1>3, FoldedEmpty
<1>12. Gives(st, us, st)
  BY Zenon, <1>2, <1>5, <1>10, <1>11 DEF Gives, StateSound
<1> QED
  BY Zenon, <1>8, <1>9, <1>12 DEF us

\* The inductive invariant: what is pending is sound, folds to what it has to, and
\* counts once.
SMInv ==
    /\ PendingSound(current, pending)
    /\ Gives(current, pending, Folded(current, pending))
    /\ Counted(pending)

\* What a handler lets in may be pushed.
LEMMA AdmittedPushable ==
    ASSUME SMInv, NEW u \in Admitted
    PROVE  u \in HostUpdate /\ Pushable(current, pending, Folded(current, pending), u)
<1> DEFINE r == Folded(current, pending)
           n == NextNow
<1>1. current \in State /\ pending \in Seq(HostUpdate) /\ r \in State
  BY Zenon DEF SMInv, PendingSound, Gives
<1>2. /\ n.local_updates = NextLocalUpdates(current, pending)
      /\ n.remote_updates = NextRemoteUpdates(current, pending)
      /\ n.local_balance = r.local_balance /\ n.remote_balance = r.remote_balance
  BY Zenon, <1>1, NextFields DEF NextNow
<1>3. NextLocalUpdates(current, pending) \in Nat /\ NextRemoteUpdates(current, pending) \in Nat
  BY Zenon, <1>1, CountersType
<1>4. ASSUME NEW s, NEW k, NEW g \in HtlcsOf(Range(pending), s, k)
      PROVE  \E i \in DOMAIN pending : /\ pending[i].side = s /\ pending[i].kind = k
                                       /\ pending[i].htlc = g
  BY Zenon, <1>4 DEF HtlcsOf, Range
<1>5. \A g \in OutAll(current, pending) \cup InAll(current, pending) : g.pay \in Used
  <2>1. ASSUME NEW g \in Range(current.incoming_htlcs) \cup Range(current.outgoing_htlcs)
        PROVE  g.pay \in Used
    BY Zenon DEF Used
  <2>2. ASSUME NEW s, NEW k, NEW g \in HtlcsOf(Range(pending), s, k)
        PROVE  g.pay \in Used
    <3>1. PICK i \in DOMAIN pending : pending[i].htlc = g
      BY <1>4, <2>2
    <3> QED
      BY Zenon, <3>1 DEF Used
  <2> QED
    BY Zenon, <2>1, <2>2 DEF OutAll, InAll
<1> HIDE DEF r, n
<1>6. ASSUME NEW x \in Upstreams \ Used, Amount[x] <= n.local_balance,
             u = [side |-> "local", kind |-> "add", htlc |-> Htlc(n.local_updates + 1, x)]
      PROVE  u \in HostUpdate /\ Pushable(current, pending, r, u)
  <2> DEFINE h == Htlc(n.local_updates + 1, x)
  <2>1. h \in Outgoing /\ h.id = n.local_updates + 1 /\ h.pay = x
    BY <1>2, <1>3 DEF Htlc, Outgoing
  <2> HIDE DEF h
  <2>2. u.side = "local" /\ u.kind = "add" /\ u.htlc = h
    BY Zenon, <1>6 DEF h
  <2>3. u \in HostUpdate
    BY <1>6, <2>1 DEF HostUpdate, h
  <2>4. \A g \in OutAll(current, pending) : g.pay # x
    BY Zenon, <1>5
  <2> QED
    BY Zenon, <1>2, <1>6, <2>1, <2>2, <2>3, <2>4 DEF Pushable
<1>7. ASSUME NEW x \in Payments \ Used, Amount[x] <= n.remote_balance,
             u = [side |-> "remote", kind |-> "add", htlc |-> Htlc(n.remote_updates + 1, x)]
      PROVE  u \in HostUpdate /\ Pushable(current, pending, r, u)
  <2> DEFINE h == Htlc(n.remote_updates + 1, x)
  <2>1. h \in InHtlc /\ h.id = n.remote_updates + 1 /\ h.pay = x
    BY <1>2, <1>3 DEF Htlc, InHtlc
  <2> HIDE DEF h
  <2>2. u.side = "remote" /\ u.kind = "add" /\ u.htlc = h
    BY Zenon, <1>7 DEF h
  <2>3. u \in HostUpdate
    BY <1>7, <2>1 DEF HostUpdate, h
  <2>4. \A g \in InAll(current, pending) : g.pay # x
    BY Zenon, <1>5
  <2> QED
    BY Zenon, <1>2, <1>7, <2>1, <2>2, <2>3, <2>4 DEF Pushable
<1>8. ASSUME NEW k \in {"fulfill", "fail"}, NEW h \in Resolvable("incoming_htlcs", "local"),
             u = [side |-> "local", kind |-> k, htlc |-> h]
      PROVE  u \in HostUpdate /\ Pushable(current, pending, r, u)
  <2>1. h \in Range(current.incoming_htlcs)
    BY Zenon DEF Resolvable
  <2>2. h \notin InGone(pending)
    <3>0. SUFFICES ASSUME NEW q \in {"fulfill", "fail"}, h \in HtlcsOf(Range(pending), "local", q)
                 PROVE  FALSE
      BY Zenon DEF InGone
    <3>1. PICK i \in DOMAIN pending : /\ pending[i].side = "local" /\ pending[i].kind = q
                                      /\ pending[i].htlc = h
      BY <1>4, <3>0
    <3>2. q # "add"
      OBVIOUS
    <3> QED
      BY Zenon, <3>1, <3>2 DEF Resolvable
  <2>3. h \in InHtlc
    BY <1>1, <2>1, StateFields DEF Range
  <2>4. u \in HostUpdate
    BY <1>8, <2>3 DEF HostUpdate
  <2>5. u.side = "local" /\ u.kind # "add" /\ u.htlc = h
    BY <1>8
  <2> QED
    BY Zenon, <2>1, <2>2, <2>4, <2>5 DEF Pushable
<1>9. ASSUME NEW k \in {"fulfill", "fail"}, NEW h \in Resolvable("outgoing_htlcs", "remote"),
             u = [side |-> "remote", kind |-> k, htlc |-> h]
      PROVE  u \in HostUpdate /\ Pushable(current, pending, r, u)
  <2>1. h \in Range(current.outgoing_htlcs)
    BY Zenon DEF Resolvable
  <2>2. h \notin OutGone(pending)
    <3>0. SUFFICES ASSUME NEW q \in {"fulfill", "fail"}, h \in HtlcsOf(Range(pending), "remote", q)
                 PROVE  FALSE
      BY Zenon DEF OutGone
    <3>1. PICK i \in DOMAIN pending : /\ pending[i].side = "remote" /\ pending[i].kind = q
                                      /\ pending[i].htlc = h
      BY <1>4, <3>0
    <3>2. q # "add"
      OBVIOUS
    <3> QED
      BY Zenon, <3>1, <3>2 DEF Resolvable
  <2>3. h \in Outgoing
    BY <1>1, <2>1, StateFields DEF Range
  <2>4. u \in HostUpdate
    BY <1>9, <2>3 DEF HostUpdate
  <2>5. u.side = "remote" /\ u.kind # "add" /\ u.htlc = h
    BY <1>9
  <2> QED
    BY Zenon, <2>1, <2>2, <2>4, <2>5 DEF Pushable
<1> QED
  <2>1. \/ \E x \in {y \in Upstreams \ Used : Amount[y] <= n.local_balance} :
              u = [side |-> "local", kind |-> "add", htlc |-> Htlc(n.local_updates + 1, x)]
        \/ \E x \in {y \in Payments \ Used : Amount[y] <= n.remote_balance} :
              u = [side |-> "remote", kind |-> "add", htlc |-> Htlc(n.remote_updates + 1, x)]
        \/ \E k \in {"fulfill", "fail"}, h \in Resolvable("incoming_htlcs", "local") :
              u = [side |-> "local", kind |-> k, htlc |-> h]
        \/ \E k \in {"fulfill", "fail"}, h \in Resolvable("outgoing_htlcs", "remote") :
              u = [side |-> "remote", kind |-> k, htlc |-> h]
    BY DEF Admitted, n
  <2>2. u \in HostUpdate /\ Pushable(current, pending, r, u)
    <3>1. CASE \E x \in {y \in Upstreams \ Used : Amount[y] <= n.local_balance} :
              u = [side |-> "local", kind |-> "add", htlc |-> Htlc(n.local_updates + 1, x)]
      BY <1>6, <3>1
    <3>2. CASE \E x \in {y \in Payments \ Used : Amount[y] <= n.remote_balance} :
              u = [side |-> "remote", kind |-> "add", htlc |-> Htlc(n.remote_updates + 1, x)]
      BY <1>7, <3>2
    <3>3. CASE \E k \in {"fulfill", "fail"}, h \in Resolvable("incoming_htlcs", "local") :
              u = [side |-> "local", kind |-> k, htlc |-> h]
      BY <1>8, <3>3
    <3>4. CASE \E k \in {"fulfill", "fail"}, h \in Resolvable("outgoing_htlcs", "remote") :
              u = [side |-> "remote", kind |-> k, htlc |-> h]
      BY <1>9, <3>4
    <3> QED
      BY <2>1, <3>1, <3>2, <3>3, <3>4
  <2> QED
    BY Zenon, <2>2 DEF r

\* A new StateManager: no HTLC, nothing pending, and the fold of nothing is the
\* state itself.
THEOREM InitSM == Init => SMInv
<1> SUFFICES ASSUME Init PROVE SMInv
  OBVIOUS
<1>1. current \in State /\ Range(current.incoming_htlcs) = {} /\ Range(current.outgoing_htlcs) = {}
  BY FundsAssumption DEF Init, State, StateOf, Range
<1>2. StateSound(current)
  <2>1. DOMAIN current.incoming_htlcs = {} /\ DOMAIN current.outgoing_htlcs = {}
    BY DEF Init
  <2> QED
    BY Zenon, <1>1, <2>1 DEF StateSound, Ascending, Named
<1> QED
  BY Zenon, <1>1, <1>2, NothingPending, FoldedEmpty DEF Init, SMInv

\* add_local and add_remote of an update the handlers let in, the commit of the
\* state they lead to and clear_uncommitted keep ids and payments distinct, the
\* fold successful and its result the one that Lcss.tla states.
THEOREM NextSM == SMInv /\ [Next]_smVars => SMInv'
<1> SUFFICES ASSUME SMInv, [Next]_smVars PROVE SMInv'
  OBVIOUS
<1> DEFINE r == Folded(current, pending)
<1>1. /\ current \in State /\ pending \in Seq(HostUpdate) /\ StateSound(current)
      /\ PendingSound(current, pending) /\ Gives(current, pending, r) /\ Counted(pending)
      /\ r \in State
  BY Zenon DEF SMInv, PendingSound, Gives
<1> HIDE DEF r
<1>2. CASE Push
  <2>1. PICK u \in Admitted : pending' = Append(pending, u) /\ current' = current
    BY Zenon, <1>2 DEF Push
  <2>2. u \in HostUpdate /\ Pushable(current, pending, r, u)
    BY Zenon, AdmittedPushable DEF r
  <2>3. Folded(current, Append(pending, u)) = FoldUpdate(r, u)
    BY Zenon, <1>1, <2>2, FoldedAppend DEF r
  <2>4. PendingSound(current, Append(pending, u))
    BY Zenon, <1>1, <2>2, PushSound
  <2>5. Gives(current, Append(pending, u), FoldUpdate(r, u))
    BY Zenon, <1>1, <2>2, PushGives
  <2>6. Counted(Append(pending, u))
    BY Zenon, <1>1, <2>2, PushCounted
  <2> QED
    BY Zenon, <2>1, <2>3, <2>4, <2>5, <2>6 DEF SMInv
<1>3. CASE Commit
  <2>1. current' = NextNow /\ pending' = <<>>
    BY Zenon, <1>3 DEF Commit
  <2>2. /\ NextNow \in State
        /\ NextNow.local_updates = NextLocalUpdates(current, pending)
        /\ NextNow.remote_updates = NextRemoteUpdates(current, pending)
        /\ NextNow.incoming_htlcs = r.incoming_htlcs /\ NextNow.outgoing_htlcs = r.outgoing_htlcs
    BY Zenon, <1>1, NextFields DEF NextNow, r
  <2>3. StateSound(NextNow)
    <3>1. /\ Ascending(r.incoming_htlcs) /\ Ascending(r.outgoing_htlcs)
          /\ Range(r.incoming_htlcs) \subseteq InAll(current, pending)
          /\ Range(r.outgoing_htlcs) \subseteq OutAll(current, pending)
      BY Zenon, <1>1 DEF Gives
    <3>2. /\ Named(InAll(current, pending), NextRemoteUpdates(current, pending))
          /\ Named(OutAll(current, pending), NextLocalUpdates(current, pending))
      BY Zenon, <1>1 DEF PendingSound
    <3>3. ASSUME NEW G, NEW H, NEW n, G \subseteq H, Named(H, n)
          PROVE  Named(G, n)
      BY Zenon, <3>3 DEF Named
    <3>4. /\ Named(Range(r.incoming_htlcs), NextRemoteUpdates(current, pending))
          /\ Named(Range(r.outgoing_htlcs), NextLocalUpdates(current, pending))
      BY Zenon, <3>1, <3>2, <3>3
    <3> QED
      BY Zenon, <2>2, <3>1, <3>4 DEF StateSound
  <2>4. PendingSound(NextNow, <<>>) /\ Gives(NextNow, <<>>, NextNow) /\ Counted(<<>>)
    BY Zenon, <2>2, <2>3, NothingPending
  <2>5. Folded(NextNow, <<>>) = NextNow
    BY Zenon, FoldedEmpty
  <2> QED
    BY Zenon, <2>1, <2>4, <2>5 DEF SMInv
<1>4. CASE ClearUncommitted
  <2>1. current' = current /\ pending' = <<>>
    BY Zenon, <1>4 DEF ClearUncommitted
  <2> QED
    BY Zenon, <1>1, <2>1, NothingPending, FoldedEmpty DEF SMInv
<1>5. CASE UNCHANGED smVars
  BY Zenon, <1>5 DEF SMInv, smVars
<1> QED
  BY Zenon, <1>2, <1>3, <1>4, <1>5 DEF Next

-----------------------------------------------------------------------------
(* What the invariant says                                                 *)

\* The HTLCs of the updates as Lcss.tla writes them.
LEMMA AbstractHtlcs ==
    ASSUME NEW us \in Seq(HostUpdate), NEW s, NEW k
    PROVE  /\ (s = "local" /\ k = "add") \/ (s = "remote" /\ k # "add") =>
                 HtlcsOf(Abstracted(us), s, k) = HtlcsOf(Range(us), s, k)
           /\ (s = "remote" /\ k = "add") \/ (s = "local" /\ k # "add") =>
                 HtlcsOf(Abstracted(us), s, k) = {h.pay : h \in HtlcsOf(Range(us), s, k)}
<1>1. \A i \in DOMAIN us : us[i] \in HostUpdate
  OBVIOUS
<1>2. \A x : x \in HtlcsOf(Abstracted(us), s, k) <=>
         \E i \in DOMAIN us : us[i].side = s /\ us[i].kind = k /\ AbstractUpdate(us[i]).htlc = x
  <2>1. \A i \in DOMAIN us : /\ AbstractUpdate(us[i]).side = us[i].side
                             /\ AbstractUpdate(us[i]).kind = us[i].kind
    BY Zenon, <1>1, AbstractFields
  <2>2. \A a : a \in Abstracted(us) <=> \E i \in DOMAIN us : a = AbstractUpdate(us[i])
    BY Zenon DEF Abstracted
  <2>3. \A x : x \in HtlcsOf(Abstracted(us), s, k) <=>
           \E a \in Abstracted(us) : a.side = s /\ a.kind = k /\ a.htlc = x
    BY Zenon DEF HtlcsOf
  <2>4. ASSUME NEW x \in HtlcsOf(Abstracted(us), s, k)
        PROVE  \E i \in DOMAIN us :
                  us[i].side = s /\ us[i].kind = k /\ AbstractUpdate(us[i]).htlc = x
    <3>1. PICK a \in Abstracted(us) : a.side = s /\ a.kind = k /\ a.htlc = x
      BY Zenon, <2>3
    <3>2. PICK i \in DOMAIN us : a = AbstractUpdate(us[i])
      BY Zenon, <2>2
    <3> QED
      BY Zenon, <2>1, <3>1, <3>2
  <2>5. ASSUME NEW i \in DOMAIN us, us[i].side = s, us[i].kind = k
        PROVE  AbstractUpdate(us[i]).htlc \in HtlcsOf(Abstracted(us), s, k)
    BY Zenon, <2>1, <2>2, <2>3, <2>5
  <2> QED
    BY Zenon, <2>4, <2>5
<1>3. \A x : x \in HtlcsOf(Range(us), s, k) <=>
         \E i \in DOMAIN us : us[i].side = s /\ us[i].kind = k /\ us[i].htlc = x
  BY Zenon DEF HtlcsOf, Range
<1>4. ASSUME (s = "local" /\ k = "add") \/ (s = "remote" /\ k # "add")
      PROVE  HtlcsOf(Abstracted(us), s, k) = HtlcsOf(Range(us), s, k)
  <2>1. \A i \in DOMAIN us : us[i].side = s /\ us[i].kind = k =>
           AbstractUpdate(us[i]).htlc = us[i].htlc
    BY Zenon, <1>1, <1>4, AbstractFields DEF OfOutgoing
  <2>2. \A x \in HtlcsOf(Abstracted(us), s, k) : x \in HtlcsOf(Range(us), s, k)
    BY Zenon, <1>2, <1>3, <2>1
  <2>3. \A x \in HtlcsOf(Range(us), s, k) : x \in HtlcsOf(Abstracted(us), s, k)
    BY Zenon, <1>2, <1>3, <2>1
  <2> QED
    BY Zenon, <2>2, <2>3
<1>5. ASSUME (s = "remote" /\ k = "add") \/ (s = "local" /\ k # "add")
      PROVE  HtlcsOf(Abstracted(us), s, k) = {h.pay : h \in HtlcsOf(Range(us), s, k)}
  <2>1. \A i \in DOMAIN us : us[i].side = s /\ us[i].kind = k =>
           AbstractUpdate(us[i]).htlc = us[i].htlc.pay
    BY Zenon, <1>1, <1>5, AbstractFields DEF OfOutgoing
  <2>2. ASSUME NEW x \in HtlcsOf(Abstracted(us), s, k)
        PROVE  x \in {h.pay : h \in HtlcsOf(Range(us), s, k)}
    <3>1. PICK i \in DOMAIN us : us[i].side = s /\ us[i].kind = k /\ AbstractUpdate(us[i]).htlc = x
      BY Zenon, <1>2
    <3>2. us[i].htlc \in HtlcsOf(Range(us), s, k) /\ us[i].htlc.pay = x
      BY Zenon, <1>3, <2>1, <3>1
    <3> QED
      BY Zenon, <3>2
  <2>3. ASSUME NEW h \in HtlcsOf(Range(us), s, k)
        PROVE  h.pay \in HtlcsOf(Abstracted(us), s, k)
    <3>1. PICK i \in DOMAIN us : us[i].side = s /\ us[i].kind = k /\ us[i].htlc = h
      BY Zenon, <1>3
    <3> QED
      BY Zenon, <1>2, <2>1, <3>1
  <2> QED
    BY Zenon, <2>2, <2>3
<1> QED
  BY Zenon, <1>4, <1>5

\* Payments name the incoming HTLCs, so that removing commutes with naming.
LEMMA PaymentsOf ==
    ASSUME NEW H, NEW n, Named(H, n), NEW G, G \subseteq H
    PROVE  {h.pay : h \in H \ G} = {h.pay : h \in H} \ {h.pay : h \in G}
BY Zenon DEF Named

\* The fold of the code is what Lcss.tla says of the set of updates.
LEMMA InvAgrees == SMInv => AgreesWithLcss
<1> SUFFICES ASSUME SMInv PROVE AgreesWithLcss
  OBVIOUS
<1> DEFINE r == Folded(current, pending)
           U == Abstracted(pending)
           l == [local_updates |-> current.local_updates,
                 remote_updates |-> current.remote_updates,
                 incoming_htlcs |-> {h.pay : h \in Range(current.incoming_htlcs)},
                 outgoing_htlcs |-> Range(current.outgoing_htlcs)]
           n == NextLcss(l, U)
           H(s, k) == HtlcsOf(Range(pending), s, k)
<1>1. /\ current \in State /\ pending \in Seq(HostUpdate) /\ r \in State
      /\ PendingSound(current, pending) /\ Gives(current, pending, r) /\ Counted(pending)
  BY Zenon DEF SMInv, PendingSound, Gives
<1>2. /\ ~Failed(NextNow)
      /\ NextNow.local_updates = NextLocalUpdates(current, pending)
      /\ NextNow.remote_updates = NextRemoteUpdates(current, pending)
      /\ NextNow.local_balance = r.local_balance /\ NextNow.remote_balance = r.remote_balance
      /\ NextNow.incoming_htlcs = r.incoming_htlcs /\ NextNow.outgoing_htlcs = r.outgoing_htlcs
  BY Zenon, <1>1, NextFields DEF NextNow
<1> HIDE DEF r
<1>3. NextBalance(Funds(current), U) = [local |-> NextNow.local_balance,
                                        remote |-> NextNow.remote_balance]
  <2>1. NextBalance(Funds(current), U) = [local |-> NextBalance(Funds(current), U).local,
                                          remote |-> NextBalance(Funds(current), U).remote]
    BY DEF NextBalance
  <2>2. /\ NextBalance(Funds(current), U).local = NextNow.local_balance
        /\ NextBalance(Funds(current), U).remote = NextNow.remote_balance
    BY Zenon, <1>1, <1>2 DEF Gives
  <2> QED
    BY Zenon, <2>1, <2>2
<1>4. n.local_updates = NextNow.local_updates /\ n.remote_updates = NextNow.remote_updates
  BY Zenon, <1>1, <1>2 DEF NextLcss, Counted, NextLocalUpdates, NextRemoteUpdates
<1>5. U \in SUBSET Update
  BY Zenon, <1>1 DEF Counted, FiniteUpdates
<1>6. n.outgoing_htlcs = Range(NextNow.outgoing_htlcs)
  <2>1. n.outgoing_htlcs = (l.outgoing_htlcs \cup LocalAdds(U))
                              \ (HtlcsOf(U, "remote", "fulfill") \cup HtlcsOf(U, "remote", "fail"))
    <3> HIDE DEF l, U
    <3> QED
      BY Zenon, <1>5, NextHtlcs
  <2>2. /\ LocalAdds(U) = H("local", "add")
        /\ HtlcsOf(U, "remote", "fulfill") = H("remote", "fulfill")
        /\ HtlcsOf(U, "remote", "fail") = H("remote", "fail")
    BY <1>1, AbstractHtlcs DEF LocalAdds
  <2>3. Range(r.outgoing_htlcs) = OutAll(current, pending) \ OutGone(pending)
    BY Zenon, <1>1 DEF Gives
  <2>4. l.outgoing_htlcs = Range(current.outgoing_htlcs)
    BY Zenon
  <2> HIDE DEF l, U, H, n
  <2> QED
    BY Zenon, <1>2, <2>1, <2>2, <2>3, <2>4 DEF OutAll, OutGone, H
<1>7. n.incoming_htlcs = {h.pay : h \in Range(NextNow.incoming_htlcs)}
  <2> DEFINE P(S) == {h.pay : h \in S}
  <2>1. n.incoming_htlcs = (l.incoming_htlcs \cup RemoteAdds(U))
                              \ (HtlcsOf(U, "local", "fulfill") \cup HtlcsOf(U, "local", "fail"))
    <3> HIDE DEF l, U
    <3> QED
      BY Zenon, <1>5, NextHtlcs
  <2>2. /\ RemoteAdds(U) = P(H("remote", "add"))
        /\ HtlcsOf(U, "local", "fulfill") = P(H("local", "fulfill"))
        /\ HtlcsOf(U, "local", "fail") = P(H("local", "fail"))
    BY <1>1, AbstractHtlcs DEF RemoteAdds
  <2>3. l.incoming_htlcs = P(Range(current.incoming_htlcs))
    BY Zenon
  <2>4. \A S, T : P(S) \cup P(T) = P(S \cup T)
    BY Zenon
  <2>5. /\ Named(InAll(current, pending), NextRemoteUpdates(current, pending))
        /\ InGone(pending) \subseteq InAll(current, pending)
    BY Zenon, <1>1 DEF PendingSound, InAll
  <2>6. P(InAll(current, pending) \ InGone(pending)) = P(InAll(current, pending)) \ P(InGone(pending))
    BY Zenon, <2>5, PaymentsOf
  <2>7. Range(r.incoming_htlcs) = InAll(current, pending) \ InGone(pending)
    BY Zenon, <1>1 DEF Gives
  <2>8. /\ P(Range(current.incoming_htlcs)) \cup P(H("remote", "add")) = P(InAll(current, pending))
        /\ P(H("local", "fulfill")) \cup P(H("local", "fail")) = P(InGone(pending))
    BY Zenon, <2>4 DEF InAll, InGone
  <2> HIDE DEF l, U, H, n, P
  <2>9. n.incoming_htlcs = P(Range(NextNow.incoming_htlcs))
    BY Zenon, <1>2, <2>1, <2>2, <2>3, <2>6, <2>7, <2>8
  <2> QED
    BY Zenon, <2>9 DEF P
<1> HIDE DEF n
<1> QED
  BY Zenon, <1>2, <1>3, <1>4, <1>6, <1>7 DEF AgreesWithLcss, Funds, Abstracted, n

\* The client's fold gives the mirror of the host's.
LEMMA InvMirrors == SMInv => MirrorCommutes
<1> SUFFICES ASSUME SMInv PROVE MirrorCommutes
  OBVIOUS
<1> DEFINE r == Folded(current, pending)
           rv == ReverseView(current)
           ms == Mirrored(pending)
           nl == NextLocalUpdates(current, pending)
           nr == NextRemoteUpdates(current, pending)
<1>1. /\ current \in State /\ pending \in Seq(HostUpdate) /\ r \in State
      /\ Folded(rv, ms) = ReverseView(r)
  BY Zenon DEF SMInv, PendingSound, Gives
<1>2. NextLocalUpdates(rv, ms) = nr /\ NextRemoteUpdates(rv, ms) = nl
  BY Zenon, <1>1, CountMirrored DEF NextLocalUpdates, NextRemoteUpdates, ReverseView
<1>3. LcssNext(rv, ms) = [ReverseView(r) EXCEPT !.local_updates = nr, !.remote_updates = nl]
  <2>1. ~Failed(ReverseView(r))
    BY Zenon, <1>1, ReverseType, NotFailed
  <2>2. LcssNext(rv, ms) =
           IF Failed(Folded(rv, ms)) THEN Folded(rv, ms)
           ELSE [Folded(rv, ms) EXCEPT !.local_updates = NextLocalUpdates(rv, ms),
                                       !.remote_updates = NextRemoteUpdates(rv, ms)]
    BY Zenon DEF LcssNext, Folded
  <2> HIDE DEF rv, ms, r, nl, nr
  <2> QED
    BY <1>1, <1>2, <2>1, <2>2
<1>4. /\ NextNow.local_updates = nl /\ NextNow.remote_updates = nr
      /\ NextNow.local_balance = r.local_balance /\ NextNow.remote_balance = r.remote_balance
      /\ NextNow.incoming_htlcs = r.incoming_htlcs /\ NextNow.outgoing_htlcs = r.outgoing_htlcs
  BY Zenon, <1>1, NextFields DEF NextNow
<1> DEFINE m == LcssNext(rv, ms)
           x == [local_balance |-> r.remote_balance, remote_balance |-> r.local_balance,
                 local_updates |-> nr, remote_updates |-> nl,
                 incoming_htlcs |-> r.outgoing_htlcs, outgoing_htlcs |-> r.incoming_htlcs]
<1> HIDE DEF r, nl, nr, rv, ms, m
<1>5. m = x
  <2>1. m = [ReverseView(r) EXCEPT !.local_updates = nr, !.remote_updates = nl]
    BY Zenon, <1>3 DEF m
  <2> QED
    BY <2>1 DEF ReverseView
<1>6. ReverseView(NextNow) = x
  BY Zenon, <1>4 DEF ReverseView
<1> HIDE DEF x
<1> QED
  BY Zenon, <1>5, <1>6 DEF MirrorCommutes, m, rv, ms

-----------------------------------------------------------------------------
(* The theorems                                                            *)

\* Whatever updates the handlers have let into uncommitted, in whatever order
\* they came, the fold of lcss_next succeeds, and gives the balances, counters
\* and HTLCs that Lcss.tla states for the set of them: the modules built on the
\* set of updates speak of the code's fold.
THEOREM FoldAgrees == Spec => []AgreesWithLcss
<1>1. Init => SMInv
  BY InitSM
<1>2. SMInv /\ [Next]_smVars => SMInv'
  BY NextSM
<1>3. SMInv => AgreesWithLcss
  BY InvAgrees
<1> QED
  BY <1>1, <1>2, <1>3, PTL DEF Spec

\* The client that folds the same updates, seen from its side, into the state
\* that reverse() shows it, gets the reverse of what the host computes, the
\* order of the HTLCs included: both sign the same state.
THEOREM MirrorsAgree == Spec => []MirrorCommutes
<1>1. Init => SMInv
  BY InitSM
<1>2. SMInv /\ [Next]_smVars => SMInv'
  BY NextSM
<1>3. SMInv => MirrorCommutes
  BY InvMirrors
<1> QED
  BY <1>1, <1>2, <1>3, PTL DEF Spec
=============================================================================
