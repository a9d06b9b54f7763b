----------------------------- MODULE OrderProofs -----------------------------
(***************************************************************************)
(* Proofs about StateManager.tla: another interleaving of the updates of   *)
(* the two sides gives the same state, if the fold accepts it.             *)
(***************************************************************************)
EXTENDS StateManagerProofs

-----------------------------------------------------------------------------
(* Ranks, and lists in the order of the ids                                *)

\* Places of a finite set are ranked from 1 to the size of the set, each rank once.
Ranked(P) ==
    /\ \A i \in P : Rank(P, i) \in 1 .. Cardinality(P)
    /\ \A n \in 1 .. Cardinality(P) : \E i \in P : Rank(P, i) = n
    /\ \A i, j \in P : Rank(P, i) = Rank(P, j) => i = j

\* The greatest comes last and does not count for the others.
LEMMA RankOfOthers ==
    ASSUME NEW P \in SUBSET Int, NEW m \in P, \A i \in P : m >= i
    PROVE  Rank(P, m) = Cardinality(P) /\ \A i \in P \ {m} : Rank(P, i) = Rank(P \ {m}, i)
<1>1. {j \in P : j <= m} = P
  OBVIOUS
<1>2. ASSUME NEW i \in P \ {m}
      PROVE  {j \in P : j <= i} = {j \in P \ {m} : j <= i}
  OBVIOUS
<1> QED
  BY Zenon, <1>1, <1>2 DEF Rank

\* Every finite set of places is ranked: by induction, taking away the greatest.
LEMMA FiniteRanked ==
    ASSUME NEW S \in SUBSET Int, IsFiniteSet(S)
    PROVE  Ranked(S)
<1> DEFINE Good == {T \in SUBSET S : Ranked(T)}
<1>1. ASSUME NEW T \in SUBSET S, \A x \in T : T \ {x} \in Good
      PROVE  T \in Good
  <2>1. IsFiniteSet(T) /\ T \in SUBSET Int
    BY Zenon, FS_Subset
  <2>2. CASE T = {}
    <3>1. 1 .. Cardinality({}) = {}
      BY FS_EmptySet
    <3> QED
      BY Zenon, <2>2, <3>1 DEF Ranked
  <2>3. CASE T # {}
    <3> DEFINE m == Max(T)
               R == T \ {m}
               c == Cardinality(R)
    <3>1. m \in T /\ \A i \in T : m >= i
      BY Zenon, <2>1, <2>3, MaxMinIn
    <3>2. Ranked(R)
      BY Zenon, <1>1, <3>1
    <3>3. Rank(T, m) = Cardinality(T) /\ \A i \in R : Rank(T, i) = Rank(R, i)
      BY Zenon, <2>1, <3>1, RankOfOthers
    <3>4. Cardinality(T) \in Nat /\ c \in Nat /\ c = Cardinality(T) - 1
      <4> HIDE DEF m
      <4>1. IsFiniteSet(R) /\ c = Cardinality(T) - 1
        BY Zenon, <2>1, <3>1, FS_RemoveElement
      <4> QED
        BY Zenon, <2>1, <4>1, FS_CardinalityType
    <3>5. /\ Cardinality(T) \in 1 .. Cardinality(T) /\ Cardinality(T) \notin 1 .. c
          /\ \A n \in 1 .. c : n \in 1 .. Cardinality(T)
          /\ \A n \in 1 .. Cardinality(T) : n = Cardinality(T) \/ n \in 1 .. c
      <4> HIDE DEF c
      <4> QED
        BY <3>4
    <3>6. \A i \in T : i = m \/ i \in R
      OBVIOUS
    <3> HIDE DEF m, R, c
    <3>7. \A i \in R : Rank(T, i) \in 1 .. c
      BY Zenon, <3>2, <3>3 DEF Ranked, c
    <3>8. \A i \in T : Rank(T, i) \in 1 .. Cardinality(T)
      BY Zenon, <3>3, <3>5, <3>6, <3>7
    <3>9. ASSUME NEW n \in 1 .. Cardinality(T)
          PROVE  \E i \in T : Rank(T, i) = n
      <4>1. CASE n = Cardinality(T)
        BY Zenon, <3>1, <3>3, <4>1
      <4>2. CASE n \in 1 .. c
        <5>1. PICK i \in R : Rank(R, i) = n
          BY Zenon, <3>2, <4>2 DEF Ranked, c
        <5> QED
          BY Zenon, <3>3, <5>1 DEF R
      <4> QED
        BY Zenon, <3>5, <4>1, <4>2
    <3>10. \A i, j \in T : Rank(T, i) = Rank(T, j) => i = j
      <4> SUFFICES ASSUME NEW i \in T, NEW j \in T, Rank(T, i) = Rank(T, j)
                   PROVE  i = j
        OBVIOUS
      <4>1. i \in R <=> j \in R
        BY Zenon, <3>3, <3>5, <3>6, <3>7
      <4>2. CASE i \in R
        BY Zenon, <3>2, <3>3, <4>1, <4>2 DEF Ranked
      <4> QED
        BY Zenon, <3>6, <4>1, <4>2
    <3> QED
      BY Zenon, <3>8, <3>9, <3>10 DEF Ranked
  <2> QED
    BY Zenon, <2>2, <2>3
<1>2. S \in Good
  <2> HIDE DEF Good
  <2> QED
    BY Zenon, <1>1, FiniteInduction
<1> QED
  BY Zenon, <1>2

\* What is true of 0 and passes on to the next number is true up to n.
LEMMA UpTo ==
    ASSUME NEW n \in Nat, NEW Good, 0 \in Good,
           \A k \in 0 .. n - 1 : k \in Good => k + 1 \in Good
    PROVE  n \in Good
<1> DEFINE Bad == {k \in 0 .. n : k \notin Good}
<1> SUFFICES ASSUME Bad # {} PROVE FALSE
  OBVIOUS
<1>1. IsFiniteSet(Bad) /\ Bad \in SUBSET Int
  <2>1. IsFiniteSet(0 .. n)
    BY FS_Interval
  <2> QED
    BY <2>1, FS_Subset
<1>2. Min(Bad) \in Bad /\ \A y \in Bad : Min(Bad) =< y
  BY Zenon, <1>1, MaxMinIn
<1> DEFINE m == Min(Bad)
<1> HIDE DEF m
<1>3. m - 1 \in 0 .. n - 1 /\ m - 1 \in Good
  BY <1>2 DEF m
<1>4. (m - 1) + 1 = m
  BY <1>2 DEF m
<1> QED
  BY Zenon, <1>2, <1>3, <1>4 DEF m

\* A list in the order of the ids begins like any other that holds its HTLCs.
LEMMA SameStart ==
    ASSUME NEW R, \A x \in R : x.id \in Nat, NEW a \in Seq(R), NEW b \in Seq(R),
           Ascending(a), Ascending(b), Range(a) = Range(b)
    PROVE  Len(a) =< Len(b) /\ \A i \in 1 .. Len(a) : a[i] = b[i]
<1> DEFINE m == Len(a)
           n == Len(b)
           Good == {k \in Nat : k =< n /\ \A i \in 1 .. k : a[i] = b[i]}
<1>1. m \in Nat /\ n \in Nat /\ DOMAIN a = 1 .. m /\ DOMAIN b = 1 .. n
  OBVIOUS
<1>2. (\A i \in 1 .. m : a[i].id \in Nat) /\ (\A i \in 1 .. n : b[i].id \in Nat)
  OBVIOUS
<1>3. /\ \A i \in 1 .. m : \E j \in 1 .. n : a[i] = b[j]
      /\ \A i \in 1 .. n : \E j \in 1 .. m : b[i] = a[j]
  BY Zenon, <1>1 DEF Range
<1>4. /\ \A i, j \in 1 .. m : i < j => a[i].id < a[j].id
      /\ \A i, j \in 1 .. n : i < j => b[i].id < b[j].id
  BY Zenon, <1>1 DEF Ascending
<1> HIDE DEF m, n
<1>5. 0 \in Good
  BY <1>1
<1>6. ASSUME NEW k \in 0 .. m - 1, k \in Good
      PROVE  k + 1 \in Good
  <2>1. k \in Nat /\ k + 1 \in 1 .. m /\ k =< n /\ \A i \in 1 .. k : a[i] = b[i] /\ i \in 1 .. m
    BY <1>1, <1>6
  <2>2. PICK j \in 1 .. n : a[k + 1] = b[j]
    BY Zenon, <1>3, <2>1
  <2>3. ~(j < k + 1)
    <3> SUFFICES ASSUME j < k + 1 PROVE FALSE
      OBVIOUS
    <3>1. j \in 1 .. k
      BY <1>1, <2>1
    <3>2. a[j] = a[k + 1] /\ a[j].id < a[k + 1].id /\ a[j].id \in Nat
      BY Zenon, <1>2, <1>4, <2>1, <2>2, <3>1
    <3> QED
      BY <3>2
  <2>4. k + 1 \in 1 .. n
    BY <1>1, <2>1, <2>3
  <2>5. PICK i \in 1 .. m : b[k + 1] = a[i]
    BY Zenon, <1>3, <2>4
  <2>6. ~(i < k + 1)
    <3> SUFFICES ASSUME i < k + 1 PROVE FALSE
      OBVIOUS
    <3>1. i \in 1 .. k /\ i \in 1 .. n
      BY <1>1, <2>1
    <3>2. b[i] = b[k + 1] /\ b[i].id < b[k + 1].id /\ b[i].id \in Nat
      BY Zenon, <1>2, <1>4, <2>1, <2>4, <2>5, <3>1
    <3> QED
      BY <3>2
  <2>7. a[k + 1] = b[k + 1]
    <3> SUFFICES ASSUME k + 1 < i, k + 1 < j PROVE FALSE
      BY <1>1, <2>1, <2>2, <2>3, <2>5, <2>6
    <3>1. a[k + 1].id < a[i].id /\ b[k + 1].id < b[j].id
      BY Zenon, <1>4, <2>1, <2>4
    <3>2. a[k + 1].id < b[k + 1].id /\ b[k + 1].id < a[k + 1].id
      BY Zenon, <2>2, <2>5, <3>1
    <3> QED
      BY <1>2, <2>1, <2>4, <3>2
  <2> QED
    BY <1>1, <2>1, <2>4, <2>7
<1>7. m \in Good
  <2> HIDE DEF Good
  <2> QED
    BY Zenon, <1>1, <1>5, <1>6, UpTo
<1> QED
  BY Zenon, <1>7 DEF m, n

\* Two lists in the order of the ids with the same HTLCs are equal.
LEMMA SameList ==
    ASSUME NEW R, \A x \in R : x.id \in Nat, NEW a \in Seq(R), NEW b \in Seq(R),
           Ascending(a), Ascending(b), Range(a) = Range(b)
    PROVE  a = b
<1>1. Len(a) =< Len(b) /\ \A i \in 1 .. Len(a) : a[i] = b[i]
  BY Zenon, SameStart
<1>2. Len(b) =< Len(a)
  BY Zenon, SameStart
<1>3. Len(a) = Len(b)
  BY <1>1, <1>2
<1> QED
  BY <1>1, <1>3

\* Taking the places of P to those of the same rank in Q.
LEMMA SameRank ==
    ASSUME NEW P \in SUBSET Int, NEW Q \in SUBSET Int, IsFiniteSet(P), IsFiniteSet(Q),
           Cardinality(P) = Cardinality(Q)
    PROVE  LET to(i) == Nth(Q, Rank(P, i)) IN
           /\ \A i \in P : to(i) \in Q /\ Rank(Q, to(i)) = Rank(P, i)
           /\ \A i, j \in P : to(i) = to(j) => i = j
           /\ \A j \in Q : \E i \in P : to(i) = j
<1> DEFINE to(i) == Nth(Q, Rank(P, i))
<1>1. Ranked(P) /\ Ranked(Q)
  BY Zenon, FiniteRanked
<1>2. \A i \in P : to(i) \in Q /\ Rank(Q, to(i)) = Rank(P, i)
  BY Zenon, <1>1 DEF Ranked, Nth
<1> HIDE DEF to
<1>3. ASSUME NEW i \in P, NEW j \in P, to(i) = to(j)
      PROVE  i = j
  <2>1. Rank(P, i) = Rank(P, j)
    BY Zenon, <1>2, <1>3
  <2> QED
    BY Zenon, <1>1, <2>1 DEF Ranked
<1>4. ASSUME NEW j \in Q
      PROVE  \E i \in P : to(i) = j
  <2>1. PICK i \in P : Rank(P, i) = Rank(Q, j)
    BY Zenon, <1>1 DEF Ranked
  <2>2. to(i) \in Q /\ Rank(Q, to(i)) = Rank(Q, j)
    BY Zenon, <1>2, <2>1
  <2>3. to(i) = j
    BY Zenon, <1>1, <2>2 DEF Ranked
  <2> QED
    BY Zenon, <2>3
<1> QED
  BY Zenon, <1>2, <1>3, <1>4 DEF to

-----------------------------------------------------------------------------
(* Other orders of the updates                                            *)

\* us has at i what ps has at f[i]: each update of ps once, and as many updates of
\* its side come before it.
Reorders(ps, us, f) ==
    /\ f \in [DOMAIN ps -> DOMAIN ps] /\ DOMAIN us = DOMAIN ps
    /\ \A i \in DOMAIN ps :
          /\ us[i] = ps[f[i]]
          /\ Rank(Places(us, us[i].side), i) = Rank(Places(ps, us[i].side), f[i])
    /\ \A i, j \in DOMAIN ps : f[i] = f[j] => i = j
    /\ \A j \in DOMAIN ps : \E i \in DOMAIN ps : f[i] = j

\* An interleaving takes each update from a place of the same rank of its side.
LEMMA InterleavedReorders ==
    ASSUME NEW ps \in Seq(HostUpdate), NEW S \in kSubset(LocalCount(ps), DOMAIN ps)
    PROVE  \E f : Reorders(ps, Interleaved(ps, S), f)
<1> DEFINE D == DOMAIN ps
           L == Places(ps, "local")
           R == Places(ps, "remote")
           Q == D \ S
           us == Interleaved(ps, S)
           f == [i \in D |-> IF i \in S THEN Nth(L, Rank(S, i)) ELSE Nth(R, Rank(Q, i))]
<1>1. D \in SUBSET Int /\ IsFiniteSet(D)
  <2>1. 1 \in Int /\ Len(ps) \in Int /\ D = 1 .. Len(ps)
    OBVIOUS
  <2> QED
    BY <2>1, FS_Interval
<1>2. R = D \ L /\ L \in SUBSET D /\ \A i \in D : ps[i].side \in {"local", "remote"}
  <2>1. \A i \in D : ps[i].side \in {"local", "remote"}
    BY DEF HostUpdate
  <2> QED
    BY Zenon, <2>1 DEF Places
<1>3. S \in SUBSET D /\ Cardinality(S) = Cardinality(L)
  BY Zenon DEF kSubset, LocalCount
<1> HIDE DEF D, L, R
<1>4. /\ IsFiniteSet(L) /\ IsFiniteSet(R) /\ IsFiniteSet(S) /\ IsFiniteSet(Q)
      /\ Cardinality(Q) = Cardinality(R)
  <2>1. D \cap S = S /\ D \cap L = L
    BY Zenon, <1>2, <1>3
  <2>2. IsFiniteSet(L) /\ IsFiniteSet(S)
    BY Zenon, <1>1, <1>2, <1>3, FS_Subset
  <2>5. ASSUME NEW T, D \cap T = T
        PROVE  IsFiniteSet(D \ T) /\ Cardinality(D \ T) = Cardinality(D) - Cardinality(T)
    <3>1. Cardinality(D \ T) = Cardinality(D) - Cardinality(D \cap T) /\ IsFiniteSet(D \ T)
      BY Zenon, <1>1, FS_Difference
    <3> QED
      BY <2>5, <3>1
  <2>3. IsFiniteSet(R) /\ Cardinality(R) = Cardinality(D) - Cardinality(L)
    BY Zenon, <1>2, <2>1, <2>5
  <2>4. IsFiniteSet(Q) /\ Cardinality(Q) = Cardinality(D) - Cardinality(S)
    BY Zenon, <2>1, <2>5
  <2> QED
    BY Zenon, <1>3, <2>2, <2>3, <2>4
<1>5. L \in SUBSET Int /\ R \in SUBSET Int /\ S \in SUBSET Int /\ Q \in SUBSET Int
  BY Zenon, <1>1, <1>2, <1>3
<1>6. /\ \A i \in S : f[i] = Nth(L, Rank(S, i))
      /\ \A i \in Q : f[i] = Nth(R, Rank(Q, i))
  BY Zenon, <1>3
<1> HIDE DEF Q, f
<1>7. /\ \A i \in S : f[i] \in L /\ Rank(L, f[i]) = Rank(S, i)
      /\ \A i, j \in S : f[i] = f[j] => i = j
      /\ \A j \in L : \E i \in S : f[i] = j
  BY <1>3, <1>4, <1>5, <1>6, SameRank
<1>8. /\ \A i \in Q : f[i] \in R /\ Rank(R, f[i]) = Rank(Q, i)
      /\ \A i, j \in Q : f[i] = f[j] => i = j
      /\ \A j \in R : \E i \in Q : f[i] = j
  BY <1>4, <1>5, <1>6, SameRank
<1>9. \A i \in D : (i \in S \/ i \in Q) /\ (i \in L \/ i \in R)
  BY Zenon, <1>2 DEF Q
<1>10. (\A i \in S \cup Q : i \in D) /\ L \cap R = {} /\ \A i \in L \cup R : i \in D
  BY Zenon, <1>2, <1>3 DEF Q
<1>11. f \in [D -> D]
  <2>1. \A i \in D : f[i] \in D
    BY Zenon, <1>7, <1>8, <1>9, <1>10
  <2> QED
    BY Zenon, <2>1 DEF f
<1>12. DOMAIN us = D /\ \A i \in D : us[i] = ps[f[i]]
  <2>1. us = [i \in D |-> ps[IF i \in S THEN Nth(L, Rank(S, i)) ELSE Nth(R, Rank(Q, i))]]
    BY Zenon DEF Interleaved, D, L, R, Q
  <2>2. DOMAIN us = D /\ \A i \in D :
           us[i] = ps[IF i \in S THEN Nth(L, Rank(S, i)) ELSE Nth(R, Rank(Q, i))]
    <3> HIDE DEF us
    <3> QED
      BY Zenon, <2>1
  <2> QED
    BY Zenon, <2>2 DEF f
<1>13. (\A i \in L : ps[i].side = "local") /\ (\A i \in R : ps[i].side = "remote")
  BY Zenon DEF L, R, Places
<1> HIDE DEF us
<1>14. (\A i \in S : us[i].side = "local") /\ (\A i \in Q : us[i].side = "remote")
  BY <1>7, <1>8, <1>10, <1>12, <1>13
<1>15. Places(us, "local") = S /\ Places(us, "remote") = Q
  BY Zenon, <1>9, <1>10, <1>12, <1>14 DEF Places
<1>16. \A i \in D : Rank(Places(us, us[i].side), i) = Rank(Places(ps, us[i].side), f[i])
  <2> SUFFICES ASSUME NEW i \in D
               PROVE  Rank(Places(us, us[i].side), i) = Rank(Places(ps, us[i].side), f[i])
    OBVIOUS
  <2>1. CASE i \in S
    <3>1. us[i].side = "local" /\ Rank(L, f[i]) = Rank(S, i)
      BY Zenon, <1>7, <1>14, <2>1
    <3> QED
      BY Zenon, <1>15, <3>1 DEF L
  <2>2. CASE i \in Q
    <3>1. us[i].side = "remote" /\ Rank(R, f[i]) = Rank(Q, i)
      BY Zenon, <1>8, <1>14, <2>2
    <3> QED
      BY Zenon, <1>15, <3>1 DEF R
  <2> QED
    BY Zenon, <1>9, <2>1, <2>2
<1>17. \A i, j \in D : f[i] = f[j] => i = j
  BY Zenon, <1>7, <1>8, <1>9, <1>10
<1>18. \A j \in D : \E i \in D : f[i] = j
  BY Zenon, <1>7, <1>8, <1>9, <1>10
<1> QED
  BY Zenon, <1>11, <1>12, <1>16, <1>17, <1>18 DEF Reorders, D, us

-----------------------------------------------------------------------------
(* The ids tell the order                                                  *)

\* The id of an HTLC that is added counts the updates of its side up to it, and no
\* HTLC is resolved twice.
Numbered(st, us) ==
    \A i \in DOMAIN us :
       /\ us[i].side = "local" /\ us[i].kind = "add" =>
             us[i].htlc.id = st.local_updates + Rank(Places(us, "local"), i)
       /\ us[i].side = "remote" /\ us[i].kind = "add" =>
             us[i].htlc.id = st.remote_updates + Rank(Places(us, "remote"), i)
       /\ \A j \in DOMAIN us :
             /\ us[i].side = us[j].side /\ us[i].kind # "add" /\ us[j].kind # "add"
             /\ us[i].htlc = us[j].htlc
             => i = j

\* One more update does not change the ranks of the others.
LEMMA RankOneMore ==
    ASSUME NEW us \in Seq(HostUpdate), NEW u \in HostUpdate, NEW s
    PROVE  /\ \A i \in DOMAIN us : Rank(Places(Append(us, u), s), i) = Rank(Places(us, s), i)
           /\ Rank(Places(Append(us, u), s), Len(us) + 1) = Cardinality(Places(Append(us, u), s))
<1> DEFINE n == Len(us)
           vs == Append(us, u)
<1>1. n \in Nat /\ DOMAIN us = 1 .. n /\ DOMAIN vs = 1 .. n + 1 /\ \A i \in 1 .. n : vs[i] = us[i]
  OBVIOUS
<1> HIDE DEF n, vs
<1>2. {j \in Places(vs, s) : j <= n + 1} = Places(vs, s)
  BY <1>1 DEF Places
<1>3. ASSUME NEW i \in 1 .. n
      PROVE  {j \in Places(vs, s) : j <= i} = {j \in Places(us, s) : j <= i}
  BY <1>1 DEF Places
<1> QED
  BY Zenon, <1>1, <1>2, <1>3 DEF Rank, vs, n

\* A push numbers its HTLC with the next counter.
LEMMA PushNumbered ==
    ASSUME NEW st, NEW us, NEW r, NEW u \in HostUpdate,
           PendingSound(st, us), Numbered(st, us), Pushable(st, us, r, u)
    PROVE  Numbered(st, Append(us, u))
<1> DEFINE n == Len(us)
           vs == Append(us, u)
<1>1. st \in State /\ us \in Seq(HostUpdate)
  BY Zenon DEF PendingSound
<1>2. n \in Nat /\ DOMAIN us = 1 .. n /\ DOMAIN vs = 1 .. n + 1 /\ vs[n + 1] = u
  BY <1>1
<1>3. \A i \in 1 .. n : vs[i] = us[i]
  BY <1>1
<1>4. \A s : /\ \A i \in 1 .. n : Rank(Places(vs, s), i) = Rank(Places(us, s), i)
            /\ Rank(Places(vs, s), n + 1) = Cardinality(Places(vs, s))
  <2> TAKE s
  <2>1. /\ \A i \in DOMAIN us : Rank(Places(vs, s), i) = Rank(Places(us, s), i)
        /\ Rank(Places(vs, s), n + 1) = Cardinality(Places(vs, s))
    BY Zenon, <1>1, RankOneMore
  <2> HIDE DEF n, vs
  <2> QED
    BY <1>2, <2>1
<1>5. /\ u.side = "local" => NextLocalUpdates(st, vs) = NextLocalUpdates(st, us) + 1
      /\ u.side = "remote" => NextRemoteUpdates(st, vs) = NextRemoteUpdates(st, us) + 1
  BY Zenon, <1>1, CountersOneMore
<1> HIDE DEF n, vs
<1>6. \A i \in DOMAIN vs : i \in 1 .. n \/ i = n + 1
  BY <1>2
<1>7. /\ u.side = "local" /\ u.kind = "add" =>
            u.htlc.id = st.local_updates + Rank(Places(vs, "local"), n + 1)
      /\ u.side = "remote" /\ u.kind = "add" =>
            u.htlc.id = st.remote_updates + Rank(Places(vs, "remote"), n + 1)
  <2>1. /\ NextLocalUpdates(st, vs) = st.local_updates + Rank(Places(vs, "local"), n + 1)
        /\ NextRemoteUpdates(st, vs) = st.remote_updates + Rank(Places(vs, "remote"), n + 1)
    BY Zenon, <1>4 DEF NextLocalUpdates, NextRemoteUpdates, LocalCount, RemoteCount
  <2> QED
    BY Zenon, <1>5, <2>1 DEF Pushable
<1>8. ASSUME NEW i \in 1 .. n, us[i].side = u.side, us[i].kind # "add", u.kind # "add",
             us[i].htlc = u.htlc
      PROVE  FALSE
  <2>1. i \in DOMAIN us /\ us[i] \in HostUpdate
    BY <1>1, <1>2
  <2>2. u.side \in {"local", "remote"}
    BY DEF HostUpdate
  <2> QED
    BY Zenon, <1>1, <1>8, <2>1, <2>2, HtlcOfPending DEF Pushable
<1>9. ASSUME NEW i \in 1 .. n
      PROVE  /\ us[i].side = "local" /\ us[i].kind = "add" =>
                   us[i].htlc.id = st.local_updates + Rank(Places(vs, "local"), i)
             /\ us[i].side = "remote" /\ us[i].kind = "add" =>
                   us[i].htlc.id = st.remote_updates + Rank(Places(vs, "remote"), i)
  BY Zenon, <1>2, <1>4 DEF Numbered
<1>10. ASSUME NEW i \in DOMAIN vs, NEW j \in DOMAIN vs, vs[i].side = vs[j].side,
              vs[i].kind # "add", vs[j].kind # "add", vs[i].htlc = vs[j].htlc
       PROVE  i = j
  <2>1. CASE i \in 1 .. n /\ j \in 1 .. n
    BY Zenon, <1>2, <1>3, <1>10, <2>1 DEF Numbered
  <2>2. CASE i = n + 1 /\ j \in 1 .. n
    BY Zenon, <1>2, <1>3, <1>8, <1>10, <2>2
  <2>3. CASE j = n + 1 /\ i \in 1 .. n
    BY Zenon, <1>2, <1>3, <1>8, <1>10, <2>3
  <2> QED
    BY Zenon, <1>6, <2>1, <2>2, <2>3
<1>11. ASSUME NEW i \in DOMAIN vs
       PROVE  /\ vs[i].side = "local" /\ vs[i].kind = "add" =>
                    vs[i].htlc.id = st.local_updates + Rank(Places(vs, "local"), i)
              /\ vs[i].side = "remote" /\ vs[i].kind = "add" =>
                    vs[i].htlc.id = st.remote_updates + Rank(Places(vs, "remote"), i)
  <2>1. CASE i \in 1 .. n
    BY Zenon, <1>3, <1>9, <2>1
  <2>2. CASE i = n + 1
    BY Zenon, <1>2, <1>7, <2>2
  <2> QED
    BY Zenon, <1>6, <2>1, <2>2
<1> QED
  BY Zenon, <1>10, <1>11 DEF Numbered, vs

\* The first updates of a Vec, and one more.
LEMMA Prefix ==
    ASSUME NEW us \in Seq(HostUpdate), NEW k \in 0 .. Len(us) - 1
    PROVE  LET ws == SubSeq(us, 1, k)
               u == us[k + 1] IN
           /\ ws \in Seq(HostUpdate) /\ u \in HostUpdate /\ k + 1 \in DOMAIN us
           /\ DOMAIN ws = 1 .. k /\ \A i \in 1 .. k : i \in DOMAIN us /\ ws[i] = us[i]
           /\ SubSeq(us, 1, k + 1) = Append(ws, u)
           /\ \A s : Rank(Places(us, s), k + 1) = Cardinality(Places(Append(ws, u), s))
<1> DEFINE n == Len(us)
           ws == SubSeq(us, 1, k)
           vs == SubSeq(us, 1, k + 1)
<1>1. n \in Nat /\ DOMAIN us = 1 .. n /\ k \in Nat /\ k + 1 \in 1 .. n
  OBVIOUS
<1>2. ws \in Seq(HostUpdate) /\ Len(ws) = k /\ \A i \in 1 .. k : i \in 1 .. n /\ ws[i] = us[i]
  BY <1>1
<1>3. /\ vs \in Seq(HostUpdate) /\ Len(vs) = k + 1
      /\ \A i \in 1 .. k + 1 : i \in 1 .. n /\ vs[i] = us[i]
  BY <1>1
<1>4. us[k + 1] \in HostUpdate
  BY <1>1
<1> HIDE DEF ws, vs
<1>5. vs = Append(ws, us[k + 1])
  BY <1>1, <1>2, <1>3, <1>4
<1>6. ASSUME NEW s
      PROVE  {j \in Places(us, s) : j <= k + 1} = Places(vs, s)
  BY <1>1, <1>3 DEF Places
<1>7. DOMAIN ws = 1 .. k
  BY <1>2
<1> HIDE DEF n
<1> QED
  BY Zenon, <1>1, <1>2, <1>4, <1>5, <1>6, <1>7 DEF Rank, ws, vs

\* The handlers would let the updates in in the order of us too, if the balances
\* allow it.
LEMMA ReorderedPushable ==
    ASSUME NEW st, NEW ps, NEW us \in Seq(HostUpdate), NEW f, NEW r,
           NEW k \in 0 .. Len(us) - 1,
           PendingSound(st, ps), Numbered(st, ps), Reorders(ps, us, f),
           PendingSound(st, SubSeq(us, 1, k)),
           us[k + 1].kind = "add" =>
              /\ us[k + 1].side = "local" => Amount[us[k + 1].htlc.pay] =< r.local_balance
              /\ us[k + 1].side = "remote" => Amount[us[k + 1].htlc.pay] =< r.remote_balance
    PROVE  Pushable(st, SubSeq(us, 1, k), r, us[k + 1])
<1> DEFINE ws == SubSeq(us, 1, k)
           u == us[k + 1]
           h == u.htlc
           m == f[k + 1]
           vs == Append(ws, u)
<1>1. /\ ws \in Seq(HostUpdate) /\ u \in HostUpdate /\ k + 1 \in DOMAIN us
      /\ DOMAIN ws = 1 .. k /\ \A i \in 1 .. k : i \in DOMAIN us /\ ws[i] = us[i]
      /\ \A s : Rank(Places(us, s), k + 1) = Cardinality(Places(vs, s))
  BY Zenon, Prefix
<1>2. st \in State /\ ps \in Seq(HostUpdate)
  BY Zenon DEF PendingSound
<1>3. /\ m \in DOMAIN ps /\ ps[m] = u
      /\ Cardinality(Places(vs, u.side)) = Rank(Places(ps, u.side), m)
  BY Zenon, <1>1 DEF Reorders
<1>14. \A i \in 1 .. k : f[i] \in DOMAIN ps /\ ws[i] = ps[f[i]] /\ f[i] # m
  <2> SUFFICES ASSUME NEW i \in 1 .. k
               PROVE  f[i] \in DOMAIN ps /\ ws[i] = ps[f[i]] /\ f[i] # m
    OBVIOUS
  <2>1. i # k + 1
    OBVIOUS
  <2>2. i \in DOMAIN us /\ ws[i] = us[i]
    BY Zenon, <1>1
  <2> QED
    BY Zenon, <1>1, <2>1, <2>2 DEF Reorders
<1> HIDE DEF ws, m, u
<1>4. /\ u.side = "local" /\ u.kind = "add" => h.id = NextLocalUpdates(st, ws) + 1
      /\ u.side = "remote" /\ u.kind = "add" => h.id = NextRemoteUpdates(st, ws) + 1
  <2>1. /\ u.side = "local" => NextLocalUpdates(st, vs) = NextLocalUpdates(st, ws) + 1
        /\ u.side = "remote" => NextRemoteUpdates(st, vs) = NextRemoteUpdates(st, ws) + 1
    BY Zenon, <1>1, <1>2, CountersOneMore
  <2>2. /\ u.side = "local" /\ u.kind = "add" =>
              h.id = st.local_updates + Rank(Places(ps, "local"), m)
        /\ u.side = "remote" /\ u.kind = "add" =>
              h.id = st.remote_updates + Rank(Places(ps, "remote"), m)
    BY Zenon, <1>3 DEF Numbered
  <2>3. /\ u.side = "local" => NextLocalUpdates(st, vs) = st.local_updates + Rank(Places(ps, "local"), m)
        /\ u.side = "remote" => NextRemoteUpdates(st, vs) = st.remote_updates + Rank(Places(ps, "remote"), m)
    BY Zenon, <1>3 DEF NextLocalUpdates, NextRemoteUpdates, LocalCount, RemoteCount
  <2> HIDE DEF vs
  <2> QED
    BY Zenon, <2>1, <2>2, <2>3
<1>5. Range(ws) \subseteq Range(ps)
  <2>1. ASSUME NEW i \in 1 .. k
        PROVE  ws[i] \in Range(ps)
    BY Zenon, <1>14 DEF Range
  <2>2. \A x \in Range(ws) : \E i \in 1 .. k : x = ws[i]
    BY Zenon, <1>1 DEF Range
  <2> QED
    BY <2>1, <2>2
<1>6. OutAll(st, ws) \subseteq OutAll(st, ps) /\ InAll(st, ws) \subseteq InAll(st, ps)
  BY Zenon, <1>5 DEF OutAll, InAll, HtlcsOf
<1>7. /\ u.side = "local" /\ u.kind = "add" => h \in OutAll(st, ps)
      /\ u.side = "remote" /\ u.kind = "add" => h \in InAll(st, ps)
      /\ u.side = "local" /\ u.kind # "add" => h \in Range(st.incoming_htlcs)
      /\ u.side = "remote" /\ u.kind # "add" => h \in Range(st.outgoing_htlcs)
  BY Zenon, <1>2, <1>3, HtlcOfPending DEF PendingSound
<1>8. \A n \in Nat : n + 1 \notin 0 .. n
  OBVIOUS
<1>9. NextLocalUpdates(st, ws) \in Nat /\ NextRemoteUpdates(st, ws) \in Nat
  BY Zenon, <1>1, <1>2, CountersType
<1>10. ASSUME u.side = "local", u.kind = "add", NEW g \in OutAll(st, ws), g.pay = h.pay
       PROVE  FALSE
  <2>1. g = h
    BY Zenon, <1>6, <1>7, <1>10 DEF PendingSound, Named
  <2>2. h.id \in 0 .. NextLocalUpdates(st, ws)
    BY Zenon, <1>10, <2>1 DEF PendingSound, Named, ws
  <2> QED
    BY Zenon, <1>4, <1>8, <1>9, <1>10, <2>2
<1>11. ASSUME u.side = "remote", u.kind = "add", NEW g \in InAll(st, ws), g.pay = h.pay
       PROVE  FALSE
  <2>1. g = h
    BY Zenon, <1>6, <1>7, <1>11 DEF PendingSound, Named
  <2>2. h.id \in 0 .. NextRemoteUpdates(st, ws)
    BY Zenon, <1>11, <2>1 DEF PendingSound, Named, ws
  <2> QED
    BY Zenon, <1>4, <1>8, <1>9, <1>11, <2>2
<1>12. ASSUME NEW i \in 1 .. k, ws[i].side = u.side, ws[i].kind # "add", u.kind # "add",
              ws[i].htlc = h
       PROVE  FALSE
  <2>1. f[i] \in DOMAIN ps /\ f[i] # m
    BY Zenon, <1>14
  <2>2. ps[f[i]].side = ps[m].side /\ ps[f[i]].kind # "add" /\ ps[m].kind # "add" /\ ps[f[i]].htlc = ps[m].htlc
    BY <1>3, <1>14, <1>12
  <2> QED
    BY Zenon, <1>3, <2>1, <2>2 DEF Numbered
<1>13. /\ u.side = "local" /\ u.kind # "add" => h \notin InGone(ws)
       /\ u.side = "remote" /\ u.kind # "add" => h \notin OutGone(ws)
  BY Zenon, <1>1, <1>12 DEF InGone, OutGone, HtlcsOf, Range
<1> QED
  BY Zenon, <1>4, <1>7, <1>10, <1>11, <1>13 DEF Pushable, ws, u

\* An add that the balance does not cover ends the fold.
LEMMA TooLarge ==
    ASSUME NEW r \in State, NEW u \in HostUpdate, u.kind = "add",
           \/ u.side = "local" /\ ~(Amount[u.htlc.pay] =< r.local_balance)
           \/ u.side = "remote" /\ ~(Amount[u.htlc.pay] =< r.remote_balance)
    PROVE  Failed(FoldUpdate(r, u))
<1>1. Failed(Err("NegativeBalance"))
  BY DEF Failed, Err
<1>2. ~Failed(r)
  BY Zenon, NotFailed DEF State
<1>3. CASE u.side = "local"
  <2>1. FoldUpdate(r, u) = FoldAdd(r, "local_balance", "outgoing_htlcs", u.htlc)
    BY Zenon, <1>2, <1>3, FoldUpdateArms
  <2>2. u.htlc \in Outgoing
    BY <1>3 DEF HostUpdate
  <2>3. Amount[u.htlc.pay] > r.local_balance
    BY <1>3, <2>2, AmountType, StateFields
  <2> QED
    BY Zenon, <1>1, <2>1, <2>3 DEF FoldAdd
<1>4. CASE u.side = "remote"
  <2>1. FoldUpdate(r, u) = FoldAdd(r, "remote_balance", "incoming_htlcs", u.htlc)
    BY Zenon, <1>2, <1>4, FoldUpdateArms
  <2>2. u.htlc.pay \in Payments
    BY <1>4 DEF HostUpdate, InHtlc
  <2>3. Amount[u.htlc.pay] > r.remote_balance
    BY <1>4, <2>2, AmountType, StateFields
  <2> QED
    BY Zenon, <1>1, <2>1, <2>3 DEF FoldAdd
<1> QED
  BY <1>3, <1>4

\* Folding the updates in the order of us fails, or gives what it has to.
LEMMA ReorderedGives ==
    ASSUME NEW st, NEW ps, NEW us \in Seq(HostUpdate), NEW f,
           PendingSound(st, ps), Numbered(st, ps), Reorders(ps, us, f)
    PROVE  \/ Failed(Folded(st, us))
           \/ PendingSound(st, us) /\ Gives(st, us, Folded(st, us)) /\ Counted(us)
<1> DEFINE n == Len(us)
           first(k) == SubSeq(us, 1, k)
           fold(k) == Folded(st, first(k))
           Good == {k \in Nat : \/ Failed(fold(k))
                                \/ /\ PendingSound(st, first(k)) /\ Gives(st, first(k), fold(k))
                                   /\ Counted(first(k))}
<1>1. n \in Nat /\ first(0) = <<>> /\ first(n) = us
  OBVIOUS
<1>2. st \in State /\ StateSound(st)
  BY Zenon DEF PendingSound
<1>3. 0 \in Good
  <2>1. 0 \in Nat
    OBVIOUS
  <2> QED
    BY Zenon, <1>1, <1>2, <2>1, NothingPending, FoldedEmpty
<1>4. ASSUME NEW k \in 0 .. n - 1, k \in Good
      PROVE  k + 1 \in Good
  <2> DEFINE ws == first(k)
             u == us[k + 1]
             r == fold(k)
  <2>1. ws \in Seq(HostUpdate) /\ u \in HostUpdate /\ first(k + 1) = Append(ws, u)
    BY Zenon, Prefix
  <2>2. fold(k + 1) = FoldUpdate(r, u)
    <3> HIDE DEF ws, u
    <3>1. Folded(st, Append(ws, u)) = FoldUpdate(Folded(st, ws), u)
      BY Zenon, <2>1, FoldedAppend
    <3> QED
      BY Zenon, <2>1, <3>1 DEF ws
  <2>3. k + 1 \in Nat
    OBVIOUS
  <2>4. CASE Failed(r)
    BY Zenon, <2>2, <2>3, <2>4 DEF FoldUpdate
  <2>5. CASE ~Failed(r)
    <3>1. PendingSound(st, ws) /\ Gives(st, ws, r) /\ Counted(ws)
      BY Zenon, <1>4, <2>5
    <3>2. r \in State
      BY Zenon, <3>1 DEF Gives
    <3>3. CASE /\ u.kind = "add"
               /\ \/ u.side = "local" /\ ~(Amount[u.htlc.pay] =< r.local_balance)
                  \/ u.side = "remote" /\ ~(Amount[u.htlc.pay] =< r.remote_balance)
      <4>1. Failed(FoldUpdate(r, u))
        BY Zenon, <2>1, <3>2, <3>3, TooLarge
      <4> QED
        BY Zenon, <2>2, <2>3, <4>1
    <3>4. CASE u.kind = "add" => /\ u.side = "local" => Amount[u.htlc.pay] =< r.local_balance
                                 /\ u.side = "remote" => Amount[u.htlc.pay] =< r.remote_balance
      <4>1. Pushable(st, ws, r, u)
        BY Zenon, <3>1, <3>4, ReorderedPushable
      <4>2. /\ PendingSound(st, Append(ws, u)) /\ Gives(st, Append(ws, u), FoldUpdate(r, u))
            /\ Counted(Append(ws, u))
        BY Zenon, <2>1, <3>1, <4>1, PushSound, PushGives, PushCounted
      <4> QED
        BY Zenon, <2>1, <2>2, <2>3, <4>2
    <3> QED
      BY Zenon, <3>3, <3>4
  <2> QED
    BY Zenon, <2>4, <2>5
<1> HIDE DEF Good, n
<1>5. n \in Good
  BY Zenon, <1>1, <1>3, <1>4, UpTo
<1> QED
  BY Zenon, <1>1, <1>5 DEF Good

\* Two states with the same fields are equal.
LEMMA SameState ==
    ASSUME NEW s \in State, NEW t \in State,
           s.local_balance = t.local_balance, s.remote_balance = t.remote_balance,
           s.local_updates = t.local_updates, s.remote_updates = t.remote_updates,
           s.incoming_htlcs = t.incoming_htlcs, s.outgoing_htlcs = t.outgoing_htlcs
    PROVE  s = t
BY DEF State, StateOf

\* What the fold has to give depends on the updates, and not on their order.
LEMMA SameNext ==
    ASSUME NEW st, NEW ps, NEW us, NEW f, Reorders(ps, us, f),
           PendingSound(st, ps), Gives(st, ps, Folded(st, ps)), Counted(ps),
           PendingSound(st, us), Gives(st, us, Folded(st, us)), Counted(us)
    PROVE  LcssNext(st, us) = LcssNext(st, ps)
<1> DEFINE r == Folded(st, ps)
           q == Folded(st, us)
           m == LcssNext(st, ps)
           n == LcssNext(st, us)
<1>1. st \in State /\ ps \in Seq(HostUpdate) /\ us \in Seq(HostUpdate) /\ r \in State /\ q \in State
  BY Zenon DEF PendingSound, Gives
<1>2. Range(us) = Range(ps)
  <2>1. /\ DOMAIN us = DOMAIN ps
        /\ \A i \in DOMAIN ps : f[i] \in DOMAIN ps /\ us[i] = ps[f[i]]
        /\ \A j \in DOMAIN ps : \E i \in DOMAIN ps : f[i] = j
    BY DEF Reorders
  <2>2. \A x : x \in Range(us) <=> \E i \in DOMAIN ps : x = us[i]
    BY Zenon, <2>1 DEF Range
  <2>3. \A x : x \in Range(ps) <=> \E i \in DOMAIN ps : x = ps[i]
    BY Zenon DEF Range
  <2>4. \A x : x \in Range(us) <=> x \in Range(ps)
    BY <2>1, <2>2, <2>3
  <2> QED
    BY Zenon, <2>4
<1>3. Abstracted(us) = Abstracted(ps)
  <2>1. \A x : x \in Abstracted(us) <=> \E u \in Range(us) : x = AbstractUpdate(u)
    BY Zenon DEF Abstracted, Range
  <2>2. \A x : x \in Abstracted(ps) <=> \E u \in Range(ps) : x = AbstractUpdate(u)
    BY Zenon DEF Abstracted, Range
  <2> QED
    BY Zenon, <1>2, <2>1, <2>2
<1>4. /\ InAll(st, us) = InAll(st, ps) /\ OutAll(st, us) = OutAll(st, ps)
      /\ InGone(us) = InGone(ps) /\ OutGone(us) = OutGone(ps)
  BY Zenon, <1>2 DEF InAll, OutAll, InGone, OutGone
<1>5. LocalCount(us) = LocalCount(ps) /\ RemoteCount(us) = RemoteCount(ps)
  BY Zenon, <1>3 DEF Counted
<1>6. q.local_balance = r.local_balance /\ q.remote_balance = r.remote_balance
  BY Zenon, <1>3 DEF Gives
<1>7. /\ Range(q.incoming_htlcs) = Range(r.incoming_htlcs)
      /\ Range(q.outgoing_htlcs) = Range(r.outgoing_htlcs)
  BY Zenon, <1>4 DEF Gives
<1>8. /\ Ascending(q.incoming_htlcs) /\ Ascending(q.outgoing_htlcs)
      /\ Ascending(r.incoming_htlcs) /\ Ascending(r.outgoing_htlcs)
  BY Zenon DEF Gives
<1>9. /\ q.incoming_htlcs \in Seq(InHtlc) /\ q.outgoing_htlcs \in Seq(Outgoing)
      /\ r.incoming_htlcs \in Seq(InHtlc) /\ r.outgoing_htlcs \in Seq(Outgoing)
  BY Zenon, <1>1, StateFields
<1>10. (\A x \in InHtlc : x.id \in Nat) /\ (\A x \in Outgoing : x.id \in Nat)
  BY DEF InHtlc, Outgoing
<1>11. q.incoming_htlcs = r.incoming_htlcs /\ q.outgoing_htlcs = r.outgoing_htlcs
  BY Zenon, <1>7, <1>8, <1>9, <1>10, SameList
<1>12. /\ NextLocalUpdates(st, us) = NextLocalUpdates(st, ps)
       /\ NextRemoteUpdates(st, us) = NextRemoteUpdates(st, ps)
  BY Zenon, <1>5 DEF NextLocalUpdates, NextRemoteUpdates
<1>13. /\ m \in State
       /\ m.local_updates = NextLocalUpdates(st, ps) /\ m.remote_updates = NextRemoteUpdates(st, ps)
       /\ m.local_balance = r.local_balance /\ m.remote_balance = r.remote_balance
       /\ m.incoming_htlcs = r.incoming_htlcs /\ m.outgoing_htlcs = r.outgoing_htlcs
  BY Zenon, <1>1, NextFields
<1>14. /\ n \in State
       /\ n.local_updates = NextLocalUpdates(st, us) /\ n.remote_updates = NextRemoteUpdates(st, us)
       /\ n.local_balance = q.local_balance /\ n.remote_balance = q.remote_balance
       /\ n.incoming_htlcs = q.incoming_htlcs /\ n.outgoing_htlcs = q.outgoing_htlcs
  BY Zenon, <1>1, NextFields
<1> HIDE DEF m, n, q, r
<1>15. /\ n.local_updates = m.local_updates /\ n.remote_updates = m.remote_updates
       /\ n.local_balance = m.local_balance /\ n.remote_balance = m.remote_balance
       /\ n.incoming_htlcs = m.incoming_htlcs /\ n.outgoing_htlcs = m.outgoing_htlcs
  BY Zenon, <1>6, <1>11, <1>12, <1>13, <1>14
<1>16. n = m
  BY Zenon, <1>13, <1>14, <1>15, SameState
<1> QED
  BY Zenon, <1>16 DEF n, m

\* The pending updates are numbered in the order they came.
OrderInv == SMInv /\ Numbered(current, pending)

\* Another interleaving that the fold accepts gives the same state.
LEMMA InvOrder == OrderInv => OrderIrrelevant
<1> SUFFICES ASSUME OrderInv, NEW us \in Interleavings, ~Failed(LcssNext(current, us))
             PROVE  LcssNext(current, us) = NextNow
  BY Zenon DEF OrderIrrelevant
<1>1. /\ PendingSound(current, pending) /\ Gives(current, pending, Folded(current, pending))
      /\ Counted(pending) /\ Numbered(current, pending) /\ pending \in Seq(HostUpdate)
  BY Zenon DEF OrderInv, SMInv, PendingSound
<1>2. PICK f : Reorders(pending, us, f)
  BY Zenon, <1>1, InterleavedReorders DEF Interleavings
<1>3. us \in Seq(HostUpdate)
  <2>1. PICK S : us = Interleaved(pending, S)
    BY Zenon DEF Interleavings
  <2>2. \A i \in DOMAIN pending : us[i] \in HostUpdate
    BY <1>1, <1>2 DEF Reorders
  <2>3. us = [i \in DOMAIN pending |-> us[i]]
    BY Zenon, <2>1 DEF Interleaved
  <2>4. DOMAIN pending = 1 .. Len(pending) /\ Len(pending) \in Nat
    BY <1>1
  <2> QED
    BY <2>2, <2>3, <2>4
<1>4. ~Failed(Folded(current, us))
  BY Zenon DEF LcssNext
<1>5. PendingSound(current, us) /\ Gives(current, us, Folded(current, us)) /\ Counted(us)
  BY Zenon, <1>1, <1>2, <1>3, <1>4, ReorderedGives
<1> QED
  BY Zenon, <1>1, <1>2, <1>5, SameNext DEF NextNow

\* Nothing is numbered before an update is pushed, and after a commit or a clear.
LEMMA NoneNumbered ==
    ASSUME NEW st
    PROVE  Numbered(st, <<>>)
<1>1. DOMAIN <<>> = {}
  OBVIOUS
<1> QED
  BY Zenon, <1>1 DEF Numbered

\* A push numbers one more update; a commit and a clear leave none.
LEMMA NextNumbered == OrderInv /\ [Next]_smVars => Numbered(current, pending)'
<1> SUFFICES ASSUME OrderInv, [Next]_smVars PROVE Numbered(current', pending')
  BY Zenon
<1>1. SMInv /\ PendingSound(current, pending) /\ Numbered(current, pending)
  BY Zenon DEF OrderInv, SMInv
<1>2. CASE Push
  <2>1. PICK u \in Admitted : pending' = Append(pending, u) /\ current' = current
    BY Zenon, <1>2 DEF Push
  <2> QED
    BY Zenon, <1>1, <2>1, AdmittedPushable, PushNumbered
<1>3. CASE Commit
  BY Zenon, <1>3, NoneNumbered DEF Commit
<1>4. CASE ClearUncommitted
  BY Zenon, <1>4, NoneNumbered DEF ClearUncommitted
<1>5. CASE UNCHANGED smVars
  BY Zenon, <1>1, <1>5 DEF smVars
<1> QED
  BY Zenon, <1>2, <1>3, <1>4, <1>5 DEF Next

\* Host and client may see the updates of the two sides interleaved differently:
\* every interleaving that lcss_next accepts gives the state the host computes,
\* the order of the HTLCs in its lists included, so that both sign the same hash.
THEOREM OrdersAgree == Spec => []OrderIrrelevant
<1>1. Init => OrderInv
  BY InitSM, NoneNumbered DEF Init, OrderInv
<1>2. OrderInv /\ [Next]_smVars => OrderInv'
  BY Zenon, NextSM, NextNumbered DEF OrderInv
<1>3. OrderInv => OrderIrrelevant
  BY InvOrder
<1> QED
  BY <1>1, <1>2, <1>3, PTL DEF Spec
=============================================================================
