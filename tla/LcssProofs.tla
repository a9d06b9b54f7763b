------------------------------ MODULE LcssProofs ------------------------------
(***************************************************************************)
(* Lemmas about the operators of Lcss.tla: what the fold of a set of       *)
(* updates returns, and that it neither creates nor destroys funds.        *)
(*                                                                         *)
(* Balances and the msat in flight are sums of amounts (SumFunction of the *)
(* community module Functions), computed by a recursion that takes the     *)
(* elements in a fixed but unknown order.  The first lemmas say that the   *)
(* order does not matter.  They rest on an induction over the subsets of a *)
(* finite set, stated with a set of good subsets in place of a predicate   *)
(* so that the provers can instantiate it.                                 *)
(***************************************************************************)
EXTENDS Lcss, FiniteSetTheorems, TLAPS

-----------------------------------------------------------------------------
(* Induction over the subsets of a finite set                              *)

\* A set of sets that holds T whenever it holds T without any one of its
\* elements holds every finite set.
LEMMA FiniteInduction ==
    ASSUME NEW S, IsFiniteSet(S), NEW Good,
           \A T \in SUBSET S : (\A x \in T : T \ {x} \in Good) => T \in Good
    PROVE  S \in Good
<1> DEFINE Bad == {T \in SUBSET S : T \notin Good}
<1>1. SUFFICES ASSUME Bad # {} PROVE FALSE
  OBVIOUS
<1>2. Bad \subseteq FiniteSubsetsOf(S)
  BY Zenon, FS_Subset DEF FiniteSubsetsOf
<1>3. PICK T \in Bad : \A R \in Bad : ~(<<R, T>> \in StrictSubsetOrdering(S))
  <2> HIDE DEF Bad
  <2> QED
    BY <1>1, <1>2, FS_StrictSubsetOrderingWellFounded, WFMin, Zenon
<1>4. ASSUME NEW x \in T
      PROVE  T \ {x} \in Good
  <2>1. T \ {x} \in SUBSET S /\ T \in SUBSET S /\ T \ {x} # T
    OBVIOUS
  <2>2. <<T \ {x}, T>> \in StrictSubsetOrdering(S)
    BY Zenon, <2>1 DEF StrictSubsetOrdering
  <2> QED
    BY Zenon, <1>3, <2>1, <2>2
<1> QED
  BY Zenon, <1>3, <1>4

-----------------------------------------------------------------------------
(* The recursion                                                           *)

Pick(s) == CHOOSE x \in s : TRUE

\* g is what the recursion of SumFunctionOnSet computes for the subsets of S.
Sums(f, S, g) ==
    g = [s \in SUBSET S |-> IF s = {} THEN 0 ELSE f[Pick(s)] + g[s \ {Pick(s)}]]

LEMMA SumChosen ==
    ASSUME NEW f, NEW S
    PROVE  SumFunctionOnSet(f, S) = (CHOOSE g : Sums(f, S, g))[S]
BY Zenon DEF SumFunctionOnSet, FoldFunctionOnSet, MapThenFoldSet, Sums, Pick

LEMMA PickIn ==
    ASSUME NEW s, s # {}
    PROVE  Pick(s) \in s
BY Zenon DEF Pick

LEMMA SumsUnique ==
    ASSUME NEW f, NEW S, IsFiniteSet(S), NEW g, NEW h, Sums(f, S, g), Sums(f, S, h)
    PROVE  \A T \in SUBSET S : g[T] = h[T]
<1> DEFINE Good == {T \in SUBSET S : \A R \in SUBSET T : g[R] = h[R]}
<1>1. ASSUME NEW T \in SUBSET S, \A x \in T : T \ {x} \in Good
      PROVE  T \in Good
  <2>1. ASSUME NEW R \in SUBSET T, R # T
        PROVE  g[R] = h[R]
    <3>1. PICK x \in T : x \notin R
      BY Zenon, <2>1
    <3> QED
      BY Zenon, <1>1, <3>1
  <2>2. g[T] = h[T]
    <3>1. CASE T = {}
      BY Zenon, <3>1 DEF Sums
    <3>2. CASE T # {}
      <4>1. Pick(T) \in T
        BY Zenon, <3>2, PickIn
      <4>2. g[T \ {Pick(T)}] = h[T \ {Pick(T)}]
        BY Zenon, <2>1, <4>1
      <4> QED
        BY Zenon, <3>2, <4>2 DEF Sums
    <3> QED
      BY Zenon, <3>1, <3>2
  <2> QED
    BY Zenon, <2>1, <2>2
<1>2. S \in Good
  <2> HIDE DEF Good
  <2> QED
    BY Zenon, <1>1, FiniteInduction
<1> QED
  BY Zenon, <1>2

\* The sum of a non-empty set is that of one element and of the rest.
LEMMA SumPicked ==
    ASSUME NEW f, NEW S, IsFiniteSet(S)
    PROVE  SumFunctionOnSet(f, S) =
              IF S = {} THEN 0
              ELSE f[Pick(S)] + SumFunctionOnSet(f, S \ {Pick(S)})
<1> DEFINE Total(T) == SumFunctionOnSet(f, T)
           Step(T) == IF T = {} THEN 0 ELSE f[Pick(T)] + Total(T \ {Pick(T)})
           Good == {T \in SUBSET S : \A R \in SUBSET T : Total(R) = Step(R)}
<1>1. ASSUME NEW T \in SUBSET S, \A x \in T : T \ {x} \in Good
      PROVE  T \in Good
  <2>1. ASSUME NEW R \in SUBSET T, R # T
        PROVE  Total(R) = Step(R)
    <3>1. PICK x \in T : x \notin R
      BY Zenon, <2>1
    <3>2. T \ {x} \in Good /\ R \in SUBSET (T \ {x})
      BY Zenon, <1>1, <3>1
    <3> QED
      BY Zenon, <3>2
  <2> DEFINE g == [s \in SUBSET T |-> IF s = T THEN Step(T) ELSE Total(s)]
             c == CHOOSE k : Sums(f, T, k)
  <2>2. Sums(f, T, g)
    <3> SUFFICES ASSUME NEW s \in SUBSET T
                 PROVE  g[s] = IF s = {} THEN 0 ELSE f[Pick(s)] + g[s \ {Pick(s)}]
      BY Zenon DEF Sums
    <3>1. g[s] = Step(s)
      BY Zenon, <2>1
    <3>2. CASE s = {}
      BY Zenon, <3>1, <3>2
    <3>3. CASE s # {}
      <4>1. s \ {Pick(s)} # T /\ s \ {Pick(s)} \in SUBSET T
        BY Zenon, <3>3, PickIn
      <4>2. g[s \ {Pick(s)}] = Total(s \ {Pick(s)})
        BY Zenon, <4>1
      <4> HIDE DEF g, Total
      <4> QED
        BY Zenon, <3>1, <3>3, <4>2
    <3> QED
      BY Zenon, <3>2, <3>3
  <2>3. Sums(f, T, c)
    <3> HIDE DEF g
    <3> QED
      BY Zenon, <2>2
  <2>4. IsFiniteSet(T)
    BY Zenon, FS_Subset
  <2>5. \A R \in SUBSET T : g[R] = c[R]
    <3> HIDE DEF g, c
    <3> QED
      BY <2>2, <2>3, <2>4, SumsUnique
  <2>6. Total(T) = Step(T)
    BY Zenon, <2>5, SumChosen
  <2> QED
    BY Zenon, <2>1, <2>6
<1>2. S \in Good
  <2> HIDE DEF Good
  <2> QED
    BY Zenon, <1>1, FiniteInduction
<1> QED
  BY Zenon, <1>2

-----------------------------------------------------------------------------
(* What the sums satisfy                                                   *)

LEMMA SumEmpty ==
    ASSUME NEW f
    PROVE  SumFunctionOnSet(f, {}) = 0
BY Zenon, SumPicked, FS_EmptySet

LEMMA SumInt ==
    ASSUME NEW f, NEW S, IsFiniteSet(S), \A x \in S : f[x] \in Int
    PROVE  SumFunctionOnSet(f, S) \in Int
<1> DEFINE Good == {T \in SUBSET S : SumFunctionOnSet(f, T) \in Int}
<1>1. ASSUME NEW T \in SUBSET S, \A x \in T : T \ {x} \in Good
      PROVE  T \in Good
  <2>1. IsFiniteSet(T)
    BY Zenon, FS_Subset
  <2>2. CASE T = {}
    BY <2>2, SumEmpty
  <2>3. CASE T # {}
    <3>1. Pick(T) \in T
      BY Zenon, <2>3, PickIn
    <3>2. f[Pick(T)] \in Int /\ SumFunctionOnSet(f, T \ {Pick(T)}) \in Int
      BY Zenon, <1>1, <3>1
    <3>3. SumFunctionOnSet(f, T) = f[Pick(T)] + SumFunctionOnSet(f, T \ {Pick(T)})
      BY Zenon, <2>1, <2>3, SumPicked
    <3> QED
      BY <3>2, <3>3
  <2> QED
    BY Zenon, <2>2, <2>3
<1>2. S \in Good
  <2> HIDE DEF Good
  <2> QED
    BY Zenon, <1>1, FiniteInduction
<1> QED
  BY Zenon, <1>2

\* A sum of values that are not negative is not negative.
LEMMA SumNat ==
    ASSUME NEW f, NEW S, IsFiniteSet(S), \A x \in S : f[x] \in Nat
    PROVE  SumFunctionOnSet(f, S) \in Nat
<1> DEFINE Good == {T \in SUBSET S : SumFunctionOnSet(f, T) \in Nat}
<1>1. ASSUME NEW T \in SUBSET S, \A x \in T : T \ {x} \in Good
      PROVE  T \in Good
  <2>1. IsFiniteSet(T)
    BY Zenon, FS_Subset
  <2>2. CASE T = {}
    BY <2>2, SumEmpty
  <2>3. CASE T # {}
    <3>1. Pick(T) \in T
      BY Zenon, <2>3, PickIn
    <3>2. f[Pick(T)] \in Nat /\ SumFunctionOnSet(f, T \ {Pick(T)}) \in Nat
      BY Zenon, <1>1, <3>1
    <3>3. SumFunctionOnSet(f, T) = f[Pick(T)] + SumFunctionOnSet(f, T \ {Pick(T)})
      BY Zenon, <2>1, <2>3, SumPicked
    <3> QED
      BY <3>2, <3>3
  <2> QED
    BY Zenon, <2>2, <2>3
<1>2. S \in Good
  <2> HIDE DEF Good
  <2> QED
    BY Zenon, <1>1, FiniteInduction
<1> QED
  BY Zenon, <1>2

\* Any element may be taken first.
LEMMA SumRemove ==
    ASSUME NEW f, NEW S, IsFiniteSet(S), \A x \in S : f[x] \in Int
    PROVE  \A x \in S : SumFunctionOnSet(f, S) = f[x] + SumFunctionOnSet(f, S \ {x})
<1> DEFINE Total(T) == SumFunctionOnSet(f, T)
           Good == {T \in SUBSET S : \A x \in T : Total(T) = f[x] + Total(T \ {x})}
<1>0. \A T \in SUBSET S : Total(T) \in Int
  BY Zenon, FS_Subset, SumInt
<1>1. ASSUME NEW T \in SUBSET S, \A x \in T : T \ {x} \in Good
      PROVE  T \in Good
  <2>1. SUFFICES ASSUME NEW x \in T
                 PROVE  Total(T) = f[x] + Total(T \ {x})
    BY Zenon
  <2> DEFINE p == Pick(T)
  <2>2. p \in T /\ Total(T) = f[p] + Total(T \ {p})
    BY Zenon, <2>1, PickIn, FS_Subset, SumPicked
  <2> HIDE DEF p, Total
  <2>3. CASE x # p
    <3> DEFINE rest == Total((T \ {p}) \ {x})
    <3>1. Total(T \ {p}) = f[x] + rest
      BY Zenon, <1>1, <2>2, <2>3
    <3>2. Total(T \ {x}) = f[p] + Total((T \ {x}) \ {p})
      BY Zenon, <1>1, <2>2, <2>3
    <3>3. (T \ {p}) \ {x} = (T \ {x}) \ {p}
      OBVIOUS
    <3>4. Total(T \ {x}) = f[p] + rest
      BY Zenon, <3>2, <3>3
    <3>5. rest \in Int /\ f[x] \in Int /\ f[p] \in Int
      BY Zenon, <1>0, <2>2
    <3> HIDE DEF rest
    <3> QED
      BY <2>2, <3>1, <3>4, <3>5
  <2> QED
    BY Zenon, <2>2, <2>3
<1>2. S \in Good
  <2> HIDE DEF Good
  <2> QED
    BY Zenon, <1>1, FiniteInduction
<1> QED
  BY Zenon, <1>2

\* One more element adds its value.
LEMMA SumAdd ==
    ASSUME NEW f, NEW S, IsFiniteSet(S), NEW x, x \notin S, \A y \in S \cup {x} : f[y] \in Int
    PROVE  SumFunctionOnSet(f, S \cup {x}) = SumFunctionOnSet(f, S) + f[x]
<1>1. IsFiniteSet(S \cup {x}) /\ (S \cup {x}) \ {x} = S
  BY Zenon, FS_AddElement
<1>2. SumFunctionOnSet(f, S) \in Int /\ f[x] \in Int
  BY Zenon, SumInt
<1>3. SumFunctionOnSet(f, S \cup {x}) = f[x] + SumFunctionOnSet(f, (S \cup {x}) \ {x})
  BY <1>1, SumRemove
<1>4. SumFunctionOnSet(f, S \cup {x}) = f[x] + SumFunctionOnSet(f, S)
  BY Zenon, <1>1, <1>3
<1> QED
  BY <1>2, <1>4

\* The sum depends on the values on the set only.
LEMMA SumEqual ==
    ASSUME NEW f, NEW g, NEW S, IsFiniteSet(S), \A x \in S : f[x] = g[x]
    PROVE  SumFunctionOnSet(f, S) = SumFunctionOnSet(g, S)
<1> DEFINE Good == {T \in SUBSET S : SumFunctionOnSet(f, T) = SumFunctionOnSet(g, T)}
<1>1. ASSUME NEW T \in SUBSET S, \A x \in T : T \ {x} \in Good
      PROVE  T \in Good
  <2>1. IsFiniteSet(T)
    BY Zenon, FS_Subset
  <2>2. CASE T = {}
    BY Zenon, <2>2, SumEmpty
  <2>3. CASE T # {}
    <3>1. Pick(T) \in T
      BY Zenon, <2>3, PickIn
    <3>2. SumFunctionOnSet(f, T \ {Pick(T)}) = SumFunctionOnSet(g, T \ {Pick(T)})
      BY Zenon, <1>1, <3>1
    <3>3. f[Pick(T)] = g[Pick(T)]
      BY Zenon, <3>1
    <3>4. \A k : SumFunctionOnSet(k, T) = k[Pick(T)] + SumFunctionOnSet(k, T \ {Pick(T)})
      BY Zenon, <2>1, <2>3, SumPicked
    <3>5. SumFunctionOnSet(f, T) = SumFunctionOnSet(g, T)
      BY Zenon, <3>2, <3>3, <3>4
    <3> QED
      BY Zenon, <3>5
  <2> QED
    BY Zenon, <2>2, <2>3
<1>2. S \in Good
  <2> HIDE DEF Good
  <2> QED
    BY Zenon, <1>1, FiniteInduction
<1> QED
  BY Zenon, <1>2

-----------------------------------------------------------------------------
(* Types                                                                   *)

LcssType == [local_updates : Nat, remote_updates : Nat,
             incoming_htlcs : SUBSET Payments, outgoing_htlcs : SUBSET Outgoing]

FiniteLcss == {l \in LcssType : IsFiniteSet(l.incoming_htlcs) /\ IsFiniteSet(l.outgoing_htlcs)}

FiniteUpdates == {U \in SUBSET Update : IsFiniteSet(U)}

Balances == [local : Int, remote : Int]

\* The HTLCs a finite set of updates adds are finitely many.
LEMMA FiniteHtlcs ==
    ASSUME NEW U \in FiniteUpdates, NEW side, NEW kind
    PROVE  IsFiniteSet(HtlcsOf(U, side, kind))
<1> DEFINE S == {x \in U : x.side = side /\ x.kind = kind}
           f == [x \in S |-> x.htlc]
<1>1. IsFiniteSet(S)
  BY Zenon, FS_Subset DEF FiniteUpdates
<1>2. f \in Surjection(S, HtlcsOf(U, side, kind))
  BY Zenon DEF Surjection, HtlcsOf
<1> QED
  BY Zenon, <1>1, <1>2, FS_Surjection

LEMMA AddsType ==
    ASSUME NEW U \in FiniteUpdates
    PROVE  /\ RemoteAdds(U) \subseteq Payments /\ IsFiniteSet(RemoteAdds(U))
           /\ LocalAdds(U) \subseteq Outgoing /\ IsFiniteSet(LocalAdds(U))
<1>1. RemoteAdds(U) \subseteq Payments /\ LocalAdds(U) \subseteq Outgoing
  BY Zenon DEF FiniteUpdates, Update, RemoteAdds, LocalAdds, HtlcsOf
<1> QED
  BY Zenon, <1>1, FiniteHtlcs DEF RemoteAdds, LocalAdds

LEMMA CountsType ==
    ASSUME NEW U \in FiniteUpdates
    PROVE  /\ Cardinality({u \in U : u.side = "local"}) \in Nat
           /\ Cardinality({u \in U : u.side = "remote"}) \in Nat
<1>1. /\ IsFiniteSet({u \in U : u.side = "local"})
      /\ IsFiniteSet({u \in U : u.side = "remote"})
  BY Zenon, FS_Subset DEF FiniteUpdates
<1> QED
  BY Zenon, <1>1, FS_CardinalityType

\* The fold of finitely many updates of the right shape is a state.
LEMMA NextLcssType ==
    ASSUME NEW l \in FiniteLcss, NEW U \in FiniteUpdates
    PROVE  NextLcss(l, U) \in FiniteLcss
<1>1. /\ IsFiniteSet(l.incoming_htlcs \cup RemoteAdds(U))
      /\ IsFiniteSet(l.outgoing_htlcs \cup LocalAdds(U))
  BY Zenon, AddsType, FS_Union DEF FiniteLcss
<1>2. /\ IsFiniteSet({p \in l.incoming_htlcs \cup RemoteAdds(U) : ~LocalResolved(U, p)})
      /\ IsFiniteSet({h \in l.outgoing_htlcs \cup LocalAdds(U) : ~RemoteResolved(U, h)})
  BY Zenon, <1>1, FS_Subset
<1>3. l \in LcssType /\ RemoteAdds(U) \subseteq Payments /\ LocalAdds(U) \subseteq Outgoing
  BY Zenon, AddsType DEF FiniteLcss
<1>4. NextLcss(l, U) \in LcssType
  <2>1. /\ Cardinality({u \in U : u.side = "local"}) \in Nat
        /\ Cardinality({u \in U : u.side = "remote"}) \in Nat
    BY Zenon, CountsType
  <2> QED
    BY <1>3, <2>1 DEF NextLcss, LcssType
<1> QED
  BY Zenon, <1>2, <1>4 DEF NextLcss, FiniteLcss

\* Adding one update to a finite set of them.
LEMMA AddUpdate ==
    ASSUME NEW U \in FiniteUpdates, NEW u \in Update
    PROVE  U \cup {u} \in FiniteUpdates
BY Zenon, FS_AddElement DEF FiniteUpdates

LEMMA UpdateShapes ==
    /\ \A h \in Outgoing : LocalAdd(h) \in Update /\ RemoteFulfill(h) \in Update
                           /\ RemoteFail(h) \in Update
    /\ \A p \in Payments : RemoteAdd(p) \in Update /\ LocalFulfill(p) \in Update
                           /\ LocalFail(p) \in Update
BY Zenon DEF Update, LocalAdd, RemoteFulfill, RemoteFail, RemoteAdd, LocalFulfill, LocalFail

\* Every update is one of the six.
LEMMA UpdateCases ==
    ASSUME NEW u \in Update
    PROVE  \/ \E h \in Outgoing : u \in {LocalAdd(h), RemoteFulfill(h), RemoteFail(h)}
           \/ \E p \in Payments : u \in {RemoteAdd(p), LocalFulfill(p), LocalFail(p)}
BY Zenon DEF Update, LocalAdd, RemoteFulfill, RemoteFail, RemoteAdd, LocalFulfill, LocalFail

-----------------------------------------------------------------------------
(* Conservation of funds                                                   *)

\* The updates U apply to l: they add HTLCs that are not in flight, resolve HTLCs
\* that are, and none in two ways.
Applicable(l, U) ==
    /\ LocalAdds(U) \cap l.outgoing_htlcs = {}
    /\ HtlcsOf(U, "remote", "fulfill") \cup HtlcsOf(U, "remote", "fail") \subseteq l.outgoing_htlcs
    /\ HtlcsOf(U, "remote", "fulfill") \cap HtlcsOf(U, "remote", "fail") = {}
    /\ RemoteAdds(U) \cap l.incoming_htlcs = {}
    /\ HtlcsOf(U, "local", "fulfill") \cup HtlcsOf(U, "local", "fail") \subseteq l.incoming_htlcs
    /\ HtlcsOf(U, "local", "fulfill") \cap HtlcsOf(U, "local", "fail") = {}

Total(l, b) == b.local + b.remote + InFlight(l)

LEMMA HtlcsOfMember ==
    ASSUME NEW U \in SUBSET Update, NEW h
    PROVE  /\ h \in LocalAdds(U) <=> LocalAdd(h) \in U
           /\ h \in HtlcsOf(U, "remote", "fulfill") <=> RemoteFulfill(h) \in U
           /\ h \in HtlcsOf(U, "remote", "fail") <=> RemoteFail(h) \in U
           /\ h \in RemoteAdds(U) <=> RemoteAdd(h) \in U
           /\ h \in HtlcsOf(U, "local", "fulfill") <=> LocalFulfill(h) \in U
           /\ h \in HtlcsOf(U, "local", "fail") <=> LocalFail(h) \in U
<1>1. ASSUME NEW side, NEW kind
      PROVE  h \in HtlcsOf(U, side, kind) <=> [side |-> side, kind |-> kind, htlc |-> h] \in U
  <2>1. ASSUME NEW x \in U, x.side = side, x.kind = kind, x.htlc = h
        PROVE  x = [side |-> side, kind |-> kind, htlc |-> h]
    BY Zenon, <2>1 DEF Update
  <2> QED
    BY <2>1 DEF HtlcsOf
<1> QED
  BY Zenon, <1>1 DEF LocalAdds, RemoteAdds, LocalAdd, RemoteFulfill, RemoteFail, RemoteAdd,
              LocalFulfill, LocalFail

\* The HTLCs in flight after the updates U.
LEMMA NextHtlcs ==
    ASSUME NEW l, NEW U \in SUBSET Update
    PROVE  /\ NextLcss(l, U).incoming_htlcs
                 = (l.incoming_htlcs \cup RemoteAdds(U))
                      \ (HtlcsOf(U, "local", "fulfill") \cup HtlcsOf(U, "local", "fail"))
           /\ NextLcss(l, U).outgoing_htlcs
                 = (l.outgoing_htlcs \cup LocalAdds(U))
                      \ (HtlcsOf(U, "remote", "fulfill") \cup HtlcsOf(U, "remote", "fail"))
BY Zenon, HtlcsOfMember DEF NextLcss, LocalResolved, RemoteResolved

\* One more update adds its HTLC to those of its side and kind, and to no others.
LEMMA HtlcsOfUnion ==
    ASSUME NEW U, NEW u, NEW side, NEW kind
    PROVE  HtlcsOf(U \cup {u}, side, kind)
              = IF u.side = side /\ u.kind = kind
                THEN HtlcsOf(U, side, kind) \cup {u.htlc} ELSE HtlcsOf(U, side, kind)
<1>1. CASE u.side = side /\ u.kind = kind
  BY Zenon, <1>1 DEF HtlcsOf
<1>2. CASE ~(u.side = side /\ u.kind = kind)
  BY Zenon, <1>2 DEF HtlcsOf
<1> QED
  BY Zenon, <1>1, <1>2

LEMMA AddsOfUnion ==
    ASSUME NEW U, NEW h
    PROVE  /\ LocalAdds(U \cup {LocalAdd(h)}) = LocalAdds(U) \cup {h}
           /\ RemoteAdds(U \cup {RemoteAdd(h)}) = RemoteAdds(U) \cup {h}
<1>1. /\ LocalAdd(h).side = "local" /\ LocalAdd(h).kind = "add" /\ LocalAdd(h).htlc = h
      /\ RemoteAdd(h).side = "remote" /\ RemoteAdd(h).kind = "add" /\ RemoteAdd(h).htlc = h
  BY Zenon DEF LocalAdd, RemoteAdd
<1>2. ASSUME NEW u, NEW side, NEW kind, u.side = side, u.kind = kind
      PROVE  HtlcsOf(U \cup {u}, side, kind) = HtlcsOf(U, side, kind) \cup {u.htlc}
  BY Zenon, <1>2, HtlcsOfUnion
<1>3. /\ HtlcsOf(U \cup {LocalAdd(h)}, "local", "add") = HtlcsOf(U, "local", "add") \cup {h}
      /\ HtlcsOf(U \cup {RemoteAdd(h)}, "remote", "add") = HtlcsOf(U, "remote", "add") \cup {h}
  BY <1>1, <1>2
<1> QED
  BY Zenon, <1>3 DEF LocalAdds, RemoteAdds

\* What the six updates move.
LEMMA Gains ==
    /\ \A h : /\ LocalGain(LocalAdd(h)) = -Amount[h.pay] /\ RemoteGain(LocalAdd(h)) = 0
             /\ LocalGain(RemoteFulfill(h)) = 0 /\ RemoteGain(RemoteFulfill(h)) = Amount[h.pay]
             /\ LocalGain(RemoteFail(h)) = Amount[h.pay] /\ RemoteGain(RemoteFail(h)) = 0
    /\ \A p : /\ LocalGain(RemoteAdd(p)) = 0 /\ RemoteGain(RemoteAdd(p)) = -Amount[p]
             /\ LocalGain(LocalFulfill(p)) = Amount[p] /\ RemoteGain(LocalFulfill(p)) = 0
             /\ LocalGain(LocalFail(p)) = 0 /\ RemoteGain(LocalFail(p)) = Amount[p]
BY Zenon DEF LocalGain, RemoteGain, LocalAdd, RemoteFulfill, RemoteFail, RemoteAdd,
             LocalFulfill, LocalFail

LEMMA AmountType ==
    /\ \A h \in Outgoing : Amount[h.pay] \in Nat
    /\ \A p \in Payments : Amount[p] \in Nat
BY Zenon, AmountAssumption DEF Outgoing

LEMMA GainType ==
    ASSUME NEW u \in Update
    PROVE  LocalGain(u) \in Int /\ RemoteGain(u) \in Int
<1>1. ASSUME NEW h \in Outgoing, u \in {LocalAdd(h), RemoteFulfill(h), RemoteFail(h)}
      PROVE  LocalGain(u) \in Int /\ RemoteGain(u) \in Int
  BY <1>1, AmountType, Gains
<1>2. ASSUME NEW p \in Payments, u \in {RemoteAdd(p), LocalFulfill(p), LocalFail(p)}
      PROVE  LocalGain(u) \in Int /\ RemoteGain(u) \in Int
  BY <1>2, AmountType, Gains
<1> QED
  BY Zenon, <1>1, <1>2, UpdateCases

\* One more update adds its gains to the balances.
LEMMA NextBalanceAdd ==
    ASSUME NEW b \in Balances, NEW U \in FiniteUpdates, NEW u \in Update, u \notin U
    PROVE  /\ NextBalance(b, U) \in Balances
           /\ NextBalance(b, U \cup {u}).local = NextBalance(b, U).local + LocalGain(u)
           /\ NextBalance(b, U \cup {u}).remote = NextBalance(b, U).remote + RemoteGain(u)
<1> DEFINE V == U \cup {u}
           fl(W) == [x \in W |-> LocalGain(x)]
           fr(W) == [x \in W |-> RemoteGain(x)]
<1>1. IsFiniteSet(U) /\ U \subseteq Update /\ V \subseteq Update
  BY Zenon DEF FiniteUpdates
<1>2. /\ \A x \in V : fl(V)[x] \in Int /\ fr(V)[x] \in Int
      /\ \A x \in U : fl(U)[x] \in Int /\ fr(U)[x] \in Int
      /\ \A x \in U : fl(U)[x] = fl(V)[x] /\ fr(U)[x] = fr(V)[x]
      /\ fl(V)[u] = LocalGain(u) /\ fr(V)[u] = RemoteGain(u)
  BY Zenon, <1>1, GainType
<1>3. /\ \A W : SumFunction(fl(W)) = SumFunctionOnSet(fl(W), W)
      /\ \A W : SumFunction(fr(W)) = SumFunctionOnSet(fr(W), W)
  BY Zenon DEF SumFunction
<1>4. /\ NextBalance(b, U) = [local |-> b.local + SumFunctionOnSet(fl(U), U),
                              remote |-> b.remote + SumFunctionOnSet(fr(U), U)]
      /\ NextBalance(b, V) = [local |-> b.local + SumFunctionOnSet(fl(V), V),
                              remote |-> b.remote + SumFunctionOnSet(fr(V), V)]
  BY Zenon, <1>3 DEF NextBalance
<1> HIDE DEF fl, fr
<1>5. /\ SumFunctionOnSet(fl(U), U) \in Int /\ SumFunctionOnSet(fr(U), U) \in Int
      /\ SumFunctionOnSet(fl(U), U) = SumFunctionOnSet(fl(V), U)
      /\ SumFunctionOnSet(fr(U), U) = SumFunctionOnSet(fr(V), U)
  BY Zenon, <1>1, <1>2, SumInt, SumEqual
<1>6. /\ SumFunctionOnSet(fl(V), V) = SumFunctionOnSet(fl(V), U) + fl(V)[u]
      /\ SumFunctionOnSet(fr(V), V) = SumFunctionOnSet(fr(V), U) + fr(V)[u]
  BY Zenon, <1>1, <1>2, SumAdd
<1> HIDE DEF V
<1>7. /\ NextBalance(b, U) \in Balances
      /\ NextBalance(b, V).local = NextBalance(b, U).local + LocalGain(u)
      /\ NextBalance(b, V).remote = NextBalance(b, U).remote + RemoteGain(u)
  BY <1>2, <1>4, <1>5, <1>6, GainType DEF Balances
<1> QED
  BY Zenon, <1>7 DEF V

LEMMA NextBalanceEmpty ==
    ASSUME NEW b \in Balances
    PROVE  NextBalance(b, {}) = b
<1>1. SumFunction([x \in {} |-> LocalGain(x)]) = 0 /\ SumFunction([x \in {} |-> RemoteGain(x)]) = 0
  BY Zenon, SumEmpty DEF SumFunction
<1> QED
  BY <1>1 DEF NextBalance, Balances

\* An HTLC that comes into flight, or leaves it.
LEMMA InFlightStep ==
    ASSUME NEW l \in FiniteLcss, NEW m \in FiniteLcss
    PROVE  /\ InFlight(l) \in Nat
           /\ \A p \in Payments \ l.incoming_htlcs :
                 m.incoming_htlcs = l.incoming_htlcs \cup {p} /\ m.outgoing_htlcs = l.outgoing_htlcs
                 => InFlight(m) = InFlight(l) + Amount[p]
           /\ \A h \in Outgoing \ l.outgoing_htlcs :
                 m.incoming_htlcs = l.incoming_htlcs /\ m.outgoing_htlcs = l.outgoing_htlcs \cup {h}
                 => InFlight(m) = InFlight(l) + Amount[h.pay]
<1> DEFINE f(S) == [h \in S |-> Amount[h.pay]]
           inc == l.incoming_htlcs
           out == l.outgoing_htlcs
           In(S) == SumFunctionOnSet(Amount, S)
           Out(S) == SumFunctionOnSet(f(S), S)
<1>1. \A k : InFlight(k) = In(k.incoming_htlcs) + Out(k.outgoing_htlcs)
  BY Zenon DEF InFlight, SumFunction
<1>2. /\ IsFiniteSet(inc) /\ inc \subseteq Payments
      /\ IsFiniteSet(out) /\ out \subseteq Outgoing
  BY Zenon DEF FiniteLcss, LcssType
<1>3. /\ \A x \in inc : Amount[x] \in Nat
      /\ \A S \in SUBSET Outgoing : \A x \in S : f(S)[x] \in Nat /\ f(S)[x] = Amount[x.pay]
  BY Zenon, <1>2, AmountType
<1> HIDE DEF f, inc, out
<1>4. In(inc) \in Nat /\ Out(out) \in Nat
  BY Zenon, <1>2, <1>3, SumNat
<1>5. ASSUME NEW p \in Payments \ inc
      PROVE  In(inc \cup {p}) = In(inc) + Amount[p] /\ Amount[p] \in Nat
  BY <1>2, <1>3, AmountType, SumAdd
<1>6. ASSUME NEW h \in Outgoing \ out
      PROVE  Out(out \cup {h}) = Out(out) + Amount[h.pay] /\ Amount[h.pay] \in Nat
  <2> DEFINE S == out \cup {h}
  <2>1. S \in SUBSET Outgoing /\ out \in SUBSET Outgoing /\ h \in S
    BY Zenon, <1>2
  <2>2. \A x \in S : f(S)[x] \in Int
    BY <1>3, <2>1
  <2>3. \A x \in out : f(S)[x] = f(out)[x]
    BY Zenon, <1>3, <2>1
  <2>4. f(S)[h] = Amount[h.pay] /\ Amount[h.pay] \in Nat
    BY Zenon, <1>3, <2>1, AmountType
  <2>5. SumFunctionOnSet(f(S), S) = SumFunctionOnSet(f(S), out) + f(S)[h]
    BY Zenon, <1>2, <2>2, SumAdd
  <2>6. SumFunctionOnSet(f(S), out) = SumFunctionOnSet(f(out), out)
    BY Zenon, <1>2, <2>3, SumEqual
  <2> QED
    BY Zenon, <2>4, <2>5, <2>6
<1> HIDE DEF In, Out
<1> QED
  BY <1>1, <1>4, <1>5, <1>6 DEF inc, out

LEMMA InFlightEmpty ==
    ASSUME NEW l, l.incoming_htlcs = {}, l.outgoing_htlcs = {}
    PROVE  InFlight(l) = 0
<1>1. SumFunction([h \in {} |-> Amount[h.pay]]) = 0
  BY Zenon, SumEmpty DEF SumFunction
<1> QED
  BY <1>1, SumEmpty DEF InFlight

\* The update added last does not change the total.
LEMMA UpdateConserves ==
    ASSUME NEW l \in FiniteLcss, NEW b \in Balances, NEW U \in FiniteUpdates,
           NEW u \in Update, u \notin U, Applicable(l, U \cup {u})
    PROVE  Total(NextLcss(l, U \cup {u}), NextBalance(b, U \cup {u}))
              = Total(NextLcss(l, U), NextBalance(b, U))
<1> DEFINE V == U \cup {u}
           k == NextLcss(l, U)
           m == NextLcss(l, V)
           a == NextBalance(b, U)
           c == NextBalance(b, V)
<1>1. V \in FiniteUpdates /\ U \subseteq Update /\ V \subseteq Update
  BY Zenon, AddUpdate DEF FiniteUpdates
<1>2. k \in FiniteLcss /\ m \in FiniteLcss
  BY Zenon, <1>1, NextLcssType
<1>3. /\ a \in Balances /\ c.local = a.local + LocalGain(u) /\ c.remote = a.remote + RemoteGain(u)
  BY Zenon, NextBalanceAdd
<1>4. /\ k.incoming_htlcs = (l.incoming_htlcs \cup RemoteAdds(U))
                               \ (HtlcsOf(U, "local", "fulfill") \cup HtlcsOf(U, "local", "fail"))
      /\ k.outgoing_htlcs = (l.outgoing_htlcs \cup LocalAdds(U))
                               \ (HtlcsOf(U, "remote", "fulfill") \cup HtlcsOf(U, "remote", "fail"))
      /\ m.incoming_htlcs = (l.incoming_htlcs \cup RemoteAdds(V))
                               \ (HtlcsOf(V, "local", "fulfill") \cup HtlcsOf(V, "local", "fail"))
      /\ m.outgoing_htlcs = (l.outgoing_htlcs \cup LocalAdds(V))
                               \ (HtlcsOf(V, "remote", "fulfill") \cup HtlcsOf(V, "remote", "fail"))
  BY Zenon, <1>1, NextHtlcs
<1>5. InFlight(k) \in Nat /\ InFlight(m) \in Nat
  BY Zenon, <1>2, InFlightStep
<1>0. /\ Applicable(l, V)
      /\ \A side, kind : HtlcsOf(V, side, kind)
            = IF u.side = side /\ u.kind = kind
              THEN HtlcsOf(U, side, kind) \cup {u.htlc} ELSE HtlcsOf(U, side, kind)
  <2> HIDE DEF k, m, a, c
  <2>1. ASSUME NEW side, NEW kind
        PROVE  HtlcsOf(V, side, kind)
                  = IF u.side = side /\ u.kind = kind
                    THEN HtlcsOf(U, side, kind) \cup {u.htlc} ELSE HtlcsOf(U, side, kind)
    <3>1. CASE u.side = side /\ u.kind = kind
      BY Zenon, <3>1 DEF HtlcsOf
    <3>2. CASE ~(u.side = side /\ u.kind = kind)
      BY Zenon, <3>2 DEF HtlcsOf
    <3> QED
      BY Zenon, <3>1, <3>2
  <2> QED
    BY Zenon, <2>1
<1> HIDE DEF V, k, m, a, c
<1>6. ASSUME NEW h \in Outgoing, u = LocalAdd(h)
      PROVE  Total(m, c) = Total(k, a)
  <2>1. /\ m.incoming_htlcs = k.incoming_htlcs /\ h \notin k.outgoing_htlcs
        /\ m.outgoing_htlcs = k.outgoing_htlcs \cup {h}
    <3>1. /\ LocalAdds(V) = LocalAdds(U) \cup {h}
          /\ HtlcsOf(V, "remote", "fulfill") = HtlcsOf(U, "remote", "fulfill")
          /\ HtlcsOf(V, "remote", "fail") = HtlcsOf(U, "remote", "fail")
          /\ RemoteAdds(V) = RemoteAdds(U)
          /\ HtlcsOf(V, "local", "fulfill") = HtlcsOf(U, "local", "fulfill")
          /\ HtlcsOf(V, "local", "fail") = HtlcsOf(U, "local", "fail")
      BY Zenon, <1>0, <1>6 DEF LocalAdd, LocalAdds, RemoteAdds
    <3>2. h \notin LocalAdds(U)
      BY Zenon, <1>1, <1>6, HtlcsOfMember
    <3> QED
      BY Zenon, <1>0, <1>4, <3>1, <3>2 DEF Applicable
  <2>2. InFlight(m) = InFlight(k) + Amount[h.pay]
    BY <1>2, <2>1, InFlightStep
  <2> QED
    BY <1>3, <1>5, <1>6, <2>2, Gains, AmountType DEF Total, Balances
<1>7. ASSUME NEW h \in Outgoing, u = RemoteFulfill(h)
      PROVE  Total(m, c) = Total(k, a)
  <2>1. /\ m.incoming_htlcs = k.incoming_htlcs /\ h \notin m.outgoing_htlcs
        /\ k.outgoing_htlcs = m.outgoing_htlcs \cup {h}
    <3>1. /\ LocalAdds(V) = LocalAdds(U)
          /\ HtlcsOf(V, "remote", "fulfill") = HtlcsOf(U, "remote", "fulfill") \cup {h}
          /\ HtlcsOf(V, "remote", "fail") = HtlcsOf(U, "remote", "fail")
          /\ RemoteAdds(V) = RemoteAdds(U)
          /\ HtlcsOf(V, "local", "fulfill") = HtlcsOf(U, "local", "fulfill")
          /\ HtlcsOf(V, "local", "fail") = HtlcsOf(U, "local", "fail")
      BY Zenon, <1>0, <1>7 DEF RemoteFulfill, LocalAdds, RemoteAdds
    <3>2. h \notin HtlcsOf(U, "remote", "fulfill")
      BY Zenon, <1>1, <1>7, HtlcsOfMember
    <3> QED
      BY <1>0, <1>4, <3>1, <3>2 DEF Applicable
  <2>2. InFlight(k) = InFlight(m) + Amount[h.pay]
    BY <1>2, <2>1, InFlightStep
  <2> QED
    BY <1>3, <1>5, <1>7, <2>2, Gains, AmountType DEF Total, Balances
<1>8. ASSUME NEW h \in Outgoing, u = RemoteFail(h)
      PROVE  Total(m, c) = Total(k, a)
  <2>1. /\ m.incoming_htlcs = k.incoming_htlcs /\ h \notin m.outgoing_htlcs
        /\ k.outgoing_htlcs = m.outgoing_htlcs \cup {h}
    <3>1. /\ LocalAdds(V) = LocalAdds(U)
          /\ HtlcsOf(V, "remote", "fulfill") = HtlcsOf(U, "remote", "fulfill")
          /\ HtlcsOf(V, "remote", "fail") = HtlcsOf(U, "remote", "fail") \cup {h}
          /\ RemoteAdds(V) = RemoteAdds(U)
          /\ HtlcsOf(V, "local", "fulfill") = HtlcsOf(U, "local", "fulfill")
          /\ HtlcsOf(V, "local", "fail") = HtlcsOf(U, "local", "fail")
      BY Zenon, <1>0, <1>8 DEF RemoteFail, LocalAdds, RemoteAdds
    <3>2. h \notin HtlcsOf(U, "remote", "fail")
      BY Zenon, <1>1, <1>8, HtlcsOfMember
    <3> QED
      BY <1>0, <1>4, <3>1, <3>2 DEF Applicable
  <2>2. InFlight(k) = InFlight(m) + Amount[h.pay]
    BY <1>2, <2>1, InFlightStep
  <2> QED
    BY <1>3, <1>5, <1>8, <2>2, Gains, AmountType DEF Total, Balances
<1>9. ASSUME NEW p \in Payments, u = RemoteAdd(p)
      PROVE  Total(m, c) = Total(k, a)
  <2>1. /\ m.outgoing_htlcs = k.outgoing_htlcs /\ p \notin k.incoming_htlcs
        /\ m.incoming_htlcs = k.incoming_htlcs \cup {p}
    <3>1. /\ LocalAdds(V) = LocalAdds(U)
          /\ HtlcsOf(V, "remote", "fulfill") = HtlcsOf(U, "remote", "fulfill")
          /\ HtlcsOf(V, "remote", "fail") = HtlcsOf(U, "remote", "fail")
          /\ RemoteAdds(V) = RemoteAdds(U) \cup {p}
          /\ HtlcsOf(V, "local", "fulfill") = HtlcsOf(U, "local", "fulfill")
          /\ HtlcsOf(V, "local", "fail") = HtlcsOf(U, "local", "fail")
      BY Zenon, <1>0, <1>9 DEF RemoteAdd, LocalAdds, RemoteAdds
    <3>2. p \notin RemoteAdds(U)
      BY Zenon, <1>1, <1>9, HtlcsOfMember
    <3> QED
      BY Zenon, <1>0, <1>4, <3>1, <3>2 DEF Applicable
  <2>2. InFlight(m) = InFlight(k) + Amount[p]
    BY <1>2, <2>1, InFlightStep
  <2> QED
    BY <1>3, <1>5, <1>9, <2>2, Gains, AmountType DEF Total, Balances
<1>10. ASSUME NEW p \in Payments, u = LocalFulfill(p)
      PROVE  Total(m, c) = Total(k, a)
  <2>1. /\ m.outgoing_htlcs = k.outgoing_htlcs /\ p \notin m.incoming_htlcs
        /\ k.incoming_htlcs = m.incoming_htlcs \cup {p}
    <3>1. /\ LocalAdds(V) = LocalAdds(U)
          /\ HtlcsOf(V, "remote", "fulfill") = HtlcsOf(U, "remote", "fulfill")
          /\ HtlcsOf(V, "remote", "fail") = HtlcsOf(U, "remote", "fail")
          /\ RemoteAdds(V) = RemoteAdds(U)
          /\ HtlcsOf(V, "local", "fulfill") = HtlcsOf(U, "local", "fulfill") \cup {p}
          /\ HtlcsOf(V, "local", "fail") = HtlcsOf(U, "local", "fail")
      BY Zenon, <1>0, <1>10 DEF LocalFulfill, LocalAdds, RemoteAdds
    <3>2. p \notin HtlcsOf(U, "local", "fulfill")
      BY Zenon, <1>1, <1>10, HtlcsOfMember
    <3> QED
      BY <1>0, <1>4, <3>1, <3>2 DEF Applicable
  <2>2. InFlight(k) = InFlight(m) + Amount[p]
    BY <1>2, <2>1, InFlightStep
  <2> QED
    BY <1>3, <1>5, <1>10, <2>2, Gains, AmountType DEF Total, Balances
<1>11. ASSUME NEW p \in Payments, u = LocalFail(p)
      PROVE  Total(m, c) = Total(k, a)
  <2>1. /\ m.outgoing_htlcs = k.outgoing_htlcs /\ p \notin m.incoming_htlcs
        /\ k.incoming_htlcs = m.incoming_htlcs \cup {p}
    <3>1. /\ LocalAdds(V) = LocalAdds(U)
          /\ HtlcsOf(V, "remote", "fulfill") = HtlcsOf(U, "remote", "fulfill")
          /\ HtlcsOf(V, "remote", "fail") = HtlcsOf(U, "remote", "fail")
          /\ RemoteAdds(V) = RemoteAdds(U)
          /\ HtlcsOf(V, "local", "fulfill") = HtlcsOf(U, "local", "fulfill")
          /\ HtlcsOf(V, "local", "fail") = HtlcsOf(U, "local", "fail") \cup {p}
      BY Zenon, <1>0, <1>11 DEF LocalFail, LocalAdds, RemoteAdds
    <3>2. p \notin HtlcsOf(U, "local", "fail")
      BY Zenon, <1>1, <1>11, HtlcsOfMember
    <3> QED
      BY <1>0, <1>4, <3>1, <3>2 DEF Applicable
  <2>2. InFlight(k) = InFlight(m) + Amount[p]
    BY <1>2, <2>1, InFlightStep
  <2> QED
    BY <1>3, <1>5, <1>11, <2>2, Gains, AmountType DEF Total, Balances
<1>12. Total(m, c) = Total(k, a)
  BY Zenon, <1>6, <1>7, <1>8, <1>9, <1>10, <1>11, UpdateCases
<1> QED
  BY Zenon, <1>12 DEF k, m, a, c, V

LEMMA NextBalanceType ==
    ASSUME NEW b \in Balances, NEW U \in FiniteUpdates
    PROVE  NextBalance(b, U) \in Balances
<1> DEFINE fl == [x \in U |-> LocalGain(x)]
           fr == [x \in U |-> RemoteGain(x)]
<1>1. IsFiniteSet(U) /\ (\A x \in U : fl[x] \in Int /\ fr[x] \in Int)
  BY Zenon, GainType DEF FiniteUpdates
<1>2. NextBalance(b, U) = [local |-> b.local + SumFunctionOnSet(fl, U),
                           remote |-> b.remote + SumFunctionOnSet(fr, U)]
  BY Zenon DEF NextBalance, SumFunction
<1> HIDE DEF fl, fr
<1>3. SumFunctionOnSet(fl, U) \in Int /\ SumFunctionOnSet(fr, U) \in Int
  BY Zenon, <1>1, SumInt
<1> QED
  BY <1>2, <1>3 DEF Balances

LEMMA SubsetApplicable ==
    ASSUME NEW l, NEW U, NEW T \in SUBSET U, Applicable(l, U)
    PROVE  Applicable(l, T)
<1>1. \A side, kind : HtlcsOf(T, side, kind) \subseteq HtlcsOf(U, side, kind)
  BY Zenon DEF HtlcsOf
<1> QED
  BY Zenon, <1>1 DEF Applicable, LocalAdds, RemoteAdds

\* Folding updates that apply neither creates nor destroys funds.
LEMMA FoldConserves ==
    ASSUME NEW l \in FiniteLcss, NEW b \in Balances, NEW U \in FiniteUpdates, Applicable(l, U)
    PROVE  Total(NextLcss(l, U), NextBalance(b, U)) = Total(l, b)
<1> DEFINE After(T) == Total(NextLcss(l, T), NextBalance(b, T))
           Good == {T \in SUBSET U : After(T) = Total(l, b)}
<1>1. ASSUME NEW T \in SUBSET U, \A x \in T : T \ {x} \in Good
      PROVE  T \in Good
  <2>1. CASE T = {}
    <3>1. /\ NextLcss(l, {}).incoming_htlcs = l.incoming_htlcs
          /\ NextLcss(l, {}).outgoing_htlcs = l.outgoing_htlcs
      BY Zenon DEF NextLcss, LocalResolved, RemoteResolved, HtlcsOf, LocalAdds, RemoteAdds
    <3>2. NextBalance(b, {}) = b
      BY Zenon, NextBalanceEmpty
    <3>3. After({}) = Total(l, b)
      BY Zenon, <3>1, <3>2 DEF Total, InFlight
    <3> QED
      BY Zenon, <2>1, <3>3
  <2>2. CASE T # {}
    <3>1. PICK x \in T : TRUE
      BY Zenon, <2>2
    <3> DEFINE R == T \ {x}
    <3>2. T = R \cup {x} /\ x \notin R /\ R \in FiniteUpdates /\ x \in Update
      BY Zenon, <3>1, FS_Subset DEF FiniteUpdates
    <3>3. Applicable(l, R \cup {x})
      BY Zenon, <3>2, SubsetApplicable
    <3>4. After(R) = Total(l, b)
      BY Zenon, <1>1, <3>1
    <3>5. After(R \cup {x}) = After(R)
      <4> HIDE DEF R
      <4> QED
        BY <3>2, <3>3, UpdateConserves
    <3>6. After(T) = Total(l, b)
      <4> HIDE DEF R, After
      <4> QED
        BY Zenon, <3>2, <3>4, <3>5
    <3> QED
      BY Zenon, <3>6
  <2> QED
    BY Zenon, <2>1, <2>2
<1>2. IsFiniteSet(U)
  BY Zenon DEF FiniteUpdates
<1>3. U \in Good
  <2> HIDE DEF Good
  <2> QED
    BY Zenon, <1>1, <1>2, FiniteInduction
<1> QED
  BY Zenon, <1>3

\* N resolves HTLCs in flight in l that U leaves alone.
Resolves(l, U, N) ==
    /\ \A u \in N : /\ u.kind # "add"
                    /\ u.side = "local" => ~LocalResolved(U, u.htlc)
                    /\ u.side = "remote" => ~RemoteResolved(U, u.htlc)
    /\ Applicable(l, N)

\* U applies to l, and leads to balances that are not negative.
Sound(l, b, U) ==
    /\ Applicable(l, U)
    /\ NextBalance(b, U).local >= 0 /\ NextBalance(b, U).remote >= 0

LEMMA ResolvesApplicable ==
    ASSUME NEW l, NEW U \in SUBSET Update, NEW N \in SUBSET Update,
           Applicable(l, U), Resolves(l, U, N)
    PROVE  Applicable(l, U \cup N)
<1> DEFINE V == U \cup N
<1>1. \A side, kind : HtlcsOf(V, side, kind) = HtlcsOf(U, side, kind) \cup HtlcsOf(N, side, kind)
  BY Zenon DEF HtlcsOf
<1>2. LocalAdds(N) = {} /\ RemoteAdds(N) = {}
  BY Zenon DEF Resolves, LocalAdds, RemoteAdds, HtlcsOf
<1>3. ASSUME NEW h
      PROVE  /\ h \in HtlcsOf(N, "remote", "fulfill") \/ h \in HtlcsOf(N, "remote", "fail")
                => h \notin HtlcsOf(U, "remote", "fulfill") /\ h \notin HtlcsOf(U, "remote", "fail")
             /\ h \in HtlcsOf(N, "local", "fulfill") \/ h \in HtlcsOf(N, "local", "fail")
                => h \notin HtlcsOf(U, "local", "fulfill") /\ h \notin HtlcsOf(U, "local", "fail")
  <2>1. h \in HtlcsOf(N, "remote", "fulfill") \/ h \in HtlcsOf(N, "remote", "fail")
           => ~RemoteResolved(U, h)
    BY Zenon DEF HtlcsOf, Resolves
  <2>2. h \in HtlcsOf(N, "local", "fulfill") \/ h \in HtlcsOf(N, "local", "fail")
           => ~LocalResolved(U, h)
    BY Zenon DEF HtlcsOf, Resolves
  <2> QED
    BY Zenon, <2>1, <2>2, HtlcsOfMember DEF RemoteResolved, LocalResolved
<1>4. Applicable(l, N)
  BY Zenon DEF Resolves
<1> HIDE DEF V
<1>5. Applicable(l, V)
  BY <1>1, <1>2, <1>3, <1>4 DEF Applicable, LocalAdds, RemoteAdds
<1> QED
  BY Zenon, <1>5 DEF V

\* A resolution takes from no balance.
LEMMA ResolutionGains ==
    ASSUME NEW u \in Update, u.kind # "add"
    PROVE  LocalGain(u) >= 0 /\ RemoteGain(u) >= 0
<1>1. ASSUME NEW h \in Outgoing, u \in {LocalAdd(h), RemoteFulfill(h), RemoteFail(h)}
      PROVE  LocalGain(u) >= 0 /\ RemoteGain(u) >= 0
  <2>1. u # LocalAdd(h)
    BY DEF LocalAdd
  <2> QED
    BY <1>1, <2>1, AmountType, Gains
<1>2. ASSUME NEW p \in Payments, u \in {RemoteAdd(p), LocalFulfill(p), LocalFail(p)}
      PROVE  LocalGain(u) >= 0 /\ RemoteGain(u) >= 0
  <2>1. u # RemoteAdd(p)
    BY DEF RemoteAdd
  <2> QED
    BY <1>2, <2>1, AmountType, Gains
<1> QED
  BY Zenon, <1>1, <1>2, UpdateCases

\* Resolutions of HTLCs that are in flight keep a set of updates sound.
LEMMA ResolvesSound ==
    ASSUME NEW l, NEW b \in Balances, NEW U \in FiniteUpdates, NEW N \in FiniteUpdates,
           Sound(l, b, U), Resolves(l, U, N)
    PROVE  Sound(l, b, U \cup N)
<1> DEFINE Next(T) == NextBalance(b, U \cup T)
           Good == {T \in SUBSET N : Next(T).local >= 0 /\ Next(T).remote >= 0}
<1>1. ASSUME NEW T \in SUBSET N, \A x \in T : T \ {x} \in Good
      PROVE  T \in Good
  <2>1. CASE T = {}
    BY Zenon, <2>1 DEF Sound
  <2>2. CASE T # {}
    <3>1. PICK x \in T : TRUE
      BY Zenon, <2>2
    <3> DEFINE R == T \ {x}
               W == U \cup R
    <3>2. x \in Update /\ R \in FiniteUpdates /\ x.kind # "add" /\ R \in Good
      BY Zenon, <1>1, <3>1, FS_Subset DEF FiniteUpdates, Resolves
    <3>3. W \in FiniteUpdates
      BY Zenon, <3>2, FS_Union DEF FiniteUpdates
    <3>4. CASE x \in W
      <4>1. U \cup T = W
        BY Zenon, <3>1, <3>4
      <4> QED
        BY Zenon, <3>2, <4>1
    <3>5. CASE x \notin W
      <4>1. U \cup T = W \cup {x}
        BY Zenon, <3>1
      <4>2. /\ NextBalance(b, W) \in Balances
            /\ NextBalance(b, W \cup {x}).local = NextBalance(b, W).local + LocalGain(x)
            /\ NextBalance(b, W \cup {x}).remote = NextBalance(b, W).remote + RemoteGain(x)
        <5> HIDE DEF W
        <5> QED
          BY Zenon, <3>2, <3>3, <3>5, NextBalanceAdd
      <4>3. NextBalance(b, W).local >= 0 /\ NextBalance(b, W).remote >= 0
        BY Zenon, <3>2
      <4>4. LocalGain(x) >= 0 /\ RemoteGain(x) >= 0 /\ LocalGain(x) \in Int /\ RemoteGain(x) \in Int
        BY Zenon, <3>2, ResolutionGains, GainType
      <4> HIDE DEF W
      <4>5. NextBalance(b, W \cup {x}).local >= 0 /\ NextBalance(b, W \cup {x}).remote >= 0
        BY <4>2, <4>3, <4>4 DEF Balances
      <4>6. NextBalance(b, U \cup T).local >= 0 /\ NextBalance(b, U \cup T).remote >= 0
        BY Zenon, <4>1, <4>5
      <4> QED
        BY Zenon, <4>6
    <3> QED
      BY Zenon, <3>4, <3>5
  <2> QED
    BY Zenon, <2>1, <2>2
<1>2. IsFiniteSet(N)
  BY Zenon DEF FiniteUpdates
<1>3. N \in Good
  <2> HIDE DEF Good
  <2> QED
    BY Zenon, <1>1, <1>2, FiniteInduction
<1> QED
  BY Zenon, <1>3, ResolvesApplicable DEF Sound, FiniteUpdates

LEMMA EmptySound ==
    ASSUME NEW l, NEW b \in Balances, b.local >= 0, b.remote >= 0
    PROVE  Applicable(l, {}) /\ Sound(l, b, {})
<1>1. Applicable(l, {})
  BY Zenon DEF Applicable, LocalAdds, RemoteAdds, HtlcsOf
<1> QED
  BY Zenon, <1>1, NextBalanceEmpty DEF Sound

\* The host may offer what it has, as a new HTLC.
LEMMA LocalAddSound ==
    ASSUME NEW l, NEW b \in Balances, NEW U \in FiniteUpdates, Sound(l, b, U),
           NEW h \in Outgoing, h \notin l.outgoing_htlcs, LocalAdd(h) \notin U,
           Amount[h.pay] <= NextBalance(b, U).local
    PROVE  Sound(l, b, U \cup {LocalAdd(h)})
<1> DEFINE u == LocalAdd(h)
           V == U \cup {u}
<1>1. u \in Update /\ u.side = "local" /\ u.kind = "add" /\ u.htlc = h
  BY Zenon, UpdateShapes DEF LocalAdd
<1>2. /\ NextBalance(b, U) \in Balances
      /\ NextBalance(b, V).local = NextBalance(b, U).local + LocalGain(u)
      /\ NextBalance(b, V).remote = NextBalance(b, U).remote + RemoteGain(u)
  BY Zenon, <1>1, NextBalanceAdd
<1>3. LocalGain(u) = -Amount[h.pay] /\ RemoteGain(u) = 0 /\ Amount[h.pay] \in Nat
  BY Zenon, Gains, AmountType
<1> HIDE DEF u
<1>4. \A side, kind : HtlcsOf(V, side, kind)
         = IF u.side = side /\ u.kind = kind
           THEN HtlcsOf(U, side, kind) \cup {u.htlc} ELSE HtlcsOf(U, side, kind)
  <2> TAKE side, kind
  <2>1. CASE u.side = side /\ u.kind = kind
    BY Zenon, <2>1 DEF HtlcsOf
  <2>2. CASE ~(u.side = side /\ u.kind = kind)
    BY Zenon, <2>2 DEF HtlcsOf
  <2> QED
    BY Zenon, <2>1, <2>2
<1> HIDE DEF V
<1>5. Applicable(l, V)
  BY Zenon, <1>1, <1>4 DEF Sound, Applicable, LocalAdds, RemoteAdds
<1>6. Sound(l, b, V)
  BY <1>2, <1>3, <1>5 DEF Sound, Balances
<1> QED
  BY Zenon, <1>6 DEF V, u

\* The client may offer what it has, as a new HTLC.
LEMMA RemoteAddSound ==
    ASSUME NEW l, NEW b \in Balances, NEW U \in FiniteUpdates, Sound(l, b, U),
           NEW p \in Payments, p \notin l.incoming_htlcs, RemoteAdd(p) \notin U,
           Amount[p] <= NextBalance(b, U).remote
    PROVE  Sound(l, b, U \cup {RemoteAdd(p)})
<1> DEFINE u == RemoteAdd(p)
           V == U \cup {u}
<1>1. u \in Update /\ u.side = "remote" /\ u.kind = "add" /\ u.htlc = p
  BY Zenon, UpdateShapes DEF RemoteAdd
<1>2. /\ NextBalance(b, U) \in Balances
      /\ NextBalance(b, V).local = NextBalance(b, U).local + LocalGain(u)
      /\ NextBalance(b, V).remote = NextBalance(b, U).remote + RemoteGain(u)
  BY Zenon, <1>1, NextBalanceAdd
<1>3. LocalGain(u) = 0 /\ RemoteGain(u) = -Amount[p] /\ Amount[p] \in Nat
  BY Zenon, Gains, AmountType
<1> HIDE DEF u
<1>4. \A side, kind : HtlcsOf(V, side, kind)
         = IF u.side = side /\ u.kind = kind
           THEN HtlcsOf(U, side, kind) \cup {u.htlc} ELSE HtlcsOf(U, side, kind)
  <2> TAKE side, kind
  <2>1. CASE u.side = side /\ u.kind = kind
    BY Zenon, <2>1 DEF HtlcsOf
  <2>2. CASE ~(u.side = side /\ u.kind = kind)
    BY Zenon, <2>2 DEF HtlcsOf
  <2> QED
    BY Zenon, <2>1, <2>2
<1> HIDE DEF V
<1>5. Applicable(l, V)
  BY Zenon, <1>1, <1>4 DEF Sound, Applicable, LocalAdds, RemoteAdds
<1>6. Sound(l, b, V)
  BY <1>2, <1>3, <1>5 DEF Sound, Balances
<1> QED
  BY Zenon, <1>6 DEF V, u

LEMMA SubsetResolves ==
    ASSUME NEW l, NEW U, NEW N, NEW M \in SUBSET N, Resolves(l, U, N)
    PROVE  Resolves(l, U, M)
BY Zenon, SubsetApplicable DEF Resolves

LEMMA OneResolution ==
    ASSUME NEW l, NEW U, NEW h \in l.outgoing_htlcs, ~RemoteResolved(U, h),
           NEW u \in {RemoteFulfill(h), RemoteFail(h)}
    PROVE  Resolves(l, U, {u})
<1>1. u.side = "remote" /\ u.kind \in {"fulfill", "fail"} /\ u.htlc = h
  BY DEF RemoteFulfill, RemoteFail
<1>2. Applicable(l, {u})
  BY Zenon, <1>1 DEF Applicable, LocalAdds, RemoteAdds, HtlcsOf
<1> QED
  BY Zenon, <1>1, <1>2 DEF Resolves

LEMMA OneAnswer ==
    ASSUME NEW l, NEW U, NEW p \in l.incoming_htlcs, ~LocalResolved(U, p),
           NEW u \in {LocalFulfill(p), LocalFail(p)}
    PROVE  Resolves(l, U, {u})
<1>1. u.side = "local" /\ u.kind \in {"fulfill", "fail"} /\ u.htlc = p
  BY DEF LocalFulfill, LocalFail
<1>2. Applicable(l, {u})
  BY Zenon, <1>1 DEF Applicable, LocalAdds, RemoteAdds, HtlcsOf
<1> QED
  BY Zenon, <1>1, <1>2 DEF Resolves

-----------------------------------------------------------------------------
(* The counter of the host's updates, from which ids are taken             *)

\* The next counter of the host grows with the set of updates.
LEMMA CounterGrows ==
    ASSUME NEW l \in LcssType, NEW V \in FiniteUpdates, NEW U \in SUBSET V
    PROVE  NextLcss(l, U).local_updates <= NextLcss(l, V).local_updates
<1> DEFINE Loc(W) == {u \in W : u.side = "local"}
<1>1. IsFiniteSet(Loc(V)) /\ Loc(U) \in SUBSET Loc(V)
  BY Zenon, FS_Subset DEF FiniteUpdates
<1>2. /\ Cardinality(Loc(U)) <= Cardinality(Loc(V))
      /\ Cardinality(Loc(U)) \in Nat /\ Cardinality(Loc(V)) \in Nat
  BY Zenon, <1>1, FS_Subset, FS_CardinalityType
<1> QED
  BY <1>2 DEF NextLcss, LcssType, FiniteLcss

\* Offering one more HTLC advances it by one.
LEMMA CounterOfOffer ==
    ASSUME NEW l \in LcssType, NEW U \in FiniteUpdates, NEW h, LocalAdd(h) \notin U
    PROVE  NextLcss(l, U \cup {LocalAdd(h)}).local_updates = NextLcss(l, U).local_updates + 1
<1> DEFINE Loc(W) == {u \in W : u.side = "local"}
<1>1. Loc(U \cup {LocalAdd(h)}) = Loc(U) \cup {LocalAdd(h)}
  BY DEF LocalAdd
<1>2. IsFiniteSet(Loc(U)) /\ LocalAdd(h) \notin Loc(U)
  BY Zenon, FS_Subset DEF FiniteUpdates
<1>3. /\ Cardinality(Loc(U) \cup {LocalAdd(h)}) = Cardinality(Loc(U)) + 1
      /\ Cardinality(Loc(U)) \in Nat
  BY Zenon, <1>2, FS_AddElement, FS_CardinalityType
<1>4. /\ NextLcss(l, U).local_updates = l.local_updates + Cardinality(Loc(U))
      /\ NextLcss(l, U \cup {LocalAdd(h)}).local_updates
            = l.local_updates + Cardinality(Loc(U \cup {LocalAdd(h)}))
  BY Zenon DEF NextLcss
<1>5. l.local_updates \in Nat
  BY Zenon DEF LcssType, FiniteLcss
<1> HIDE DEF Loc
<1>6. Cardinality(Loc(U \cup {LocalAdd(h)})) = Cardinality(Loc(U)) + 1
  BY Zenon, <1>1, <1>3
<1> QED
  BY <1>3, <1>4, <1>5, <1>6

=============================================================================
