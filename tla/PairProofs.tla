----------------------------- MODULE PairProofs -----------------------------
(***************************************************************************)
(* Theorems about two hosted channels of one host, for every value of the  *)
(* constants of HostedPair.tla.                                            *)
(***************************************************************************)
EXTENDS HostedPair, LcssProofs

-----------------------------------------------------------------------------
(* One channel                                                             *)

Channel == [lcss : FiniteLcss, balance : Balances, uncommitted : FiniteUpdates,
            errors : SUBSET Errors, signed : SUBSET FiniteUpdates,
            proposed : [local_updates : Nat, remote_updates : Nat, local_balance : Int]]

\* The sets of updates that may become part of the last cross-signed state.
Candidates(c) == c.signed \cup {c.uncommitted}

\* What each handler keeps of a channel record: the funds add up, whatever may be
\* committed next applies and overdraws no balance, and no id exceeds the counter
\* that the next id is taken from.
Healthy(c, capacity) ==
    /\ c \in Channel /\ c.proposed.local_balance \in 0..capacity
    /\ c.balance.local >= 0 /\ c.balance.remote >= 0 /\ Total(c.lcss, c.balance) = capacity
    /\ \A U \in c.signed : U \subseteq c.uncommitted
    /\ \A h \in c.lcss.outgoing_htlcs : h.id <= c.lcss.local_updates
    /\ \A U \in Candidates(c) :
          /\ Sound(c.lcss, c.balance, U)
          /\ \A h \in LocalAdds(U) : h.id <= NextLcss(c.lcss, U).local_updates

\* What the operations on a channel record leave in it.
LEMMA AddFields ==
    ASSUME NEW c \in Channel, NEW u
    PROVE  /\ Add(c, u).lcss = c.lcss /\ Add(c, u).errors = c.errors
           /\ Add(c, u).uncommitted = c.uncommitted \cup {u}
BY Zenon DEF Add, Channel

LEMMA SignFields ==
    ASSUME NEW c \in Channel
    PROVE  /\ Sign(c).lcss = c.lcss /\ Sign(c).errors = c.errors
           /\ Sign(c).uncommitted = c.uncommitted
BY Zenon DEF Sign, Channel

LEMMA ErrorFields ==
    ASSUME NEW c \in Channel, NEW e
    PROVE  /\ Error(c, e).lcss = c.lcss /\ Error(c, e).errors = c.errors \cup {e}
           /\ Error(c, e).uncommitted = c.uncommitted
BY Zenon DEF Error, Channel

LEMMA FoldFields ==
    ASSUME NEW c \in Channel, NEW U
    PROVE  /\ Fold(c, U).lcss = NextLcss(c.lcss, U) /\ Fold(c, U).errors = c.errors
           /\ Fold(c, U).uncommitted = {}
BY Zenon DEF Fold, Channel

\* An operator and a client leave the HTLCs and updates as they are, or none.
Quiet(c, d) ==
    \/ d.lcss = c.lcss /\ d.uncommitted = c.uncommitted /\ c.errors \subseteq d.errors
    \/ d.lcss.incoming_htlcs = {} /\ d.lcss.outgoing_htlcs = {} /\ d.uncommitted = {}

LEMMA QuietFields ==
    ASSUME NEW c \in Channel, NEW k,
           NEW d \in {c, Error(c, "other"), Proposes(c), Overrides(c, k), Accepts(c, k)}
    PROVE  Quiet(c, d)
<1>1. CASE d \in {c, Error(c, "other")}
  BY <1>1, ErrorFields DEF Quiet
<1>2. CASE d = Proposes(c)
  BY Zenon, <1>2 DEF Proposes, Channel, Quiet
<1>3. CASE d = Overrides(c, k)
  BY Zenon, <1>3 DEF Overrides, Channel, Quiet
<1>4. CASE d = Accepts(c, k)
  BY Zenon, <1>4 DEF Accepts, Overrides, Channel, Quiet
<1> QED
  BY Zenon, <1>1, <1>2, <1>3, <1>4

LEMMA FreshHealthy ==
    ASSUME NEW a \in Nat, NEW b \in Nat
    PROVE  Healthy(Fresh(a, b), a + b)
<1> DEFINE c == Fresh(a, b)
<1>1. /\ c.lcss = [local_updates |-> 0, remote_updates |-> 0,
                   incoming_htlcs |-> {}, outgoing_htlcs |-> {}]
      /\ c.balance = [local |-> a, remote |-> b] /\ c.uncommitted = {} /\ c.signed = {}
      /\ c.errors = {} /\ c.proposed = NoOverride
  BY Zenon DEF Fresh
<1>2. c.lcss \in FiniteLcss /\ c.balance \in Balances /\ {} \in FiniteUpdates
  BY <1>1, FS_EmptySet DEF FiniteLcss, LcssType, Balances, FiniteUpdates
<1>3. c \in Channel
  BY <1>2 DEF Channel, Fresh, NoOverride
<1>4. Total(c.lcss, c.balance) = a + b
  <2>1. InFlight(c.lcss) = 0
    BY <1>1, InFlightEmpty
  <2> QED
    BY <1>1, <2>1 DEF Total
<1>5. Sound(c.lcss, c.balance, {}) /\ LocalAdds({}) = {}
  BY <1>1, <1>2, EmptySound DEF LocalAdds, HtlcsOf
<1>6. c.proposed.local_balance \in 0..(a + b)
  BY <1>1 DEF NoOverride
<1> HIDE DEF c
<1> QED
  BY <1>1, <1>3, <1>4, <1>5, <1>6 DEF Healthy, Candidates, c

\* Committing a candidate.
LEMMA FoldHealthy ==
    ASSUME NEW c, NEW capacity \in Nat, Healthy(c, capacity), NEW U \in Candidates(c)
    PROVE  Healthy(Fold(c, U), capacity)
<1> DEFINE d == Fold(c, U)
<1>1. /\ c \in Channel /\ c.lcss \in FiniteLcss /\ c.balance \in Balances
      /\ U \in FiniteUpdates /\ Sound(c.lcss, c.balance, U)
  BY Zenon DEF Healthy, Candidates, Channel
<1>2. /\ d.lcss = NextLcss(c.lcss, U) /\ d.balance = NextBalance(c.balance, U)
      /\ d.uncommitted = {} /\ d.signed = {} /\ d.proposed = c.proposed /\ d.errors = c.errors
  BY Zenon, <1>1 DEF Fold, Channel
<1>3. d.lcss \in FiniteLcss /\ d.balance \in Balances /\ {} \in FiniteUpdates
  BY Zenon, <1>1, <1>2, NextLcssType, NextBalanceType, FS_EmptySet DEF FiniteUpdates
<1>4. d \in Channel
  BY Zenon, <1>1, <1>2, <1>3 DEF Channel, Fold
<1>5. d.balance.local >= 0 /\ d.balance.remote >= 0
  BY Zenon, <1>1, <1>2 DEF Sound
<1>6. Total(d.lcss, d.balance) = capacity
  <2>1. Applicable(c.lcss, U) /\ Total(c.lcss, c.balance) = capacity
    BY Zenon, <1>1 DEF Sound, Healthy
  <2>2. Total(NextLcss(c.lcss, U), NextBalance(c.balance, U)) = Total(c.lcss, c.balance)
    BY Zenon, <1>1, <2>1, FoldConserves
  <2> QED
    BY Zenon, <1>2, <2>1, <2>2
<1>7. Sound(d.lcss, d.balance, {}) /\ LocalAdds({}) = {}
  BY Zenon, <1>3, <1>5, EmptySound DEF LocalAdds, HtlcsOf
<1>8. ASSUME NEW h \in d.lcss.outgoing_htlcs
      PROVE  h.id <= d.lcss.local_updates
  <2>1. h \in c.lcss.outgoing_htlcs \cup LocalAdds(U)
    BY <1>2 DEF NextLcss
  <2>2. CASE h \in LocalAdds(U)
    BY Zenon, <1>2, <2>2 DEF Healthy
  <2>3. CASE h \in c.lcss.outgoing_htlcs
    <3>1. Cardinality({u \in U : u.side = "local"}) \in Nat
      BY Zenon, <1>1, CountsType
    <3>2. h.id <= c.lcss.local_updates /\ h.id \in Nat /\ c.lcss.local_updates \in Nat
      BY Zenon, <1>1, <2>3 DEF Healthy, FiniteLcss, LcssType, Outgoing
    <3> QED
      BY <1>2, <3>1, <3>2 DEF NextLcss
  <2> QED
    BY Zenon, <2>1, <2>2, <2>3
<1> HIDE DEF d
<1> QED
  BY Zenon, <1>2, <1>4, <1>5, <1>6, <1>7, <1>8 DEF Healthy, Candidates, d

\* One more update, which need not be signed yet.
LEMMA AddHealthy ==
    ASSUME NEW c, NEW capacity, Healthy(c, capacity), NEW u \in Update,
           Sound(c.lcss, c.balance, c.uncommitted \cup {u}),
           \A h \in LocalAdds(c.uncommitted \cup {u}) :
              h.id <= NextLcss(c.lcss, c.uncommitted \cup {u}).local_updates
    PROVE  Healthy(Add(c, u), capacity)
<1> DEFINE d == Add(c, u)
<1>1. /\ d.lcss = c.lcss /\ d.balance = c.balance /\ d.errors = c.errors
      /\ d.uncommitted = c.uncommitted \cup {u} /\ d.signed = c.signed /\ d.proposed = c.proposed
  BY Zenon DEF Add, Healthy, Channel
<1>2. d.uncommitted \in FiniteUpdates
  BY Zenon, <1>1, AddUpdate DEF Healthy, Channel
<1>3. d \in Channel
  BY Zenon, <1>1, <1>2 DEF Add, Healthy, Channel
<1> HIDE DEF d
<1> QED
  BY Zenon, <1>1, <1>3 DEF Healthy, Candidates, d

LEMMA SignHealthy ==
    ASSUME NEW c, NEW capacity, Healthy(c, capacity)
    PROVE  Healthy(Sign(c), capacity)
<1> DEFINE d == Sign(c)
<1>1. /\ d.lcss = c.lcss /\ d.balance = c.balance /\ d.errors = c.errors
      /\ d.uncommitted = c.uncommitted /\ d.signed = c.signed \cup {c.uncommitted}
      /\ d.proposed = c.proposed /\ d \in Channel
  BY Zenon DEF Sign, Healthy, Channel
<1> HIDE DEF d
<1> QED
  BY Zenon, <1>1 DEF Healthy, Candidates, d

LEMMA ErrorHealthy ==
    ASSUME NEW c, NEW capacity, Healthy(c, capacity), NEW e \in Errors
    PROVE  Healthy(Error(c, e), capacity)
<1> DEFINE d == Error(c, e)
<1>1. /\ d.lcss = c.lcss /\ d.balance = c.balance /\ d.errors = c.errors \cup {e}
      /\ d.uncommitted = c.uncommitted /\ d.signed = c.signed
      /\ d.proposed = c.proposed /\ d \in Channel
  BY Zenon DEF Error, Healthy, Channel
<1> HIDE DEF d
<1> QED
  BY Zenon, <1>1 DEF Healthy, Candidates, d

LEMMA ProposesHealthy ==
    ASSUME NEW c, NEW capacity \in Nat, Healthy(c, capacity)
    PROVE  Healthy(Proposes(c), capacity)
<1> DEFINE d == Proposes(c)
<1>0. c \in Channel /\ c.lcss \in FiniteLcss /\ c.balance \in Balances
  BY Zenon DEF Healthy, Channel
<1>1. /\ d.lcss = c.lcss /\ d.balance = c.balance /\ d.errors = c.errors
      /\ d.uncommitted = c.uncommitted /\ d.signed = c.signed
      /\ d.proposed.local_balance = c.balance.local /\ d \in Channel
  BY <1>0 DEF Proposes, Channel, FiniteLcss, LcssType, Balances
<1>2. c.balance.local \in 0..capacity
  <2>1. InFlight(c.lcss) \in Nat
    BY Zenon, <1>0, InFlightStep
  <2> QED
    BY <1>0, <2>1 DEF Healthy, Balances, Total
<1> HIDE DEF d
<1> QED
  BY Zenon, <1>1, <1>2 DEF Healthy, Candidates, d

LEMMA OverridesHealthy ==
    ASSUME NEW c, NEW capacity \in Nat, Healthy(c, capacity)
    PROVE  Healthy(Overrides(c, capacity), capacity) /\ Healthy(Accepts(c, capacity), capacity)
<1> DEFINE b == [local |-> c.proposed.local_balance,
                 remote |-> capacity - c.proposed.local_balance]
           l == [local_updates |-> c.proposed.local_updates,
                 remote_updates |-> c.proposed.remote_updates,
                 incoming_htlcs |-> {}, outgoing_htlcs |-> {}]
<1>1. /\ c \in Channel /\ c.proposed.local_balance \in 0..capacity
      /\ c.proposed.local_updates \in Nat /\ c.proposed.remote_updates \in Nat
  BY Zenon DEF Healthy, Channel
<1>2. /\ b \in Balances /\ b.local >= 0 /\ b.remote >= 0 /\ b.local + b.remote = capacity
      /\ l \in FiniteLcss /\ {} \in FiniteUpdates
  <2>1. /\ b \in Balances /\ b.local >= 0 /\ b.remote >= 0 /\ b.local + b.remote = capacity
    BY <1>1 DEF Balances
  <2>2. l \in FiniteLcss /\ {} \in FiniteUpdates
    BY Zenon, <1>1, FS_EmptySet DEF FiniteLcss, LcssType, FiniteUpdates
  <2> QED
    BY Zenon, <2>1, <2>2
<1>3. Total(l, b) = capacity
  <2>1. InFlight(l) = 0
    BY Zenon, InFlightEmpty
  <2> HIDE DEF l
  <2> QED
    BY <1>2, <2>1 DEF Total
<1>4. Sound(l, b, {}) /\ LocalAdds({}) = {} /\ l.outgoing_htlcs = {}
  BY Zenon, <1>2, EmptySound DEF LocalAdds, HtlcsOf
<1> HIDE DEF b, l
<1>5. ASSUME NEW d \in Channel, d.lcss = l, d.balance = b, d.uncommitted = {}, d.signed = {},
             d.proposed.local_balance \in 0..capacity
      PROVE  Healthy(d, capacity)
  BY Zenon, <1>2, <1>3, <1>4, <1>5 DEF Healthy, Candidates
<1>6. Healthy(Overrides(c, capacity), capacity)
  <2> DEFINE d == Overrides(c, capacity)
  <2>1. /\ d \in Channel /\ d.lcss = l /\ d.balance = b /\ d.uncommitted = {} /\ d.signed = {}
        /\ d.proposed = c.proposed
    BY Zenon, <1>1, <1>2 DEF Overrides, Channel, b, l
  <2> HIDE DEF d
  <2> QED
    BY Zenon, <1>1, <1>5, <2>1 DEF d
<1>7. Healthy(Accepts(c, capacity), capacity)
  <2> DEFINE e == Overrides(c, capacity)
             d == Accepts(c, capacity)
  <2>1. e \in Channel /\ e.lcss = l /\ e.balance = b /\ e.uncommitted = {} /\ e.signed = {}
    BY Zenon, <1>1, <1>2 DEF Overrides, Channel, b, l
  <2>2. d = [e EXCEPT !.errors = {}, !.proposed = NoOverride]
    BY Zenon DEF Accepts
  <2> HIDE DEF d, e
  <2>3. /\ NoOverride \in [local_updates : Nat, remote_updates : Nat, local_balance : Int]
        /\ NoOverride.local_balance = 0
    BY DEF NoOverride
  <2>4. /\ d \in Channel /\ d.lcss = l /\ d.balance = b /\ d.uncommitted = {} /\ d.signed = {}
        /\ d.proposed = NoOverride
    BY Zenon, <2>1, <2>2, <2>3 DEF Channel
  <2>5. d.proposed.local_balance \in 0..capacity
    BY <2>3, <2>4
  <2> QED
    BY Zenon, <1>5, <2>4, <2>5 DEF d
<1> QED
  BY Zenon, <1>6, <1>7

\* One answer to an HTLC in flight.
LEMMA ResolveHealthy ==
    ASSUME NEW c, NEW capacity, Healthy(c, capacity), NEW u \in Update,
           Resolves(c.lcss, c.uncommitted, {u})
    PROVE  /\ Healthy(Add(c, u), capacity)
           /\ LocalAdds(c.uncommitted \cup {u}) = LocalAdds(c.uncommitted)
           /\ RemoteAdds(c.uncommitted \cup {u}) = RemoteAdds(c.uncommitted)
<1> DEFINE V == c.uncommitted \cup {u}
<1>1. /\ c.lcss \in FiniteLcss /\ c.lcss \in LcssType /\ c.balance \in Balances
      /\ c.uncommitted \in FiniteUpdates /\ {u} \in FiniteUpdates /\ V \in FiniteUpdates
  <2>1. c.uncommitted \in FiniteUpdates /\ c.lcss \in FiniteLcss /\ c.balance \in Balances
    BY Zenon DEF Healthy, Channel
  <2> QED
    BY Zenon, <2>1, AddUpdate, FS_Singleton DEF FiniteUpdates, FiniteLcss
<1>2. Sound(c.lcss, c.balance, V)
  BY Zenon, <1>1, ResolvesSound DEF Healthy, Candidates
<1>3. /\ LocalAdds(V) = LocalAdds(c.uncommitted) /\ RemoteAdds(V) = RemoteAdds(c.uncommitted)
  <2>1. u.kind # "add"
    BY Zenon DEF Resolves
  <2> QED
    BY Zenon, <2>1 DEF LocalAdds, RemoteAdds, HtlcsOf
<1>4. ASSUME NEW h \in LocalAdds(V) PROVE h.id <= NextLcss(c.lcss, V).local_updates
  <2>1. h.id <= NextLcss(c.lcss, c.uncommitted).local_updates /\ h.id \in Nat
    BY Zenon, <1>1, <1>3, AddsType DEF Healthy, Candidates, Outgoing
  <2>2. NextLcss(c.lcss, c.uncommitted).local_updates <= NextLcss(c.lcss, V).local_updates
    BY Zenon, <1>1, CounterGrows
  <2>3. /\ NextLcss(c.lcss, c.uncommitted).local_updates \in Nat
        /\ NextLcss(c.lcss, V).local_updates \in Nat
    BY Zenon, <1>1, NextLcssType DEF FiniteLcss, LcssType
  <2> QED
    BY <2>1, <2>2, <2>3
<1> HIDE DEF V
<1>5. Healthy(Add(c, u), capacity)
  BY Zenon, <1>2, <1>4, AddHealthy DEF V
<1> QED
  BY Zenon, <1>3, <1>5 DEF V

\* The HTLC that the host offers next is a new one, and the balance pays for it.
LEMMA OfferHealthy ==
    ASSUME NEW c, NEW capacity, Healthy(c, capacity), NEW p \in Payments, NEW h,
           h = [id |-> NextLcss(c.lcss, c.uncommitted).local_updates + 1, pay |-> p],
           Amount[p] <= NextBalance(c.balance, c.uncommitted).local
    PROVE  /\ h \in Outgoing /\ Healthy(Add(c, LocalAdd(h)), capacity)
           /\ \A g \in c.lcss.outgoing_htlcs \cup LocalAdds(c.uncommitted) : g.id # h.id
<1> DEFINE U == c.uncommitted
           u == LocalAdd(h)
           next == NextLcss(c.lcss, U).local_updates
<1>1. /\ c.lcss \in FiniteLcss /\ c.lcss \in LcssType /\ c.balance \in Balances
      /\ U \in FiniteUpdates
  BY Zenon DEF Healthy, Channel, FiniteLcss
<1>2. next \in Nat
  BY Zenon, <1>1, NextLcssType DEF FiniteLcss, LcssType
<1>3. h.id = next + 1 /\ h.pay = p /\ h \in Outgoing
  BY <1>2, PairAssumption DEF Outgoing
<1>4. c.lcss.local_updates <= next /\ c.lcss.local_updates \in Nat
  <2> DEFINE n == Cardinality({x \in U : x.side = "local"})
  <2>1. n \in Nat
    BY Zenon, <1>1, CountsType
  <2>2. next = c.lcss.local_updates + n
    BY Zenon DEF NextLcss
  <2>3. c.lcss.local_updates \in Nat
    BY Zenon, <1>1 DEF LcssType
  <2> HIDE DEF n, next
  <2> QED
    BY <2>1, <2>2, <2>3
<1>5. ASSUME NEW g \in c.lcss.outgoing_htlcs \cup LocalAdds(U)
      PROVE  g.id \in Nat /\ g.id <= next
  <2>1. g.id \in Nat
    BY Zenon, <1>1, AddsType DEF LcssType, Outgoing
  <2>2. g.id <= c.lcss.local_updates \/ g.id <= next
    BY Zenon DEF Healthy, Candidates
  <2> QED
    BY <1>2, <1>4, <2>1, <2>2
<1> HIDE DEF next
<1>6. \A g \in c.lcss.outgoing_htlcs \cup LocalAdds(U) : g.id # h.id
  BY <1>2, <1>3, <1>5
<1>7. h \notin c.lcss.outgoing_htlcs /\ LocalAdd(h) \notin U
  <2>1. h \notin LocalAdds(U) /\ h \notin c.lcss.outgoing_htlcs
    BY Zenon, <1>6
  <2> QED
    BY Zenon, <1>1, <2>1, HtlcsOfMember DEF FiniteUpdates
<1>8. Sound(c.lcss, c.balance, U) /\ Amount[h.pay] <= NextBalance(c.balance, U).local
  BY Zenon, <1>3 DEF Healthy, Candidates
<1>9. Sound(c.lcss, c.balance, U \cup {u})
  BY Zenon, <1>1, <1>3, <1>7, <1>8, LocalAddSound
<1>10. LocalAdds(U \cup {u}) = LocalAdds(U) \cup {h} /\ u \in Update
  BY Zenon, <1>3, AddsOfUnion, UpdateShapes
<1>11. NextLcss(c.lcss, U \cup {u}).local_updates = next + 1
  BY Zenon, <1>1, <1>7, CounterOfOffer DEF next
<1>12. \A g \in LocalAdds(U \cup {u}) : g.id <= NextLcss(c.lcss, U \cup {u}).local_updates
  <2>1. \A g \in LocalAdds(U) \cup {h} : g.id <= next + 1
    BY <1>2, <1>3, <1>5
  <2> QED
    BY Zenon, <1>10, <1>11, <2>1
<1> HIDE DEF u
<1>13. Healthy(Add(c, u), capacity)
  BY Zenon, <1>9, <1>10, <1>12, AddHealthy
<1> QED
  BY Zenon, <1>3, <1>6, <1>13 DEF u

\* An HTLC of the client that is new, and that its balance pays for.
LEMMA AcceptHealthy ==
    ASSUME NEW c, NEW capacity, Healthy(c, capacity), NEW p \in Payments,
           p \notin c.lcss.incoming_htlcs, p \notin RemoteAdds(c.uncommitted),
           Amount[p] <= NextBalance(c.balance, c.uncommitted).remote
    PROVE  Healthy(Add(c, RemoteAdd(p)), capacity)
<1> DEFINE U == c.uncommitted
           u == RemoteAdd(p)
<1>1. /\ c.lcss \in FiniteLcss /\ c.lcss \in LcssType /\ c.balance \in Balances
      /\ U \in FiniteUpdates /\ u \in Update
  BY Zenon, UpdateShapes DEF Healthy, Channel, FiniteLcss
<1>2. RemoteAdd(p) \notin U
  BY Zenon, <1>1, HtlcsOfMember DEF FiniteUpdates
<1>3. Sound(c.lcss, c.balance, U)
  BY Zenon DEF Healthy, Candidates
<1>4. Sound(c.lcss, c.balance, U \cup {u})
  BY Zenon, <1>1, <1>2, <1>3, RemoteAddSound
<1>5. LocalAdds(U \cup {u}) = LocalAdds(U)
  <2>1. u.side = "remote"
    BY Zenon DEF RemoteAdd
  <2> HIDE DEF u
  <2> QED
    BY Zenon, <2>1 DEF LocalAdds, HtlcsOf
<1>6. U \cup {u} \in FiniteUpdates
  BY Zenon, <1>1, AddUpdate
<1> HIDE DEF u
<1>7. ASSUME NEW h \in LocalAdds(U \cup {u})
      PROVE  h.id <= NextLcss(c.lcss, U \cup {u}).local_updates
  <2>1. h.id <= NextLcss(c.lcss, U).local_updates /\ h.id \in Nat
    <3>1. h \in LocalAdds(U) /\ U \in Candidates(c)
      BY Zenon, <1>5 DEF Candidates
    <3>2. h \in Outgoing
      BY Zenon, <1>1, <3>1, AddsType
    <3> QED
      BY <3>1, <3>2 DEF Healthy, Outgoing
  <2>2. NextLcss(c.lcss, U).local_updates <= NextLcss(c.lcss, U \cup {u}).local_updates
    BY Zenon, <1>1, <1>6, CounterGrows
  <2>3. /\ NextLcss(c.lcss, U).local_updates \in Nat
        /\ NextLcss(c.lcss, U \cup {u}).local_updates \in Nat
    BY Zenon, <1>1, <1>6, NextLcssType DEF FiniteLcss, LcssType
  <2> QED
    BY <2>1, <2>2, <2>3
<1>8. Healthy(Add(c, u), capacity)
  BY Zenon, <1>1, <1>4, <1>7, AddHealthy
<1> QED
  BY Zenon, <1>8 DEF u

-----------------------------------------------------------------------------
(* The funds of both channels                                              *)

\* HTLC p of the source awaits its answer.
Open(p) == p \in src.lcss.incoming_htlcs /\ ~LocalResolved(src.uncommitted, p)

ChannelsInv ==
    /\ Healthy(src, SourceFunds) /\ Healthy(tgt, TargetFunds)
    /\ heard \subseteq Payments
    /\ src.lcss.incoming_htlcs \cup RemoteAdds(src.uncommitted) \subseteq heard
    /\ loop \in [dispatch : SUBSET Payments, fail : SUBSET Nat, fulfill : SUBSET Nat]

\* What the target tells the source is written if the HTLC has no answer yet.
LEMMA AnswerStep ==
    ASSUME Healthy(src, SourceFunds), NEW p, NEW ok,
           NEW u \in {LocalFulfill(p), LocalFail(p)}, Answer(p, u, ok)
    PROVE  /\ Healthy(src', SourceFunds) /\ src'.lcss = src.lcss
           /\ RemoteAdds(src'.uncommitted) = RemoteAdds(src.uncommitted)
           /\ src'.uncommitted = IF Open(p) THEN src.uncommitted \cup {u} ELSE src.uncommitted
<1>1. CASE ~Open(p)
  BY Zenon, <1>1 DEF Answer, Open
<1>2. CASE Open(p)
  <2> DEFINE c == Add(src, u)
  <2>1. p \in src.lcss.incoming_htlcs /\ ~LocalResolved(src.uncommitted, p) /\ src \in Channel
    BY Zenon, <1>2 DEF Open, Healthy
  <2>2. u \in Update
    BY Zenon, <2>1, UpdateShapes DEF Channel, FiniteLcss, LcssType
  <2>3. Resolves(src.lcss, src.uncommitted, {u})
    BY Zenon, <2>1, OneAnswer
  <2>4. /\ Healthy(c, SourceFunds)
        /\ RemoteAdds(src.uncommitted \cup {u}) = RemoteAdds(src.uncommitted)
    BY Zenon, <2>2, <2>3, ResolveHealthy
  <2>5. src' = c \/ src' = Sign(c)
    BY Zenon, <2>1 DEF Answer
  <2>6. c.lcss = src.lcss /\ c.uncommitted = src.uncommitted \cup {u}
    BY Zenon, <2>1 DEF Add, Channel
  <2> HIDE DEF c
  <2>7. Sign(c).lcss = c.lcss /\ Sign(c).uncommitted = c.uncommitted
    BY Zenon, <2>4 DEF Sign, Healthy, Channel
  <2> QED
    BY Zenon, <1>2, <2>4, <2>5, <2>6, <2>7, SignHealthy
<1> QED
  BY Zenon, <1>1, <1>2

\* What the handlers of one channel do to its record besides adding an update.
LEMMA RecordSteps ==
    ASSUME NEW c, NEW capacity \in Nat, Healthy(c, capacity), NEW d,
           \/ \E U \in Candidates(c) : d = Fold(c, U)
           \/ \E e \in Errors : d = Error(c, e)
           \/ d \in {Proposes(c), Overrides(c, capacity), Accepts(c, capacity)}
    PROVE  /\ Healthy(d, capacity)
           /\ d.lcss.incoming_htlcs \cup RemoteAdds(d.uncommitted)
                 \subseteq c.lcss.incoming_htlcs \cup RemoteAdds(c.uncommitted)
<1>0. c \in Channel /\ RemoteAdds({}) = {}
  BY Zenon DEF Healthy, RemoteAdds, HtlcsOf
<1>1. ASSUME NEW U \in Candidates(c), d = Fold(c, U)
      PROVE  /\ Healthy(d, capacity)
             /\ d.lcss.incoming_htlcs \cup RemoteAdds(d.uncommitted)
                   \subseteq c.lcss.incoming_htlcs \cup RemoteAdds(c.uncommitted)
  <2>1. Healthy(d, capacity)
    BY Zenon, <1>1, FoldHealthy
  <2>2. U \subseteq c.uncommitted
    BY Zenon DEF Candidates, Healthy
  <2>3. RemoteAdds(U) \subseteq RemoteAdds(c.uncommitted)
    BY Zenon, <2>2 DEF RemoteAdds, HtlcsOf
  <2>4. d.lcss = NextLcss(c.lcss, U) /\ d.uncommitted = {}
    BY Zenon, <1>0, <1>1, FoldFields
  <2>5. d.lcss.incoming_htlcs \subseteq c.lcss.incoming_htlcs \cup RemoteAdds(U)
    BY <2>4 DEF NextLcss
  <2> QED
    BY Zenon, <1>0, <2>1, <2>3, <2>4, <2>5
<1>2. ASSUME NEW e \in Errors, d = Error(c, e)
      PROVE  Healthy(d, capacity) /\ d.lcss = c.lcss /\ d.uncommitted = c.uncommitted
  BY Zenon, <1>0, <1>2, ErrorHealthy, ErrorFields
<1>3. CASE d \in {Proposes(c), Overrides(c, capacity), Accepts(c, capacity)}
  <2>1. Quiet(c, d)
    BY Zenon, <1>0, <1>3, QuietFields
  <2>2. Healthy(d, capacity)
    BY Zenon, <1>3, ProposesHealthy, OverridesHealthy
  <2> QED
    BY Zenon, <1>0, <2>1, <2>2 DEF Quiet
<1> QED
  BY Zenon, <1>1, <1>2, <1>3

\* The links and HTLCs of the target, and what was paid or refunded, name HTLCs of the
\* source that its client has committed to.
Known(p) == p \in heard /\ p \notin RemoteAdds(src.uncommitted)

KnownInv ==
    /\ \A i \in DOMAIN links : Known(links[i])
    /\ \A h \in Live : Known(h.pay)
    /\ \A p \in paid \cup refunded : Known(p)
    /\ refunded \cap src.lcss.incoming_htlcs = {}
    /\ \A p \in loop.dispatch : Open(p) /\ LinksFor(links, p) = {}
    /\ loop.dispatch # {} => loop.fail = {} /\ loop.fulfill = {}

\* What dispatching an HTLC without a link may do.
LEMMA DispatchCases ==
    ASSUME NEW p, NEW ok, DispatchCommittedIncomingHtlc(p, ok), LinksFor(links, p) = {}
    PROVE  \/ Answer(p, LocalFail(p), ok) /\ tgt' = tgt /\ links' = links
           \/ src' = src /\ tgt' = tgt /\ links' = links
           \/ /\ Fits(p) /\ tgt' = Sign(Add(tgt, LocalAdd(Hosted(p))))
              /\ links' = Linked(Hosted(p)) /\ src' = src
           \/ /\ Fits(p) /\ tgt' = Error(Add(tgt, LocalAdd(Hosted(p))), "fence")
              /\ FailBack(Linked(Hosted(p)), p, ok)
<1>1. CASE Refuse(p, ok)
  BY Zenon, <1>1 DEF Refuse
<1>2. CASE src' = src /\ tgt' = tgt /\ links' = links
  BY Zenon, <1>2
<1>3. CASE ChannelHandleHtlcAdd(p, ok)
  BY Zenon, <1>3 DEF ChannelHandleHtlcAdd, FailBack
<1> QED
  BY Zenon, <1>1, <1>2, <1>3 DEF DispatchCommittedIncomingHtlc

\* What an offer leaves in the target.
LEMMA OfferStep ==
    ASSUME ChannelsInv, NEW p \in Payments, Fits(p),
           \/ tgt' = Sign(Add(tgt, LocalAdd(Hosted(p))))
           \/ tgt' = Error(Add(tgt, LocalAdd(Hosted(p))), "fence")
    PROVE  /\ Healthy(tgt', TargetFunds) /\ tgt'.lcss = tgt.lcss
           /\ Hosted(p) \in Outgoing /\ Hosted(p).pay = p
           /\ tgt'.uncommitted = tgt.uncommitted \cup {LocalAdd(Hosted(p))}
           /\ \A g \in Live : g.id # Hosted(p).id
           /\ tgt.errors \subseteq tgt'.errors
<1> DEFINE h == Hosted(p)
           c == Add(tgt, LocalAdd(h))
<1>1. /\ Healthy(tgt, TargetFunds) /\ tgt \in Channel
      /\ Amount[p] <= NextBalance(tgt.balance, tgt.uncommitted).local
      /\ h = [id |-> NextLcss(tgt.lcss, tgt.uncommitted).local_updates + 1, pay |-> p]
  BY Zenon DEF ChannelsInv, Healthy, Fits, Hosted
<1>2. h.pay = p
  BY <1>1
<1> HIDE DEF h
<1>3. /\ h \in Outgoing /\ Healthy(c, TargetFunds)
      /\ \A g \in tgt.lcss.outgoing_htlcs \cup LocalAdds(tgt.uncommitted) : g.id # h.id
  BY Zenon, <1>1, OfferHealthy
<1>4. /\ c.lcss = tgt.lcss /\ c.uncommitted = tgt.uncommitted \cup {LocalAdd(h)}
      /\ c.errors = tgt.errors
  BY Zenon, <1>1, AddFields
<1>5. tgt' = Sign(c) \/ tgt' = Error(c, "fence")
  BY Zenon DEF h
<1> HIDE DEF c
<1>6. c \in Channel /\ "fence" \in Errors
  BY Zenon, <1>3 DEF Healthy, Errors
<1>7. /\ Sign(c).lcss = c.lcss /\ Sign(c).errors = c.errors /\ Sign(c).uncommitted = c.uncommitted
      /\ Error(c, "fence").lcss = c.lcss /\ Error(c, "fence").errors = c.errors \cup {"fence"}
      /\ Error(c, "fence").uncommitted = c.uncommitted
  BY Zenon, <1>6, SignFields, ErrorFields
<1>8. Healthy(Sign(c), TargetFunds) /\ Healthy(Error(c, "fence"), TargetFunds)
  BY Zenon, <1>3, <1>6, SignHealthy, ErrorHealthy
<1> QED
  BY Zenon, <1>2, <1>3, <1>4, <1>5, <1>7, <1>8 DEF Live, h

LEMMA CapacityType == SourceFunds \in Nat /\ TargetFunds \in Nat
BY Zenon, PairAssumption

\* A step that leaves the channels, what was heard and the loop as they are.
LEMMA ChannelsStutter ==
    ASSUME ChannelsInv, src' = src, tgt' = tgt, heard' = heard,
           loop' \in [dispatch : SUBSET Payments, fail : SUBSET Nat, fulfill : SUBSET Nat]
    PROVE  ChannelsInv'
BY Zenon DEF ChannelsInv

\* A step of the source besides the adding of an update.
LEMMA SourceRecordStep ==
    ASSUME ChannelsInv, tgt' = tgt, heard' = heard,
           loop' \in [dispatch : SUBSET Payments, fail : SUBSET Nat, fulfill : SUBSET Nat],
           \/ \E U \in Candidates(src) : src' = Fold(src, U)
           \/ \E e \in Errors : src' = Error(src, e)
           \/ src' \in {Proposes(src), Overrides(src, SourceFunds), Accepts(src, SourceFunds)}
    PROVE  ChannelsInv'
<1>1. Healthy(src, SourceFunds) /\ SourceFunds \in Nat
  BY Zenon, CapacityType DEF ChannelsInv
<1>2. /\ Healthy(src', SourceFunds)
      /\ src'.lcss.incoming_htlcs \cup RemoteAdds(src'.uncommitted)
            \subseteq src.lcss.incoming_htlcs \cup RemoteAdds(src.uncommitted)
  BY Zenon, <1>1, RecordSteps
<1> QED
  BY Zenon, <1>2 DEF ChannelsInv

LEMMA TargetRecordStep ==
    ASSUME ChannelsInv, src' = src, heard' = heard,
           loop' \in [dispatch : SUBSET Payments, fail : SUBSET Nat, fulfill : SUBSET Nat],
           \/ \E U \in Candidates(tgt) : tgt' = Fold(tgt, U)
           \/ \E e \in Errors : tgt' = Error(tgt, e)
           \/ tgt' \in {Proposes(tgt), Overrides(tgt, TargetFunds), Accepts(tgt, TargetFunds)}
    PROVE  ChannelsInv'
<1>1. Healthy(tgt, TargetFunds) /\ TargetFunds \in Nat
  BY Zenon, CapacityType DEF ChannelsInv
<1>2. Healthy(tgt', TargetFunds)
  BY Zenon, <1>1, RecordSteps
<1> QED
  BY Zenon, <1>2 DEF ChannelsInv

\* The target tells the source what became of an HTLC.
LEMMA ResolveForwardStep ==
    ASSUME ChannelsInv, NEW id, NEW ok, NEW u,
           \/ ResolveForwardFulfill(id, ok) /\ u = LocalFulfill(links[id])
           \/ ResolveForwardFail(id, ok) /\ u = LocalFail(links[id])
    PROVE  /\ Healthy(src', SourceFunds) /\ src'.lcss = src.lcss
           /\ RemoteAdds(src'.uncommitted) = RemoteAdds(src.uncommitted)
           /\ \/ id \notin DOMAIN links /\ src' = src /\ links' = links
              \/ /\ id \in DOMAIN links /\ links' \in {links, Unlinked(links, {id})}
                 /\ src'.uncommitted = IF Open(links[id]) THEN src.uncommitted \cup {u}
                                       ELSE src.uncommitted
<1>1. CASE id \notin DOMAIN links
  BY Zenon, <1>1 DEF ChannelsInv, ResolveForwardFulfill, ResolveForwardFail
<1>2. CASE id \in DOMAIN links
  <2>1. Answer(links[id], u, ok) /\ u \in {LocalFulfill(links[id]), LocalFail(links[id])}
    BY Zenon, <1>2 DEF ResolveForwardFulfill, ResolveForwardFail
  <2>2. links' \in {links, Unlinked(links, {id})}
    BY Zenon, <1>2 DEF ResolveForwardFulfill, ResolveForwardFail
  <2>3. /\ Healthy(src', SourceFunds) /\ src'.lcss = src.lcss
        /\ RemoteAdds(src'.uncommitted) = RemoteAdds(src.uncommitted)
        /\ src'.uncommitted = IF Open(links[id]) THEN src.uncommitted \cup {u}
                              ELSE src.uncommitted
    BY Zenon, <2>1, AnswerStep DEF ChannelsInv
  <2> QED
    BY Zenon, <1>2, <2>2, <2>3
<1> QED
  BY Zenon, <1>1, <1>2

\* The client of the target answers an HTLC.
LEMMA TargetAnswerStep ==
    ASSUME ChannelsInv, NEW h, Answerable(h), NEW u \in {RemoteFulfill(h), RemoteFail(h)},
           tgt' = Add(tgt, u)
    PROVE  /\ Healthy(tgt', TargetFunds) /\ tgt'.lcss = tgt.lcss /\ tgt'.errors = tgt.errors
           /\ tgt'.uncommitted = tgt.uncommitted \cup {u}
           /\ LocalAdds(tgt'.uncommitted) = LocalAdds(tgt.uncommitted)
<1>1. /\ Healthy(tgt, TargetFunds) /\ tgt \in Channel
      /\ h \in tgt.lcss.outgoing_htlcs /\ ~RemoteResolved(tgt.uncommitted, h)
  BY Zenon DEF ChannelsInv, Healthy, Answerable
<1>2. u \in Update
  BY Zenon, <1>1, UpdateShapes DEF Channel, FiniteLcss, LcssType
<1>3. Resolves(tgt.lcss, tgt.uncommitted, {u})
  BY Zenon, <1>1, OneResolution
<1>4. /\ Healthy(Add(tgt, u), TargetFunds)
      /\ LocalAdds(tgt.uncommitted \cup {u}) = LocalAdds(tgt.uncommitted)
  BY Zenon, <1>1, <1>2, <1>3, ResolveHealthy
<1>5. /\ tgt'.lcss = tgt.lcss /\ tgt'.errors = tgt.errors
      /\ tgt'.uncommitted = tgt.uncommitted \cup {u}
  BY Zenon, <1>1, AddFields
<1> QED
  BY Zenon, <1>4, <1>5

\* The rounds of the loops keep ChannelsInv.
LEMMA RoundHealth ==
    ASSUME ChannelsInv, KnownInv, DispatchRound \/ FailRound \/ FulfillRound \/ Restart
    PROVE  ChannelsInv'
<1>0. Done \in [dispatch : SUBSET Payments, fail : SUBSET Nat, fulfill : SUBSET Nat]
  BY Zenon DEF Done
<1>1. CASE DispatchRound
  <2>1. PICK p \in loop.dispatch, ok \in BOOLEAN :
           /\ DispatchCommittedIncomingHtlc(p, ok)
           /\ loop' = IF ok THEN [loop EXCEPT !.dispatch = @ \ {p}] ELSE Done
           /\ heard' = heard
    BY Zenon, <1>1 DEF DispatchRound, envVars
  <2>2. p \in Payments /\ LinksFor(links, p) = {}
    BY Zenon DEF ChannelsInv, KnownInv
  <2>3. loop' \in [dispatch : SUBSET Payments, fail : SUBSET Nat, fulfill : SUBSET Nat]
    BY Zenon, <1>0, <2>1 DEF ChannelsInv
  <2>4. ASSUME \/ src' = src
               \/ Answer(p, LocalFail(p), ok)
        PROVE  /\ Healthy(src', SourceFunds) /\ src'.lcss = src.lcss
               /\ RemoteAdds(src'.uncommitted) = RemoteAdds(src.uncommitted)
    BY Zenon, <2>4, AnswerStep DEF ChannelsInv
  <2>5. src' = src \/ Answer(p, LocalFail(p), ok)
    BY Zenon, <2>1, <2>2, DispatchCases DEF FailBack
  <2>6. Healthy(tgt', TargetFunds)
    <3>1. CASE tgt' = tgt
      BY Zenon, <3>1 DEF ChannelsInv
    <3>2. CASE /\ Fits(p) /\ \/ tgt' = Sign(Add(tgt, LocalAdd(Hosted(p))))
                             \/ tgt' = Error(Add(tgt, LocalAdd(Hosted(p))), "fence")
      BY Zenon, <2>2, <3>2, OfferStep
    <3> QED
      BY Zenon, <2>1, <2>2, <3>1, <3>2, DispatchCases
  <2> QED
    BY Zenon, <2>1, <2>3, <2>4, <2>5, <2>6 DEF ChannelsInv
<1>2. CASE FailRound \/ FulfillRound
  <2>1. PICK id \in loop.fail \cup loop.fulfill, ok \in BOOLEAN :
           /\ ResolveForwardFail(id, ok) \/ ResolveForwardFulfill(id, ok)
           /\ loop' \in {[loop EXCEPT !.fail = @ \ {id}], [loop EXCEPT !.fulfill = @ \ {id}], Done}
           /\ heard' = heard /\ tgt' = tgt
    BY Zenon, <1>2 DEF FailRound, FulfillRound, envVars
  <2>2. /\ Healthy(src', SourceFunds) /\ src'.lcss = src.lcss
        /\ RemoteAdds(src'.uncommitted) = RemoteAdds(src.uncommitted)
    <3>1. CASE ResolveForwardFail(id, ok)
      BY Zenon, <3>1, ResolveForwardStep
    <3>2. CASE ResolveForwardFulfill(id, ok)
      BY Zenon, <3>2, ResolveForwardStep
    <3> QED
      BY Zenon, <2>1, <3>1, <3>2
  <2>3. loop' \in [dispatch : SUBSET Payments, fail : SUBSET Nat, fulfill : SUBSET Nat]
    BY Zenon, <1>0, <2>1 DEF ChannelsInv
  <2> QED
    BY Zenon, <2>1, <2>2, <2>3 DEF ChannelsInv
<1>3. CASE Restart
  BY Zenon, <1>0, <1>3, ChannelsStutter DEF Restart
<1> QED
  BY Zenon, <1>1, <1>2, <1>3

\* So do the beginnings of the handlers.
LEMMA HandlerHealth ==
    ASSUME ChannelsInv, Handler
    PROVE  ChannelsInv'
<1> DEFINE Loops == [dispatch : SUBSET Payments, fail : SUBSET Nat, fulfill : SUBSET Nat]
<1>0. /\ loop \in Loops /\ src \in Channel /\ tgt \in Channel
      /\ src.lcss.incoming_htlcs \subseteq Payments
      /\ \A U \in Candidates(tgt) : U \in FiniteUpdates
      /\ \A h \in tgt.lcss.outgoing_htlcs : h.id \in Nat
  BY Zenon DEF ChannelsInv, Healthy, Channel, FiniteLcss, LcssType, Outgoing, Candidates
<1>1. ASSUME NEW p \in Payments, SourceAdd(p) PROVE ChannelsInv'
  <2>1. /\ p \notin src.lcss.incoming_htlcs /\ p \notin RemoteAdds(src.uncommitted)
        /\ heard' = heard \cup {p} /\ tgt' = tgt /\ loop' = loop
    BY Zenon, <1>1 DEF SourceAdd, ChannelsInv
  <2>2. CASE src' = Error(src, "other")
    <3>1. Healthy(src', SourceFunds)
      BY Zenon, <2>2, ErrorHealthy DEF ChannelsInv, Errors
    <3>2. src'.lcss = src.lcss /\ src'.uncommitted = src.uncommitted
      BY Zenon, <1>0, <2>2, ErrorFields
    <3> QED
      BY Zenon, <2>1, <3>1, <3>2 DEF ChannelsInv
  <2>3. CASE /\ src' = Add(src, RemoteAdd(p))
             /\ ~(Amount[p] > NextBalance(src.balance, src.uncommitted).remote)
    <3>1. Amount[p] <= NextBalance(src.balance, src.uncommitted).remote
      <4>1. Amount[p] \in Int /\ NextBalance(src.balance, src.uncommitted) \in Balances
        BY <1>0, AmountType, NextBalanceType DEF Channel
      <4> QED
        BY <2>3, <4>1 DEF Balances
    <3>2. Healthy(src', SourceFunds)
      BY Zenon, <2>1, <2>3, <3>1, AcceptHealthy DEF ChannelsInv
    <3>3. src'.lcss = src.lcss /\ src'.uncommitted = src.uncommitted \cup {RemoteAdd(p)}
      BY Zenon, <1>0, <2>3, AddFields
    <3>4. RemoteAdds(src'.uncommitted) = RemoteAdds(src.uncommitted) \cup {p}
      BY Zenon, <3>3, AddsOfUnion
    <3> QED
      BY Zenon, <2>1, <3>2, <3>3, <3>4 DEF ChannelsInv
  <2> QED
    BY Zenon, <1>1, <2>2, <2>3 DEF SourceAdd
<1>2. ASSUME NEW p \in Replied, ReplyPreimages(p) PROVE ChannelsInv'
  BY Zenon, <1>0, <1>2, ChannelsStutter DEF ReplyPreimages, envVars
<1>3. CASE SourceCommit
  <2>1. /\ src' = Fold(src, src.uncommitted) /\ src.uncommitted \in Candidates(src)
        /\ tgt' = tgt /\ heard' = heard
        /\ loop' \in {[loop EXCEPT !.dispatch = src'.lcss.incoming_htlcs \ src.lcss.incoming_htlcs],
                      loop}
    BY Zenon, <1>3 DEF SourceCommit, Candidates, envVars
  <2>2. src'.lcss.incoming_htlcs \subseteq Payments
    <3>1. Healthy(src', SourceFunds)
      BY Zenon, <2>1, CapacityType, FoldHealthy DEF ChannelsInv
    <3> QED
      BY Zenon, <3>1 DEF Healthy, Channel, FiniteLcss, LcssType
  <2>3. loop' \in Loops
    BY Zenon, <1>0, <2>1, <2>2
  <2> QED
    BY Zenon, <2>1, <2>3, SourceRecordStep
<1>4. CASE SourceAdopts
  <2>1. PICK U \in src.signed : src' = Fold(src, U) /\ tgt' = tgt /\ heard' = heard /\ loop' = loop
    BY Zenon, <1>4 DEF SourceAdopts, envVars
  <2> QED
    BY Zenon, <1>0, <2>1, SourceRecordStep DEF Candidates
<1>5. CASE SourceConnects
  <2>1. /\ src' = src /\ tgt' = tgt /\ heard' = heard
        /\ loop' = [loop EXCEPT !.dispatch = Undispatched]
    BY Zenon, <1>5 DEF SourceConnects, envVars
  <2>2. loop' \in Loops
    BY Zenon, <1>0, <2>1 DEF Undispatched
  <2> QED
    BY Zenon, <2>1, <2>2, ChannelsStutter
<1>6. ASSUME NEW h \in Live, TargetFulfill(h) PROVE ChannelsInv'
  <2>1. PICK ok \in BOOLEAN : ResolveForwardFulfill(h.id, ok)
    BY Zenon, <1>6 DEF TargetFulfill
  <2>2. /\ Healthy(src', SourceFunds) /\ src'.lcss = src.lcss
        /\ RemoteAdds(src'.uncommitted) = RemoteAdds(src.uncommitted)
    BY Zenon, <2>1, ResolveForwardStep
  <2>3. Healthy(tgt', TargetFunds)
    BY Zenon, <1>6, TargetAnswerStep DEF TargetFulfill
  <2> QED
    BY Zenon, <1>6, <2>2, <2>3 DEF ChannelsInv, TargetFulfill, envVars
<1>7. ASSUME NEW h \in Live, TargetFail(h) PROVE ChannelsInv'
  <2>1. Healthy(tgt', TargetFunds)
    BY Zenon, <1>7, TargetAnswerStep DEF TargetFail
  <2> QED
    BY Zenon, <1>7, <2>1 DEF ChannelsInv, TargetFail, envVars
<1>8. ASSUME NEW h \in Live, CommitTimeout(h) PROVE ChannelsInv'
  <2>1. PICK ok \in BOOLEAN : ResolveForwardFail(h.id, ok)
    BY Zenon, <1>8 DEF CommitTimeout
  <2>2. /\ Healthy(src', SourceFunds) /\ src'.lcss = src.lcss
        /\ RemoteAdds(src'.uncommitted) = RemoteAdds(src.uncommitted)
    BY Zenon, <2>1, ResolveForwardStep
  <2>3. Healthy(tgt', TargetFunds)
    BY Zenon, <1>8, ErrorHealthy DEF CommitTimeout, ChannelsInv, Errors
  <2> QED
    BY Zenon, <1>8, <2>2, <2>3 DEF ChannelsInv, CommitTimeout, envVars
<1>9. CASE TargetCommit
  <2>1. /\ tgt' = Fold(tgt, tgt.uncommitted) /\ tgt.uncommitted \in Candidates(tgt)
        /\ src' = src /\ heard' = heard
        /\ loop' \in {[loop EXCEPT !.fail = {h.id : h \in HtlcsOf(tgt.uncommitted, "remote", "fail")}],
                      loop}
    BY Zenon, <1>9 DEF TargetCommit, Candidates, envVars
  <2>2. HtlcsOf(tgt.uncommitted, "remote", "fail") \subseteq tgt.lcss.outgoing_htlcs
    BY Zenon, <2>1 DEF ChannelsInv, Healthy, Sound, Applicable
  <2>3. loop' \in Loops
    BY <1>0, <2>1, <2>2
  <2> QED
    BY Zenon, <2>1, <2>3, TargetRecordStep
<1>10. CASE TargetAdopts
  <2>1. PICK U \in tgt.signed : tgt' = Fold(tgt, U) /\ src' = src /\ heard' = heard /\ loop' = loop
    BY Zenon, <1>10 DEF TargetAdopts, envVars
  <2> QED
    BY Zenon, <1>0, <2>1, TargetRecordStep DEF Candidates
<1>11. CASE TargetConnects \/ TargetDisconnects
  <2>1. /\ src' = src /\ tgt' = tgt /\ heard' = heard
        /\ loop' \in {[loop EXCEPT !.fulfill = {h.id : h \in Fulfillable}], loop}
    BY Zenon, <1>11 DEF TargetConnects, TargetDisconnects
  <2>2. loop' \in Loops
    BY <1>0, <2>1 DEF Fulfillable
  <2> QED
    BY Zenon, <2>1, <2>2, ChannelsStutter
<1>12. CASE ClientErrors \/ ProposeOverride \/ AcceptOverride \/ AdoptOverride
  <2>1. /\ loop' \in Loops /\ heard' = heard
        /\ \/ /\ tgt' = tgt
              /\ \/ \E e \in Errors : src' = Error(src, e)
                 \/ src' \in {Proposes(src), Overrides(src, SourceFunds), Accepts(src, SourceFunds)}
           \/ /\ src' = src
              /\ \/ \E e \in Errors : tgt' = Error(tgt, e)
                 \/ tgt' \in {Proposes(tgt), Overrides(tgt, TargetFunds), Accepts(tgt, TargetFunds)}
    BY Zenon, <1>0, <1>12
       DEF ClientErrors, ProposeOverride, AcceptOverride, AdoptOverride, Errors, envVars
  <2> QED
    BY Zenon, <2>1, SourceRecordStep, TargetRecordStep
<1> QED
  BY Zenon, <1>1, <1>2, <1>3, <1>4, <1>5, <1>6, <1>7, <1>8, <1>9, <1>10, <1>11, <1>12 DEF Handler

-----------------------------------------------------------------------------
(* What the host knows of HTLCs of the source                              *)

LEMMA PairInit ==
    ASSUME Init
    PROVE  ChannelsInv /\ KnownInv
<1>1. Healthy(src, SourceFunds) /\ Healthy(tgt, TargetFunds)
  <2>1. Healthy(Fresh(0, SourceFunds), 0 + SourceFunds) /\ Healthy(Fresh(TargetFunds, 0), TargetFunds + 0)
    BY Zenon, CapacityType, FreshHealthy
  <2>2. 0 + SourceFunds = SourceFunds /\ TargetFunds + 0 = TargetFunds
    BY CapacityType
  <2> QED
    BY Zenon, <2>1, <2>2 DEF Init
<1>2. /\ src.lcss.incoming_htlcs = {} /\ src.uncommitted = {}
      /\ tgt.lcss.outgoing_htlcs = {} /\ tgt.uncommitted = {}
  BY Zenon DEF Init, Fresh
<1>3. LocalAdds({}) = {} /\ RemoteAdds({}) = {}
  BY Zenon DEF LocalAdds, RemoteAdds, HtlcsOf
<1>4. ChannelsInv
  BY Zenon, <1>1, <1>2, <1>3 DEF ChannelsInv, Init, Done
<1> QED
  BY Zenon, <1>2, <1>3, <1>4 DEF KnownInv, Init, Done, Live


\* The rounds of the loops keep what is known.
LEMMA RoundKnown ==
    ASSUME ChannelsInv, KnownInv, ChannelsInv', FailRound \/ FulfillRound \/ Restart
    PROVE  KnownInv'
<1>0. loop \in [dispatch : SUBSET Payments, fail : SUBSET Nat, fulfill : SUBSET Nat]
  BY Zenon DEF ChannelsInv
<1>1. CASE FailRound \/ FulfillRound
  <2>1. PICK id \in loop.fail \cup loop.fulfill, ok \in BOOLEAN :
           /\ ResolveForwardFail(id, ok) \/ ResolveForwardFulfill(id, ok)
           /\ loop' \in {[loop EXCEPT !.fail = @ \ {id}], [loop EXCEPT !.fulfill = @ \ {id}], Done}
           /\ heard' = heard /\ tgt' = tgt /\ paid' = paid /\ refunded' = refunded
    BY Zenon, <1>1 DEF FailRound, FulfillRound, envVars, history
  <2>2. /\ src'.lcss = src.lcss /\ RemoteAdds(src'.uncommitted) = RemoteAdds(src.uncommitted)
        /\ links' \in {links, Unlinked(links, {id})}
    <3>1. CASE ResolveForwardFail(id, ok)
      BY Zenon, <3>1, ResolveForwardStep
    <3>2. CASE ResolveForwardFulfill(id, ok)
      BY Zenon, <3>2, ResolveForwardStep
    <3> QED
      BY Zenon, <2>1, <3>1, <3>2
  <2>3. \A p : Known(p) => Known(p)'
    BY Zenon, <2>1, <2>2 DEF Known
  <2>4. loop.dispatch = {} /\ loop'.dispatch = {}
    BY <1>0, <2>1 DEF KnownInv, Done
  <2>5. \A i \in DOMAIN links' : i \in DOMAIN links /\ links'[i] = links[i]
    BY Zenon, <2>2 DEF Unlinked
  <2>6. Live' = Live
    BY Zenon, <2>1 DEF Live
  <2> QED
    BY Zenon, <2>1, <2>2, <2>3, <2>4, <2>5, <2>6 DEF KnownInv
<1>2. CASE Restart
  <2>1. /\ src' = src /\ tgt' = tgt /\ links' = links /\ heard' = heard
        /\ paid' = paid /\ refunded' = refunded /\ loop' = Done
    BY Zenon, <1>2 DEF Restart, history
  <2>2. \A p : Known(p)' = Known(p)
    BY Zenon, <2>1 DEF Known
  <2>3. Live' = Live
    BY Zenon, <2>1 DEF Live
  <2> QED
    BY Zenon, <2>1, <2>2, <2>3 DEF KnownInv, Done
<1> QED
  BY Zenon, <1>1, <1>2

\* Dispatching p leaves only links and HTLCs of the target for p, which is in flight.
LEMMA LinkedValues ==
    ASSUME NEW h, NEW ids, NEW i,
           i \in DOMAIN Linked(h) \/ i \in DOMAIN Unlinked(Linked(h), ids)
    PROVE  /\ i \in DOMAIN links \cup {h.id}
           /\ Linked(h)[i] = IF i \in DOMAIN links THEN links[i] ELSE h.pay
           /\ i \in DOMAIN Unlinked(Linked(h), ids) => Unlinked(Linked(h), ids)[i] = Linked(h)[i]
BY Zenon DEF Linked, Unlinked

LEMMA DispatchKnown ==
    ASSUME ChannelsInv, KnownInv, ChannelsInv', DispatchRound
    PROVE  KnownInv'
<1>0. loop \in [dispatch : SUBSET Payments, fail : SUBSET Nat, fulfill : SUBSET Nat]
  BY Zenon DEF ChannelsInv
<1>1. PICK p \in loop.dispatch, ok \in BOOLEAN :
         /\ DispatchCommittedIncomingHtlc(p, ok)
         /\ loop' = IF ok THEN [loop EXCEPT !.dispatch = @ \ {p}] ELSE Done
         /\ heard' = heard /\ paid' = paid /\ refunded' = refunded
  BY Zenon DEF DispatchRound, envVars
<1>2. p \in Payments /\ LinksFor(links, p) = {} /\ Open(p) /\ loop.fail = {} /\ loop.fulfill = {}
  BY Zenon, <1>0 DEF KnownInv
<1> DEFINE h == Hosted(p)
<1>3. /\ src'.lcss = src.lcss /\ RemoteAdds(src'.uncommitted) = RemoteAdds(src.uncommitted)
      /\ src'.uncommitted \in {src.uncommitted, src.uncommitted \cup {LocalFail(p)}}
  <2>1. CASE src' = src
    BY Zenon, <2>1
  <2>2. CASE Answer(p, LocalFail(p), ok)
    BY Zenon, <1>2, <2>2, AnswerStep DEF ChannelsInv
  <2> QED
    BY Zenon, <1>1, <1>2, <2>1, <2>2, DispatchCases DEF FailBack
<1>4. \A q : Known(q) => Known(q)'
  BY Zenon, <1>1, <1>3 DEF Known
<1>5. Known(p)'
  <2>1. p \in heard /\ p \notin RemoteAdds(src.uncommitted)
    BY Zenon, <1>2 DEF Open, ChannelsInv, Healthy, Candidates, Sound, Applicable
  <2> QED
    BY Zenon, <1>4, <2>1 DEF Known
<1>6. ASSUME NEW g \in Live' PROVE Known(g.pay)'
  <2>1. CASE tgt' = tgt
    BY Zenon, <1>4, <2>1 DEF KnownInv, Live
  <2>2. CASE /\ Fits(p) /\ \/ tgt' = Sign(Add(tgt, LocalAdd(h)))
                           \/ tgt' = Error(Add(tgt, LocalAdd(h)), "fence")
    <3>1. /\ tgt'.lcss = tgt.lcss /\ tgt'.uncommitted = tgt.uncommitted \cup {LocalAdd(h)}
          /\ h.pay = p
      BY Zenon, <1>2, <2>2, OfferStep
    <3> HIDE DEF h
    <3>2. LocalAdds(tgt'.uncommitted) = LocalAdds(tgt.uncommitted) \cup {h}
      <4>1. LocalAdds(tgt.uncommitted \cup {LocalAdd(h)}) = LocalAdds(tgt.uncommitted) \cup {h}
        BY Zenon, AddsOfUnion
      <4> QED
        BY Zenon, <3>1, <4>1
    <3> QED
      BY Zenon, <1>4, <1>5, <3>1, <3>2 DEF KnownInv, Live
  <2> QED
    BY Zenon, <1>1, <1>2, <2>1, <2>2, DispatchCases
<1>7. ASSUME NEW i \in DOMAIN links'
      PROVE  links'[i] = p \/ (i \in DOMAIN links /\ links'[i] = links[i])
  <2>1. CASE links' = links
    BY Zenon, <2>1
  <2>2. ASSUME NEW ids, links' \in {Linked(h), Unlinked(Linked(h), ids)}
        PROVE  links'[i] = p \/ (i \in DOMAIN links /\ links'[i] = links[i])
    <3>1. h.pay = p
      BY Zenon DEF Hosted
    <3> HIDE DEF h
    <3> QED
      BY <2>2, <3>1, LinkedValues
  <2>3. links' = links \/ \E ids : links' \in {Linked(h), Unlinked(Linked(h), ids)}
    BY Zenon, <1>1, <1>2, DispatchCases DEF FailBack
  <2> QED
    BY <2>1, <2>2, <2>3
<1>8. ASSUME NEW q \in loop'.dispatch PROVE (Open(q) /\ LinksFor(links, q) = {})'
  <2>1. q \in loop.dispatch /\ q # p
    BY Zenon, <1>0, <1>1 DEF Done
  <2>2. Open(q) /\ LinksFor(links, q) = {}
    BY Zenon, <2>1 DEF KnownInv
  <2>3. LocalFulfill(q) # LocalFail(p) /\ LocalFail(q) # LocalFail(p)
    BY Zenon, <2>1 DEF LocalFulfill, LocalFail
  <2>4. Open(q)'
    BY Zenon, <1>3, <2>2, <2>3 DEF Open, LocalResolved
  <2> QED
    BY Zenon, <1>7, <2>1, <2>2, <2>4 DEF LinksFor
<1>9. loop'.fail = {} /\ loop'.fulfill = {}
  BY Zenon, <1>0, <1>1, <1>2 DEF Done
<1> QED
  BY Zenon, <1>1, <1>3, <1>4, <1>5, <1>6, <1>7, <1>8, <1>9 DEF KnownInv

\* The source commits what is uncommitted, or what the host has signed of it.
LEMMA SourceFolds ==
    ASSUME ChannelsInv, KnownInv, NEW U \in Candidates(src), src' = Fold(src, U)
    PROVE  /\ src'.lcss = NextLcss(src.lcss, U) /\ src'.uncommitted = {}
           /\ U \subseteq src.uncommitted /\ U \in SUBSET Update
           /\ HtlcsOf(U, "local", "fulfill") \cup HtlcsOf(U, "local", "fail")
                 \subseteq src.lcss.incoming_htlcs
           /\ HtlcsOf(U, "local", "fulfill") \cap HtlcsOf(U, "local", "fail") = {}
           /\ src'.lcss.incoming_htlcs
                 = (src.lcss.incoming_htlcs \cup RemoteAdds(U))
                      \ (HtlcsOf(U, "local", "fulfill") \cup HtlcsOf(U, "local", "fail"))
           /\ RemoteAdds(U) \subseteq RemoteAdds(src.uncommitted)
           /\ RemoteAdds(src'.uncommitted) = {}
           /\ (refunded \cup HtlcsOf(U, "local", "fail")) \cap src'.lcss.incoming_htlcs = {}
<1>1. src \in Channel /\ Healthy(src, SourceFunds)
  BY Zenon DEF ChannelsInv, Healthy
<1>2. U \subseteq src.uncommitted /\ U \in SUBSET Update /\ Applicable(src.lcss, U)
  BY Zenon, <1>1 DEF Healthy, Channel, Candidates, FiniteUpdates, Sound
<1>3. src'.lcss = NextLcss(src.lcss, U) /\ src'.uncommitted = {}
  BY Zenon, <1>1, FoldFields
<1>4. src'.lcss.incoming_htlcs
         = (src.lcss.incoming_htlcs \cup RemoteAdds(U))
              \ (HtlcsOf(U, "local", "fulfill") \cup HtlcsOf(U, "local", "fail"))
  BY Zenon, <1>2, <1>3, NextHtlcs
<1>5. RemoteAdds(U) \subseteq RemoteAdds(src.uncommitted) /\ RemoteAdds({}) = {}
  BY Zenon, <1>2 DEF RemoteAdds, HtlcsOf
<1>6. \A q \in refunded : q \notin src.lcss.incoming_htlcs /\ q \notin RemoteAdds(U)
  BY Zenon, <1>5 DEF KnownInv, Known
<1> QED
  BY Zenon, <1>2, <1>3, <1>4, <1>5, <1>6 DEF Applicable

\* The target does so.
LEMMA TargetFolds ==
    ASSUME ChannelsInv, NEW U \in Candidates(tgt), tgt' = Fold(tgt, U)
    PROVE  /\ tgt'.lcss = NextLcss(tgt.lcss, U) /\ tgt'.uncommitted = {} /\ tgt'.errors = tgt.errors
           /\ U \subseteq tgt.uncommitted /\ U \in SUBSET Update
           /\ HtlcsOf(U, "remote", "fulfill") \cup HtlcsOf(U, "remote", "fail")
                 \subseteq tgt.lcss.outgoing_htlcs
           /\ LocalAdds(U) \cap tgt.lcss.outgoing_htlcs = {}
           /\ HtlcsOf(U, "remote", "fulfill") \cap HtlcsOf(U, "remote", "fail") = {}
           /\ tgt'.lcss.outgoing_htlcs
                 = (tgt.lcss.outgoing_htlcs \cup LocalAdds(U))
                      \ (HtlcsOf(U, "remote", "fulfill") \cup HtlcsOf(U, "remote", "fail"))
           /\ LocalAdds(U) \subseteq LocalAdds(tgt.uncommitted)
           /\ Live' = tgt'.lcss.outgoing_htlcs /\ Live' \subseteq Live
<1>1. tgt \in Channel /\ Healthy(tgt, TargetFunds)
  BY Zenon DEF ChannelsInv, Healthy
<1>2. U \subseteq tgt.uncommitted /\ U \in SUBSET Update /\ Applicable(tgt.lcss, U)
  BY Zenon, <1>1 DEF Healthy, Channel, Candidates, FiniteUpdates, Sound
<1>3. tgt'.lcss = NextLcss(tgt.lcss, U) /\ tgt'.uncommitted = {} /\ tgt'.errors = tgt.errors
  BY Zenon, <1>1, FoldFields
<1>4. tgt'.lcss.outgoing_htlcs
         = (tgt.lcss.outgoing_htlcs \cup LocalAdds(U))
              \ (HtlcsOf(U, "remote", "fulfill") \cup HtlcsOf(U, "remote", "fail"))
  <2>1. NextLcss(tgt.lcss, U).outgoing_htlcs
           = (tgt.lcss.outgoing_htlcs \cup LocalAdds(U))
                \ (HtlcsOf(U, "remote", "fulfill") \cup HtlcsOf(U, "remote", "fail"))
    BY Zenon, <1>2, NextHtlcs
  <2> QED
    BY Zenon, <1>3, <2>1
<1>5. LocalAdds(U) \subseteq LocalAdds(tgt.uncommitted) /\ LocalAdds({}) = {}
  BY Zenon, <1>2 DEF LocalAdds, HtlcsOf
<1>6. Live' = tgt'.lcss.outgoing_htlcs /\ Live' \subseteq Live
  BY Zenon, <1>3, <1>4, <1>5 DEF Live
<1> QED
  BY Zenon, <1>2, <1>3, <1>4, <1>5, <1>6 DEF Applicable

\* The handlers' beginnings keep what is known.
LEMMA HandlerKnown ==
    ASSUME ChannelsInv, KnownInv, ChannelsInv', loop = Done, Handler
    PROVE  KnownInv'
<1>0. /\ src \in Channel /\ tgt \in Channel
      /\ loop.dispatch = {} /\ loop.fail = {} /\ loop.fulfill = {}
      /\ src.lcss.incoming_htlcs \subseteq heard
      /\ RemoteAdds({}) = {} /\ LocalAdds({}) = {}
  BY Zenon DEF ChannelsInv, Healthy, Done, RemoteAdds, LocalAdds, HtlcsOf
<1>1. ASSUME NEW p \in Payments, SourceAdd(p) PROVE KnownInv'
  <2>1. /\ p \notin heard /\ heard' = heard \cup {p} /\ tgt' = tgt /\ loop' = loop
        /\ links' = links /\ paid' = paid /\ refunded' = refunded
        /\ src' \in {Error(src, "other"), Add(src, RemoteAdd(p))}
    BY Zenon, <1>1 DEF SourceAdd, history
  <2>2. /\ src'.lcss = src.lcss
        /\ src'.uncommitted \in {src.uncommitted, src.uncommitted \cup {RemoteAdd(p)}}
    <3>1. CASE src' = Error(src, "other")
      BY Zenon, <1>0, <3>1, ErrorFields
    <3>2. CASE src' = Add(src, RemoteAdd(p))
      BY Zenon, <1>0, <3>2, AddFields
    <3> QED
      BY Zenon, <2>1, <3>1, <3>2
  <2>3. RemoteAdds(src'.uncommitted) \subseteq RemoteAdds(src.uncommitted) \cup {p}
    <3>1. RemoteAdds(src.uncommitted \cup {RemoteAdd(p)}) = RemoteAdds(src.uncommitted) \cup {p}
      BY Zenon, AddsOfUnion
    <3> QED
      BY Zenon, <2>2, <3>1
  <2>4. \A q : Known(q) => Known(q)'
    BY Zenon, <2>1, <2>3 DEF Known
  <2>5. Live' = Live
    BY Zenon, <2>1 DEF Live
  <2> QED
    BY Zenon, <1>0, <2>1, <2>2, <2>4, <2>5 DEF KnownInv
<1>2. ASSUME NEW U \in Candidates(src), src' = Fold(src, U),
             refunded' = refunded \cup HtlcsOf(U, "local", "fail"),
             tgt' = tgt, links' = links, heard' = heard, paid' = paid,
             \/ loop' = loop
             \/ loop' = [loop EXCEPT !.dispatch = src'.lcss.incoming_htlcs \ src.lcss.incoming_htlcs]
      PROVE  KnownInv'
  <2>1. /\ src'.uncommitted = {} /\ RemoteAdds(src'.uncommitted) = {}
        /\ HtlcsOf(U, "local", "fail") \subseteq src.lcss.incoming_htlcs
        /\ src'.lcss.incoming_htlcs \subseteq src.lcss.incoming_htlcs \cup RemoteAdds(src.uncommitted)
        /\ refunded' \cap src'.lcss.incoming_htlcs = {}
    BY Zenon, <1>2, SourceFolds
  <2>2. \A q \in heard : Known(q)'
    BY Zenon, <1>2, <2>1 DEF Known
  <2>3. Live' = Live
    BY Zenon, <1>2 DEF Live
  <2>4. \A q \in refunded' : Known(q)'
    BY Zenon, <1>0, <1>2, <2>1, <2>2 DEF KnownInv, Known
  <2>5. ASSUME NEW q \in loop'.dispatch PROVE (Open(q) /\ LinksFor(links, q) = {})'
    <3>1. q \in src'.lcss.incoming_htlcs /\ q \in RemoteAdds(src.uncommitted)
      BY <1>0, <1>2, <2>1 DEF Done
    <3>2. LinksFor(links, q) = {}
      BY <3>1 DEF KnownInv, Known, LinksFor
    <3> QED
      BY Zenon, <1>2, <2>1, <3>1, <3>2 DEF Open, LocalResolved, LinksFor
  <2>6. loop'.fail = {} /\ loop'.fulfill = {}
    BY Zenon, <1>0, <1>2 DEF Done
  <2> QED
    BY Zenon, <1>2, <2>1, <2>2, <2>3, <2>4, <2>5, <2>6 DEF KnownInv, Known
<1>3. CASE SourceCommit
  BY Zenon, <1>2, <1>3 DEF SourceCommit, Candidates, envVars
<1>4. CASE SourceAdopts
  BY Zenon, <1>2, <1>4 DEF SourceAdopts, Candidates, envVars
<1>5. CASE SourceConnects
  <2>1. /\ src' = src /\ tgt' = tgt /\ links' = links /\ heard' = heard
        /\ paid' = paid /\ refunded' = refunded /\ loop' = [loop EXCEPT !.dispatch = Undispatched]
    BY Zenon, <1>5 DEF SourceConnects, envVars, history
  <2>2. loop'.dispatch = Undispatched /\ loop'.fail = {} /\ loop'.fulfill = {}
    BY Zenon, <1>0, <2>1 DEF Done
  <2>3. \A q \in Undispatched : (Open(q) /\ LinksFor(links, q) = {})'
    BY Zenon, <2>1 DEF Undispatched, Open, LinksFor
  <2>4. (\A q : Known(q)' = Known(q)) /\ Live' = Live
    BY Zenon, <2>1 DEF Known, Live
  <2> QED
    BY Zenon, <2>1, <2>2, <2>3, <2>4 DEF KnownInv
<1>6. ASSUME loop'.dispatch = {}, heard' = heard, refunded' = refunded,
             src'.lcss.incoming_htlcs \subseteq src.lcss.incoming_htlcs,
             RemoteAdds(src'.uncommitted) \subseteq RemoteAdds(src.uncommitted),
             \A i \in DOMAIN links' : i \in DOMAIN links /\ links'[i] = links[i],
             Live' \subseteq Live, \A p \in paid' : p \in paid \/ \E h \in Live : p = h.pay
      PROVE  KnownInv'
  <2>1. \A p : Known(p) => Known(p)'
    BY Zenon, <1>6 DEF Known
  <2>2. \A p \in paid' \cup refunded' : Known(p)
    BY Zenon, <1>6 DEF KnownInv
  <2> QED
    BY Zenon, <1>6, <2>1, <2>2 DEF KnownInv
<1>7. ASSUME NEW h \in Live, TargetFulfill(h) \/ TargetFail(h) \/ CommitTimeout(h)
      PROVE  KnownInv'
  <2>1. heard' = heard /\ refunded' = refunded /\ paid' = paid /\ loop' = loop
    BY Zenon, <1>7 DEF TargetFulfill, TargetFail, CommitTimeout, envVars, history
  <2>2. Live' = Live
    <3>1. CASE CommitTimeout(h)
      BY Zenon, <1>0, <3>1, ErrorFields DEF CommitTimeout, Live
    <3>2. CASE TargetFulfill(h) \/ TargetFail(h)
      <4>1. /\ Answerable(h)
            /\ \E u \in {RemoteFulfill(h), RemoteFail(h)} : tgt' = Add(tgt, u)
        BY Zenon, <3>2 DEF TargetFulfill, TargetFail
      <4> QED
        BY Zenon, <4>1, TargetAnswerStep DEF Live
    <3> QED
      BY Zenon, <1>7, <3>1, <3>2
  <2>3. /\ src'.lcss = src.lcss /\ RemoteAdds(src'.uncommitted) = RemoteAdds(src.uncommitted)
        /\ links' \in {links, Unlinked(links, {h.id})}
    <3>1. CASE TargetFail(h)
      BY Zenon, <3>1 DEF TargetFail
    <3>2. CASE TargetFulfill(h)
      <4>1. PICK ok \in BOOLEAN : ResolveForwardFulfill(h.id, ok)
        BY Zenon, <3>2 DEF TargetFulfill
      <4> QED
        BY Zenon, <4>1, ResolveForwardStep
    <3>3. CASE CommitTimeout(h)
      <4>1. PICK ok \in BOOLEAN : ResolveForwardFail(h.id, ok)
        BY Zenon, <3>3 DEF CommitTimeout
      <4> QED
        BY Zenon, <4>1, ResolveForwardStep
    <3> QED
      BY Zenon, <1>7, <3>1, <3>2, <3>3
  <2>4. \A i \in DOMAIN links' : i \in DOMAIN links /\ links'[i] = links[i]
    BY Zenon, <2>3 DEF Unlinked
  <2> QED
    BY Zenon, <1>0, <1>6, <2>1, <2>2, <2>3, <2>4
<1>8. CASE TargetCommit \/ TargetAdopts
  <2>1. PICK U \in Candidates(tgt) :
           /\ tgt' = Fold(tgt, U)
           /\ paid' = paid \cup {h.pay : h \in HtlcsOf(U, "remote", "fulfill")}
           /\ heard' = heard /\ refunded' = refunded /\ links' = links /\ src' = src
    BY Zenon, <1>8 DEF TargetCommit, TargetAdopts, Candidates, envVars
  <2>2. HtlcsOf(U, "remote", "fulfill") \subseteq Live /\ Live' \subseteq Live
    BY Zenon, <2>1, TargetFolds DEF Live
  <2>3. loop'.dispatch = {}
    BY Zenon, <1>0, <1>8 DEF TargetCommit, TargetAdopts, Done
  <2>4. \A p \in paid' : p \in paid \/ \E h \in Live : p = h.pay
    BY Zenon, <2>1, <2>2
  <2> QED
    BY Zenon, <1>6, <2>1, <2>2, <2>3, <2>4
<1>9. CASE TargetConnects \/ TargetDisconnects \/ \E p \in Replied : ReplyPreimages(p)
  <2>1. /\ src' = src /\ tgt' = tgt /\ links' = links /\ heard' = heard
        /\ paid' = paid /\ refunded' = refunded
        /\ loop' \in {[loop EXCEPT !.fulfill = {h.id : h \in Fulfillable}], loop}
    BY Zenon, <1>9 DEF TargetConnects, TargetDisconnects, ReplyPreimages, envVars, history
  <2>2. loop'.dispatch = {} /\ Live' = Live
    BY Zenon, <1>0, <2>1 DEF Done, Live
  <2> QED
    BY Zenon, <1>6, <2>1, <2>2
<1>10. CASE ClientErrors \/ ProposeOverride \/ AcceptOverride \/ AdoptOverride
  <2>1. /\ links' = links /\ heard' = heard /\ paid' = paid /\ refunded' = refunded
        /\ loop' = loop
        /\ \/ /\ tgt' = tgt
              /\ src' \in {Error(src, "other"), Proposes(src), Overrides(src, SourceFunds),
                           Accepts(src, SourceFunds)}
           \/ /\ src' = src
              /\ tgt' \in {Error(tgt, "other"), Proposes(tgt), Overrides(tgt, TargetFunds),
                           Accepts(tgt, TargetFunds)}
    BY Zenon, <1>10
       DEF ClientErrors, ProposeOverride, AcceptOverride, AdoptOverride, envVars, history
  <2>2. Quiet(src, src') /\ Quiet(tgt, tgt')
    BY Zenon, <1>0, <2>1, QuietFields
  <2>3. Live' \subseteq Live /\ RemoteAdds(src'.uncommitted) \subseteq RemoteAdds(src.uncommitted)
    BY Zenon, <1>0, <2>2 DEF Live, Quiet
  <2>4. src'.lcss.incoming_htlcs \subseteq src.lcss.incoming_htlcs
    BY Zenon, <2>2 DEF Quiet
  <2> QED
    BY Zenon, <1>0, <1>6, <2>1, <2>3, <2>4
<1> QED
  BY Zenon, <1>1, <1>3, <1>4, <1>5, <1>7, <1>8, <1>9, <1>10 DEF Handler

CommonInv == ChannelsInv /\ KnownInv

LEMMA CommonNext ==
    ASSUME CommonInv, [Next]_vars
    PROVE  CommonInv'
<1>1. CASE loop = Done /\ Handler
  <2>1. ChannelsInv'
    BY Zenon, <1>1, HandlerHealth DEF CommonInv
  <2> QED
    BY Zenon, <1>1, <2>1, HandlerKnown DEF CommonInv
<1>2. CASE DispatchRound
  <2>1. ChannelsInv'
    BY Zenon, <1>2, RoundHealth DEF CommonInv
  <2> QED
    BY Zenon, <1>2, <2>1, DispatchKnown DEF CommonInv
<1>3. CASE FailRound \/ FulfillRound \/ Restart
  <2>1. ChannelsInv'
    BY Zenon, <1>3, RoundHealth DEF CommonInv
  <2> QED
    BY Zenon, <1>3, <2>1, RoundKnown DEF CommonInv
<1>4. CASE UNCHANGED vars
  BY Zenon, <1>4 DEF vars, CommonInv, ChannelsInv, KnownInv, Known, Live, Open, LinksFor
<1> QED
  BY Zenon, <1>1, <1>2, <1>3, <1>4 DEF Next

LEMMA CommonInvariant == Spec => []CommonInv
<1>1. Init => CommonInv
  BY Zenon, PairInit DEF CommonInv
<1>2. CommonInv /\ [Next]_vars => CommonInv'
  BY Zenon, CommonNext
<1> QED
  BY <1>1, <1>2, PTL DEF Spec

\* A healthy channel's funds add up, before and after what is uncommitted.
LEMMA HealthyConserved ==
    ASSUME NEW c, NEW capacity, Healthy(c, capacity)
    PROVE  /\ Conserved(c.lcss, c.balance, capacity)
           /\ Conserved(NextLcss(c.lcss, c.uncommitted),
                        NextBalance(c.balance, c.uncommitted), capacity)
<1>1. /\ c.lcss \in FiniteLcss /\ c.balance \in Balances /\ c.uncommitted \in FiniteUpdates
      /\ Sound(c.lcss, c.balance, c.uncommitted) /\ Total(c.lcss, c.balance) = capacity
      /\ c.balance.local >= 0 /\ c.balance.remote >= 0
  BY Zenon DEF Healthy, Channel, Candidates
<1>2. Total(NextLcss(c.lcss, c.uncommitted), NextBalance(c.balance, c.uncommitted)) = capacity
  BY Zenon, <1>1, FoldConserves DEF Sound
<1> QED
  BY Zenon, <1>1, <1>2 DEF Conserved, Total, Sound

\* For any two clients, amounts and limits, in every interleaving of their handlers
\* (handle_update_add, handle_active_state_update, handle_lcss, resolve_forward_fulfill,
\* resolve_forward_fail, the override and the recovery), the balances and the HTLCs in
\* flight of each channel add up to its capacity and no balance is negative, in the last
\* cross-signed state and with the updates that are not yet part of it.
THEOREM PairFundsAreConserved == Spec => []PairConserved
<1>1. CommonInv => PairConserved
  BY Zenon, HealthyConserved DEF CommonInv, ChannelsInv, PairConserved
<1> QED
  BY <1>1, CommonInvariant, PTL

-----------------------------------------------------------------------------
(* Nobody is paid for what is given back                                   *)

\* The client of the target has been paid for HTLC p, or has shown its preimage.
Claimed(p) ==
    \/ p \in paid
    \/ \E h \in tgt.lcss.outgoing_htlcs : h.pay = p /\ RemoteFulfill(h) \in tgt.uncommitted

\* As long as the links can be relied on: the link of an HTLC of the target names the
\* HTLC it forwards, and is there until that one has its answer; one HTLC forwards it,
\* and none once it was paid for; what is claimed is not given back, and its preimage
\* is the answer; what is given back is fenced off; and a failure to be passed on is
\* that of an HTLC which is gone and was not paid.
Forward ==
    /\ \A h \in Live : h.id \in DOMAIN links => links[h.id] = h.pay
    /\ \A h \in Live : Open(h.pay) => h.id \in DOMAIN links
    /\ \A g, h \in Live : g.pay = h.pay => g = h
    /\ \A h \in Live : h.pay \notin paid
    /\ \A p : Claimed(p) => /\ ~GivenBack(p)
                            /\ p \in src.lcss.incoming_htlcs => LocalFulfill(p) \in src.uncommitted
    /\ \A h \in Live : GivenBack(h.pay) => "fence" \in tgt.errors
    /\ \A i \in loop.fail \cap DOMAIN links :
          links[i] \notin paid /\ \A h \in Live : h.pay # links[i]

ForwardInv == ~rewound => Forward

\* Steps that bring neither HTLCs nor answers.
LEMMA QuietForward ==
    ASSUME Forward, Live' \subseteq Live, links' = links, paid' = paid, loop'.fail = {},
           \A p : Open(p)' => Open(p),
           \A p : GivenBack(p)' => GivenBack(p),
           \A p : Claimed(p)' => Claimed(p),
           \A p : Claimed(p) /\ p \in src'.lcss.incoming_htlcs => LocalFulfill(p) \in src'.uncommitted,
           Live' # {} => tgt.errors \subseteq tgt'.errors
    PROVE  Forward'
<1>1. \A h \in Live' : h.id \in DOMAIN links' => links'[h.id] = h.pay
  BY Zenon DEF Forward
<1>2. \A h \in Live' : Open(h.pay)' => h.id \in DOMAIN links'
  BY Zenon DEF Forward
<1>3. \A g, h \in Live' : g.pay = h.pay => g = h
  BY Zenon DEF Forward
<1>4. \A h \in Live' : h.pay \notin paid'
  BY Zenon DEF Forward
<1>5. \A p : Claimed(p)' => /\ ~GivenBack(p)'
                            /\ p \in src'.lcss.incoming_htlcs => LocalFulfill(p) \in src'.uncommitted
  BY Zenon DEF Forward
<1>6. \A h \in Live' : GivenBack(h.pay)' => "fence" \in tgt'.errors
  BY Zenon DEF Forward
<1> QED
  BY Zenon, <1>1, <1>2, <1>3, <1>4, <1>5, <1>6 DEF Forward

\* The source's client commits, or shows a state that has all updates of the host.
LEMMA SourceFoldForward ==
    ASSUME CommonInv, Forward, NEW U \in Candidates(src), src' = Fold(src, U),
           refunded' = refunded \cup HtlcsOf(U, "local", "fail"),
           ~\E u \in src.uncommitted \ U : u.side = "local",
           tgt' = tgt, links' = links, paid' = paid, loop'.fail = {}
    PROVE  Forward'
<1>1. /\ src'.uncommitted = {} /\ U \subseteq src.uncommitted /\ U \in SUBSET Update
      /\ src'.lcss.incoming_htlcs
            = (src.lcss.incoming_htlcs \cup RemoteAdds(U))
                 \ (HtlcsOf(U, "local", "fulfill") \cup HtlcsOf(U, "local", "fail"))
      /\ RemoteAdds(U) \subseteq RemoteAdds(src.uncommitted)
  BY Zenon, SourceFolds DEF CommonInv
<1>2. \A p : /\ LocalFulfill(p) \in src.uncommitted <=> p \in HtlcsOf(U, "local", "fulfill")
             /\ LocalFail(p) \in src.uncommitted <=> p \in HtlcsOf(U, "local", "fail")
  <2>1. \A p : /\ LocalFulfill(p) \in U <=> p \in HtlcsOf(U, "local", "fulfill")
               /\ LocalFail(p) \in U <=> p \in HtlcsOf(U, "local", "fail")
    BY Zenon, <1>1, HtlcsOfMember
  <2>2. \A p : LocalFulfill(p).side = "local" /\ LocalFail(p).side = "local"
    BY Zenon DEF LocalFulfill, LocalFail
  <2> QED
    BY Zenon, <1>1, <2>1, <2>2
<1>3. \A p : p \in src'.lcss.incoming_htlcs /\ Known(p) => Open(p)
  BY Zenon, <1>1, <1>2 DEF Known, Open, LocalResolved
<1>4. Live' = Live /\ tgt'.errors = tgt.errors /\ \A p : Claimed(p)' = Claimed(p)
  BY Zenon DEF Live, Claimed
<1>5. (\A h \in Live : Known(h.pay)) /\ (\A p : Claimed(p) => Known(p))
  BY Zenon DEF CommonInv, KnownInv, Claimed, Live
<1>6. \A p : GivenBack(p)' => GivenBack(p)
  BY Zenon, <1>1, <1>2 DEF GivenBack
<1>7. \A p : Claimed(p) => p \notin src'.lcss.incoming_htlcs
  <2>1. \A p : Claimed(p) /\ Open(p) => FALSE
    BY Zenon DEF Forward, Open, LocalResolved
  <2> QED
    BY Zenon, <1>3, <1>5, <2>1
<1>8. \A h \in Live' : Open(h.pay)' => h.id \in DOMAIN links'
  <2>1. \A p : Open(p)' => p \in src'.lcss.incoming_htlcs
    BY Zenon DEF Open
  <2> QED
    BY Zenon, <1>3, <1>4, <1>5, <2>1 DEF Forward
<1> QED
  BY Zenon, <1>4, <1>6, <1>7, <1>8 DEF Forward

\* The answers of the host to the source: what an answer u to HTLC p changes.
LEMMA AnswerEffect ==
    ASSUME NEW p, NEW u \in {LocalFulfill(p), LocalFail(p)}, refunded' = refunded,
           src'.lcss = src.lcss,
           src'.uncommitted = IF Open(p) THEN src.uncommitted \cup {u} ELSE src.uncommitted
    PROVE  /\ \A q : Open(q)' <=> Open(q) /\ q # p
           /\ \A q : GivenBack(q)' => GivenBack(q) \/ (q = p /\ Open(p) /\ u = LocalFail(p))
           /\ src.uncommitted \subseteq src'.uncommitted
           /\ Open(p) => u \in src'.uncommitted
<1>1. \A q : /\ LocalFulfill(q) # LocalFail(p) /\ LocalFail(q) # LocalFulfill(p)
             /\ LocalFulfill(q) = LocalFulfill(p) => q = p
             /\ LocalFail(q) = LocalFail(p) => q = p
  BY Zenon DEF LocalFulfill, LocalFail
<1>2. CASE Open(p)
  <2>1. src'.uncommitted = src.uncommitted \cup {u}
    BY Zenon, <1>2
  <2>2. \A q : GivenBack(q)' => GivenBack(q) \/ (q = p /\ u = LocalFail(p))
    BY Zenon, <1>1, <2>1 DEF GivenBack
  <2>3. \A q : Open(q)' <=> Open(q) /\ q # p
    BY Zenon, <1>1, <2>1 DEF Open, LocalResolved
  <2> QED
    BY Zenon, <1>2, <2>1, <2>2, <2>3
<1>3. CASE ~Open(p)
  <2>1. src'.uncommitted = src.uncommitted
    BY Zenon, <1>3
  <2> QED
    BY Zenon, <1>3, <2>1 DEF Open, GivenBack
<1> QED
  BY Zenon, <1>2, <1>3

\* The target's client settles an HTLC, and the preimage is handed to the source.
LEMMA TargetFulfillForward ==
    ASSUME CommonInv, Forward, loop = Done, NEW h \in Live, TargetFulfill(h)
    PROVE  Forward'
<1> DEFINE p == h.pay
<1>0. /\ ChannelsInv /\ h \in tgt.lcss.outgoing_htlcs /\ Answerable(h) /\ "fence" \notin tgt.errors
      /\ tgt' = Add(tgt, RemoteFulfill(h)) /\ paid' = paid /\ refunded' = refunded
      /\ loop'.fail = {}
  BY Zenon DEF CommonInv, TargetFulfill, Answerable, history, Done
<1>1. PICK ok \in BOOLEAN : ResolveForwardFulfill(h.id, ok)
  BY Zenon DEF TargetFulfill
<1>2. /\ tgt'.lcss = tgt.lcss /\ tgt'.errors = tgt.errors
      /\ tgt'.uncommitted = tgt.uncommitted \cup {RemoteFulfill(h)} /\ Live' = Live
  BY Zenon, <1>0, TargetAnswerStep DEF Live
<1>3. ~GivenBack(p)
  BY Zenon, <1>0 DEF Forward
<1>4. /\ src'.lcss = src.lcss
      /\ src'.uncommitted = IF Open(p) THEN src.uncommitted \cup {LocalFulfill(p)} ELSE src.uncommitted
      /\ links' \in {links, Unlinked(links, {h.id})}
  <2>1. CASE h.id \notin DOMAIN links
    <3>1. src' = src /\ links' = links /\ ~Open(p)
      BY Zenon, <1>0, <1>1, <2>1, ResolveForwardStep DEF Forward
    <3> QED
      BY Zenon, <3>1
  <2>2. CASE h.id \in DOMAIN links
    <3>1. links[h.id] = p
      BY Zenon, <2>2 DEF Forward
    <3>2. /\ src'.lcss = src.lcss /\ links' \in {links, Unlinked(links, {h.id})}
          /\ src'.uncommitted = IF Open(links[h.id])
                                THEN src.uncommitted \cup {LocalFulfill(links[h.id])}
                                ELSE src.uncommitted
      BY Zenon, <1>0, <1>1, <2>2, ResolveForwardStep
    <3> QED
      BY Zenon, <3>1, <3>2
  <2> QED
    BY Zenon, <2>1, <2>2
<1> HIDE DEF p
<1>5. /\ \A q : Open(q)' <=> Open(q) /\ q # p
      /\ \A q : GivenBack(q)' => GivenBack(q)
      /\ src.uncommitted \subseteq src'.uncommitted
      /\ Open(p) => LocalFulfill(p) \in src'.uncommitted
  <2>1. LocalFulfill(p) # LocalFail(p)
    BY Zenon DEF LocalFulfill, LocalFail
  <2> QED
    BY Zenon, <1>0, <1>4, <2>1, AnswerEffect
<1>6. \A q : Claimed(q)' => Claimed(q) \/ q = p
  <2>1. \A g : RemoteFulfill(g) = RemoteFulfill(h) => g = h
    BY Zenon DEF RemoteFulfill
  <2> QED
    BY Zenon, <1>0, <1>2, <2>1 DEF Claimed, p
<1>7. \A i \in DOMAIN links' : i \in DOMAIN links /\ links'[i] = links[i]
  BY Zenon, <1>4 DEF Unlinked
<1>8. ASSUME NEW g \in Live', Open(g.pay)' PROVE g.id \in DOMAIN links'
  <2>1. g \in Live /\ Open(g.pay) /\ g.pay # p
    BY Zenon, <1>2, <1>5, <1>8
  <2>2. g.id \in DOMAIN links /\ links[g.id] = g.pay
    BY Zenon, <2>1 DEF Forward
  <2>3. g.id # h.id
    BY Zenon, <2>1, <2>2 DEF Forward, p
  <2> QED
    BY Zenon, <1>4, <2>2, <2>3 DEF Unlinked
<1>9. ASSUME NEW q, Claimed(q)'
      PROVE  /\ ~GivenBack(q)'
             /\ q \in src'.lcss.incoming_htlcs => LocalFulfill(q) \in src'.uncommitted
  <2>1. CASE Claimed(q)
    BY Zenon, <1>4, <1>5, <2>1 DEF Forward
  <2>2. CASE q = p
    <3>1. p \in src.lcss.incoming_htlcs => Open(p) \/ LocalFulfill(p) \in src.uncommitted
      BY Zenon, <1>3 DEF Open, LocalResolved, GivenBack
    <3> QED
      BY Zenon, <1>3, <1>4, <1>5, <2>2, <3>1
  <2> QED
    BY Zenon, <1>6, <1>9, <2>1, <2>2
<1> QED
  BY Zenon, <1>0, <1>2, <1>5, <1>7, <1>8, <1>9 DEF Forward

\* An offer that the target's client did not commit to in time is fenced off.
LEMMA CommitTimeoutForward ==
    ASSUME CommonInv, Forward, loop = Done, NEW h \in Live, CommitTimeout(h)
    PROVE  Forward'
<1> DEFINE p == h.pay
<1>0. /\ ChannelsInv /\ tgt \in Channel /\ h \in LocalAdds(tgt.uncommitted) /\ h.id \in DOMAIN links
      /\ tgt' = Error(tgt, "fence") /\ paid' = paid /\ refunded' = refunded
      /\ loop'.fail = {}
  BY Zenon DEF CommonInv, ChannelsInv, Healthy, CommitTimeout, history, Done
<1>1. PICK ok \in BOOLEAN : ResolveForwardFail(h.id, ok)
  BY Zenon DEF CommitTimeout
<1>2. /\ tgt'.lcss = tgt.lcss /\ tgt'.errors = tgt.errors \cup {"fence"}
      /\ tgt'.uncommitted = tgt.uncommitted
  BY Zenon, <1>0, ErrorFields
<1>3. Live' = Live /\ \A q : Claimed(q)' = Claimed(q)
  BY Zenon, <1>0, <1>2 DEF Live, Claimed
<1>4. links[h.id] = p
  BY Zenon, <1>0 DEF Forward
<1>5. /\ src'.lcss = src.lcss /\ links' \in {links, Unlinked(links, {h.id})}
      /\ src'.uncommitted = IF Open(p) THEN src.uncommitted \cup {LocalFail(p)} ELSE src.uncommitted
  <2>1. /\ src'.lcss = src.lcss /\ links' \in {links, Unlinked(links, {h.id})}
        /\ src'.uncommitted = IF Open(links[h.id])
                              THEN src.uncommitted \cup {LocalFail(links[h.id])}
                              ELSE src.uncommitted
    BY Zenon, <1>0, <1>1, ResolveForwardStep
  <2> QED
    BY Zenon, <1>4, <2>1
<1>6. ~Claimed(p)
  <2>1. h \notin tgt.lcss.outgoing_htlcs
    BY Zenon, <1>0 DEF ChannelsInv, Healthy, Candidates, Sound, Applicable
  <2> QED
    BY Zenon, <2>1 DEF Claimed, Forward, Live
<1> HIDE DEF p
<1>7. /\ \A q : Open(q)' <=> Open(q) /\ q # p
      /\ \A q : GivenBack(q)' => GivenBack(q) \/ q = p
      /\ src.uncommitted \subseteq src'.uncommitted
  BY Zenon, <1>0, <1>5, AnswerEffect
<1>8. \A i \in DOMAIN links' : i \in DOMAIN links /\ links'[i] = links[i]
  BY Zenon, <1>5 DEF Unlinked
<1>9. ASSUME NEW g \in Live', Open(g.pay)' PROVE g.id \in DOMAIN links'
  <2>1. g \in Live /\ Open(g.pay) /\ g.pay # p
    BY Zenon, <1>3, <1>7, <1>9
  <2>2. g.id \in DOMAIN links /\ links[g.id] = g.pay
    BY Zenon, <2>1 DEF Forward
  <2>3. g.id # h.id
    BY Zenon, <1>4, <2>1, <2>2
  <2> QED
    BY Zenon, <1>5, <2>2, <2>3 DEF Unlinked
<1>10. \A q : Claimed(q)' => /\ ~GivenBack(q)'
                             /\ q \in src'.lcss.incoming_htlcs => LocalFulfill(q) \in src'.uncommitted
  BY Zenon, <1>3, <1>5, <1>6, <1>7 DEF Forward
<1> QED
  BY Zenon, <1>0, <1>2, <1>3, <1>8, <1>9, <1>10 DEF Forward

\* The target's client commits, or shows a state that has all updates of the host.
LEMMA TargetFoldForward ==
    ASSUME CommonInv, Forward, NEW U \in Candidates(tgt), tgt' = Fold(tgt, U),
           paid' = paid \cup {h.pay : h \in HtlcsOf(U, "remote", "fulfill")},
           src' = src, links' = links, refunded' = refunded,
           loop'.fail \subseteq {h.id : h \in HtlcsOf(U, "remote", "fail")}
    PROVE  Forward'
<1>1. /\ tgt'.uncommitted = {} /\ tgt'.errors = tgt.errors
      /\ U \subseteq tgt.uncommitted /\ U \in SUBSET Update
      /\ HtlcsOf(U, "remote", "fulfill") \cup HtlcsOf(U, "remote", "fail")
            \subseteq tgt.lcss.outgoing_htlcs
      /\ HtlcsOf(U, "remote", "fulfill") \cap HtlcsOf(U, "remote", "fail") = {}
      /\ Live' = (tgt.lcss.outgoing_htlcs \cup LocalAdds(U))
                    \ (HtlcsOf(U, "remote", "fulfill") \cup HtlcsOf(U, "remote", "fail"))
      /\ Live' \subseteq Live
  BY Zenon, TargetFolds DEF CommonInv
<1>2. \A p : Open(p)' = Open(p) /\ GivenBack(p)' = GivenBack(p)
  BY Zenon DEF Open, GivenBack
<1>3. \A h \in HtlcsOf(U, "remote", "fulfill") : h \in Live /\ Claimed(h.pay)
  <2>1. \A h \in HtlcsOf(U, "remote", "fulfill") : RemoteFulfill(h) \in tgt.uncommitted
    BY Zenon, <1>1, HtlcsOfMember
  <2> QED
    BY Zenon, <1>1, <2>1 DEF Claimed, Live
<1>4. \A p : Claimed(p)' => Claimed(p)
  BY Zenon, <1>1, <1>3 DEF Claimed
<1>5. ASSUME NEW g \in Live, g.pay \in paid' PROVE g \in HtlcsOf(U, "remote", "fulfill")
  <2>1. g.pay \notin paid
    BY Zenon DEF Forward
  <2>2. PICK h \in HtlcsOf(U, "remote", "fulfill") : h.pay = g.pay
    BY Zenon, <1>5, <2>1
  <2> QED
    BY Zenon, <1>3, <2>2 DEF Forward
<1>6. \A h \in Live' : h.pay \notin paid'
  BY Zenon, <1>1, <1>5
<1>7. ASSUME NEW i \in loop'.fail \cap DOMAIN links'
      PROVE  links'[i] \notin paid' /\ \A h \in Live' : h.pay # links'[i]
  <2>1. PICK g \in HtlcsOf(U, "remote", "fail") : i = g.id
    BY Zenon, <1>7
  <2>2. g \in Live /\ links[i] = g.pay
    BY Zenon, <1>1, <2>1 DEF Live, Forward
  <2>3. g \notin Live' /\ g \notin HtlcsOf(U, "remote", "fulfill")
    BY Zenon, <1>1, <2>1
  <2> QED
    BY Zenon, <1>1, <1>5, <2>2, <2>3 DEF Forward
<1> QED
  BY Zenon, <1>1, <1>2, <1>4, <1>6, <1>7 DEF Forward

\* Failures and preimages are passed on to the source.
LEMMA ResolveRoundForward ==
    ASSUME CommonInv, Forward, FailRound \/ FulfillRound
    PROVE  Forward'
<1>0. /\ ChannelsInv /\ tgt' = tgt /\ paid' = paid /\ refunded' = refunded
      /\ loop \in [dispatch : SUBSET Payments, fail : SUBSET Nat, fulfill : SUBSET Nat]
  BY Zenon DEF CommonInv, ChannelsInv, FailRound, FulfillRound, history
<1>1. PICK id, u :
         /\ \E ok \in BOOLEAN : \/ ResolveForwardFulfill(id, ok) /\ u = LocalFulfill(links[id])
                                \/ /\ ResolveForwardFail(id, ok) /\ u = LocalFail(links[id])
                                   /\ id \in loop.fail
         /\ loop' \in {[loop EXCEPT !.fail = @ \ {id}], [loop EXCEPT !.fulfill = @ \ {id}], Done}
  BY Zenon DEF FailRound, FulfillRound
<1>2. loop'.fail \subseteq loop.fail
  BY <1>0, <1>1 DEF Done
<1>3. Live' = Live /\ \A q : Claimed(q)' = Claimed(q)
  BY Zenon, <1>0 DEF Live, Claimed
<1>4. CASE id \notin DOMAIN links
  <2>1. src' = src /\ links' = links
    BY Zenon, <1>0, <1>1, <1>4, ResolveForwardStep
  <2>2. \A q : Open(q)' = Open(q) /\ GivenBack(q)' = GivenBack(q)
    BY Zenon, <1>0, <2>1 DEF Open, GivenBack
  <2> QED
    BY Zenon, <1>0, <1>2, <1>3, <2>1, <2>2 DEF Forward
<1>5. CASE id \in DOMAIN links
  <2> DEFINE p == links[id]
  <2>1. /\ src'.lcss = src.lcss /\ links' \in {links, Unlinked(links, {id})}
        /\ src'.uncommitted = IF Open(p) THEN src.uncommitted \cup {u} ELSE src.uncommitted
    BY Zenon, <1>0, <1>1, <1>5, ResolveForwardStep
  <2>2. /\ u \in {LocalFulfill(p), LocalFail(p)} /\ LocalFulfill(p) # LocalFail(p)
        /\ u = LocalFail(p) => id \in loop.fail
    BY <1>1 DEF LocalFulfill, LocalFail
  <2>3. u = LocalFail(p) => ~Claimed(p) /\ \A g \in Live : g.pay # p
    BY Zenon, <1>5, <2>2 DEF Forward, Claimed, Live
  <2>4. \A g \in Live : g.id = id => g.pay = p
    BY Zenon, <1>5 DEF Forward
  <2> HIDE DEF p
  <2>5. /\ \A q : Open(q)' <=> Open(q) /\ q # p
        /\ \A q : GivenBack(q)' => GivenBack(q) \/ (q = p /\ u = LocalFail(p))
        /\ src.uncommitted \subseteq src'.uncommitted
    BY Zenon, <1>0, <2>1, <2>2, AnswerEffect
  <2>6. \A i \in DOMAIN links' : i \in DOMAIN links /\ links'[i] = links[i]
    BY Zenon, <2>1 DEF Unlinked
  <2>7. \A i \in DOMAIN links : i # id => i \in DOMAIN links'
    BY Zenon, <2>1 DEF Unlinked
  <2>8. \A g \in Live' : Open(g.pay)' => g.id \in DOMAIN links'
    BY Zenon, <1>3, <2>4, <2>5, <2>7 DEF Forward
  <2>9. \A q : Claimed(q)' => /\ ~GivenBack(q)'
                              /\ q \in src'.lcss.incoming_htlcs => LocalFulfill(q) \in src'.uncommitted
    BY Zenon, <1>3, <2>1, <2>3, <2>5 DEF Forward
  <2>10. \A g \in Live' : GivenBack(g.pay)' => "fence" \in tgt'.errors
    BY Zenon, <1>0, <1>3, <2>3, <2>5 DEF Forward
  <2>11. \A i \in loop'.fail \cap DOMAIN links' :
            links'[i] \notin paid' /\ \A g \in Live' : g.pay # links'[i]
    BY Zenon, <1>0, <1>2, <1>3, <2>6 DEF Forward
  <2> QED
    BY Zenon, <1>0, <1>3, <2>6, <2>8, <2>9, <2>10, <2>11 DEF Forward
<1> QED
  BY Zenon, <1>4, <1>5

\* An HTLC that awaits its answer and has no link is not forwarded.
LEMMA UnlinkedUnforwarded ==
    ASSUME Forward, NEW p, Open(p), LinksFor(links, p) = {}
    PROVE  (\A g \in Live : g.pay # p) /\ ~Claimed(p)
<1>1. \A g \in Live : g.pay # p
  BY Zenon DEF Forward, LinksFor
<1>2. ~Claimed(p)
  BY Zenon DEF Forward, Open, LocalResolved
<1> QED
  BY Zenon, <1>1, <1>2

\* The links that dispatching p leaves.
LEMMA LinkedForward ==
    ASSUME NEW h \in Outgoing, LinksFor(links, h.pay) = {}, h.id \notin DOMAIN links
    PROVE  /\ DOMAIN Linked(h) = DOMAIN links \cup {h.id} /\ Linked(h)[h.id] = h.pay
           /\ \A i \in DOMAIN links : Linked(h)[i] = links[i]
           /\ LinksFor(Linked(h), h.pay) = {h.id}
           /\ Min(LinksFor(Linked(h), h.pay)) = h.id
<1>1. /\ DOMAIN Linked(h) = DOMAIN links \cup {h.id} /\ Linked(h)[h.id] = h.pay
      /\ \A i \in DOMAIN links : Linked(h)[i] = links[i]
  BY Zenon DEF Linked
<1>2. LinksFor(Linked(h), h.pay) = {h.id}
  <2>1. \A i \in DOMAIN links : links[i] # h.pay
    BY Zenon DEF LinksFor
  <2>2. \A i \in DOMAIN Linked(h) : Linked(h)[i] = h.pay <=> i = h.id
    BY Zenon, <1>1, <2>1
  <2> QED
    BY Zenon, <1>1, <2>2 DEF LinksFor
<1>3. h.id \in Nat
  BY Zenon DEF Outgoing
<1>4. Min({h.id}) = h.id
  BY <1>3 DEF Min
<1> QED
  BY Zenon, <1>1, <1>2, <1>4

\* The source dispatches an HTLC.
LEMMA DispatchForward ==
    ASSUME CommonInv, Forward, DispatchRound, ~rewound'
    PROVE  Forward'
<1>1. PICK p \in loop.dispatch, ok \in BOOLEAN :
         /\ DispatchCommittedIncomingHtlc(p, ok)
         /\ loop' = IF ok THEN [loop EXCEPT !.dispatch = @ \ {p}] ELSE Done
         /\ paid' = paid /\ refunded' = refunded /\ ~Reuses
  BY Zenon DEF DispatchRound
<1>2. /\ p \in Payments /\ LinksFor(links, p) = {} /\ Open(p) /\ loop'.fail = {}
      /\ ChannelsInv /\ Healthy(src, SourceFunds)
      /\ loop \in [dispatch : SUBSET Payments, fail : SUBSET Nat, fulfill : SUBSET Nat]
  <2>1. /\ loop \in [dispatch : SUBSET Payments, fail : SUBSET Nat, fulfill : SUBSET Nat]
        /\ ChannelsInv /\ Healthy(src, SourceFunds)
        /\ LinksFor(links, p) = {} /\ Open(p) /\ loop.fail = {}
    BY Zenon DEF CommonInv, ChannelsInv, KnownInv
  <2> QED
    BY Zenon, <1>1, <2>1 DEF Done
<1>3. (\A g \in Live : g.pay # p) /\ ~Claimed(p) /\ ~GivenBack(p)
  <2>1. ~GivenBack(p)
    BY Zenon, <1>2 DEF GivenBack, Open, LocalResolved, CommonInv, KnownInv
  <2> QED
    BY Zenon, <1>2, <2>1, UnlinkedUnforwarded
<1>4. ASSUME Answer(p, LocalFail(p), ok)
      PROVE  /\ src'.lcss = src.lcss /\ src.uncommitted \subseteq src'.uncommitted
             /\ \A q : Open(q)' <=> Open(q) /\ q # p
             /\ \A q : GivenBack(q)' => GivenBack(q) \/ q = p
  <2>1. /\ src'.lcss = src.lcss
        /\ src'.uncommitted = IF Open(p) THEN src.uncommitted \cup {LocalFail(p)}
                              ELSE src.uncommitted
    BY Zenon, <1>2, <1>4, AnswerStep
  <2> QED
    BY Zenon, <1>1, <2>1, AnswerEffect
<1>5. CASE Answer(p, LocalFail(p), ok) /\ tgt' = tgt /\ links' = links
  <2>1. Live' = Live /\ \A q : Claimed(q)' = Claimed(q)
    BY Zenon, <1>1, <1>5 DEF Live, Claimed
  <2> QED
    BY Zenon, <1>1, <1>2, <1>3, <1>4, <1>5, <2>1 DEF Forward
<1>6. CASE src' = src /\ tgt' = tgt /\ links' = links
  <2>1. /\ Live' = Live /\ \A q : Claimed(q)' = Claimed(q)
        /\ \A q : Open(q)' = Open(q) /\ GivenBack(q)' = GivenBack(q)
    BY Zenon, <1>1, <1>6 DEF Live, Claimed, Open, GivenBack
  <2> QED
    BY Zenon, <1>1, <1>2, <1>6, <2>1 DEF Forward
<1> DEFINE h == Hosted(p)
<1>7. ASSUME Fits(p), \/ tgt' = Sign(Add(tgt, LocalAdd(h)))
                      \/ tgt' = Error(Add(tgt, LocalAdd(h)), "fence")
      PROVE  /\ h \in Outgoing /\ h.pay = p /\ h.id \notin DOMAIN links
             /\ Live' = Live \cup {h} /\ (\A g \in Live : g.id # h.id)
             /\ tgt.errors \subseteq tgt'.errors
             /\ \A q : Claimed(q)' = Claimed(q)
  <2>1. /\ tgt'.lcss = tgt.lcss /\ h \in Outgoing /\ h.pay = p
        /\ tgt'.uncommitted = tgt.uncommitted \cup {LocalAdd(h)}
        /\ \A g \in Live : g.id # h.id
        /\ tgt.errors \subseteq tgt'.errors
    BY Zenon, <1>2, <1>7, OfferStep
  <2> HIDE DEF h
  <2>2. LocalAdds(tgt.uncommitted \cup {LocalAdd(h)}) = LocalAdds(tgt.uncommitted) \cup {h}
    BY Zenon, AddsOfUnion
  <2>3. Live' = Live \cup {h}
    BY Zenon, <2>1, <2>2 DEF Live
  <2>4. h \in LocalAdds(tgt'.uncommitted) \ LocalAdds(tgt.uncommitted)
    BY Zenon, <2>1, <2>2 DEF Live
  <2>5. h.id \notin DOMAIN links
    BY Zenon, <1>1, <2>4 DEF Reuses
  <2>6. \A g : RemoteFulfill(g) # LocalAdd(h)
    BY Zenon DEF RemoteFulfill, LocalAdd
  <2>7. \A q : Claimed(q)' = Claimed(q)
    BY Zenon, <1>1, <2>1, <2>6 DEF Claimed
  <2> QED
    BY Zenon, <2>1, <2>3, <2>5, <2>7
<1>8. CASE /\ Fits(p) /\ tgt' = Sign(Add(tgt, LocalAdd(h)))
           /\ links' = Linked(h) /\ src' = src
  <2>1. /\ h \in Outgoing /\ h.pay = p /\ h.id \notin DOMAIN links
        /\ Live' = Live \cup {h} /\ (\A g \in Live : g.id # h.id)
        /\ tgt.errors \subseteq tgt'.errors
        /\ \A q : Claimed(q)' = Claimed(q)
    BY Zenon, <1>7, <1>8
  <2>2. links' = Linked(h)
    BY Zenon, <1>8
  <2> HIDE DEF h
  <2>3. /\ DOMAIN links' = DOMAIN links \cup {h.id} /\ links'[h.id] = p
        /\ \A i \in DOMAIN links : links'[i] = links[i]
    BY Zenon, <1>2, <2>1, <2>2, LinkedForward
  <2>4. \A q : Open(q)' = Open(q) /\ GivenBack(q)' = GivenBack(q)
    BY Zenon, <1>1, <1>8 DEF Open, GivenBack
  <2>5. \A g \in Live' : g.id \in DOMAIN links' => links'[g.id] = g.pay
    BY Zenon, <2>1, <2>3 DEF Forward
  <2>6. \A g \in Live' : Open(g.pay)' => g.id \in DOMAIN links'
    BY Zenon, <2>1, <2>3, <2>4 DEF Forward
  <2>7. \A f, g \in Live' : f.pay = g.pay => f = g
    BY Zenon, <1>3, <2>1 DEF Forward
  <2>8. \A g \in Live' : g.pay \notin paid' /\ (GivenBack(g.pay)' => "fence" \in tgt'.errors)
    BY Zenon, <1>1, <1>3, <2>1, <2>4 DEF Forward, Claimed
  <2>9. \A q : Claimed(q)' => /\ ~GivenBack(q)'
                              /\ q \in src'.lcss.incoming_htlcs => LocalFulfill(q) \in src'.uncommitted
    BY Zenon, <1>8, <2>1, <2>4 DEF Forward
  <2> QED
    BY Zenon, <1>2, <2>5, <2>6, <2>7, <2>8, <2>9 DEF Forward
<1>9. CASE /\ Fits(p) /\ tgt' = Error(Add(tgt, LocalAdd(h)), "fence")
           /\ FailBack(Linked(h), p, ok)
  <2>1. /\ h \in Outgoing /\ h.pay = p /\ h.id \notin DOMAIN links
        /\ Live' = Live \cup {h} /\ (\A g \in Live : g.id # h.id)
        /\ \A q : Claimed(q)' = Claimed(q)
    BY Zenon, <1>7, <1>9
  <2>2. /\ src'.lcss = src.lcss /\ src.uncommitted \subseteq src'.uncommitted
        /\ \A q : Open(q)' <=> Open(q) /\ q # p
        /\ \A q : GivenBack(q)' => GivenBack(q) \/ q = p
    BY Zenon, <1>4, <1>9 DEF FailBack
  <2>3. "fence" \in tgt'.errors
    <3>1. Add(tgt, LocalAdd(h)) \in Channel
      <4>1. tgt \in Channel /\ LocalAdd(h) \in Update
        BY Zenon, <1>2, <2>1, UpdateShapes DEF ChannelsInv, Healthy
      <4>2. tgt.uncommitted \cup {LocalAdd(h)} \in FiniteUpdates
        BY Zenon, <4>1, AddUpdate DEF Channel
      <4> QED
        BY Zenon, <4>1, <4>2 DEF Add, Channel
    <3> QED
      BY Zenon, <1>9, <3>1, ErrorFields
  <2>4. links' \in {Linked(h), Unlinked(Linked(h), {Min(LinksFor(Linked(h), p))})}
    BY Zenon, <1>9 DEF FailBack
  <2> HIDE DEF h
  <2>5. /\ DOMAIN Linked(h) = DOMAIN links \cup {h.id} /\ Linked(h)[h.id] = p
        /\ \A i \in DOMAIN links : Linked(h)[i] = links[i]
        /\ Min(LinksFor(Linked(h), p)) = h.id
    BY Zenon, <1>2, <2>1, LinkedForward
  <2>6. /\ \A i \in DOMAIN links' : i \in DOMAIN Linked(h) /\ links'[i] = Linked(h)[i]
        /\ \A i \in DOMAIN links : i \in DOMAIN links'
    <3>1. CASE links' = Linked(h)
      BY Zenon, <2>5, <3>1
    <3>2. CASE links' = Unlinked(Linked(h), {h.id})
      BY Zenon, <2>1, <2>5, <3>2 DEF Unlinked
    <3> QED
      BY Zenon, <2>4, <2>5, <3>1, <3>2
  <2>7. \A g \in Live' : g.id \in DOMAIN links' => links'[g.id] = g.pay
    BY <2>1, <2>5, <2>6 DEF Forward
  <2>8. \A g \in Live' : Open(g.pay)' => g.id \in DOMAIN links'
    BY Zenon, <2>1, <2>2, <2>6 DEF Forward
  <2>9. \A f, g \in Live' : f.pay = g.pay => f = g
    BY Zenon, <1>3, <2>1 DEF Forward
  <2>10. \A g \in Live' : g.pay \notin paid'
    BY Zenon, <1>1, <1>3, <2>1 DEF Forward, Claimed
  <2>11. \A q : Claimed(q)' => /\ ~GivenBack(q)'
                               /\ q \in src'.lcss.incoming_htlcs => LocalFulfill(q) \in src'.uncommitted
    BY Zenon, <1>3, <2>1, <2>2 DEF Forward
  <2> QED
    BY Zenon, <1>2, <2>3, <2>7, <2>8, <2>9, <2>10, <2>11 DEF Forward
<1> QED
  BY Zenon, <1>1, <1>2, <1>5, <1>6, <1>8, <1>9, DispatchCases

\* The beginnings of the handlers.
LEMMA HandlerForward ==
    ASSUME CommonInv, Forward, loop = Done, Handler, ~rewound'
    PROVE  Forward'
<1>0. /\ src \in Channel /\ tgt \in Channel /\ loop.fail = {}
      /\ LocalAdds({}) = {}
  BY Zenon DEF CommonInv, ChannelsInv, Healthy, Done, LocalAdds, HtlcsOf
<1>1. ASSUME NEW p \in Payments, SourceAdd(p) PROVE Forward'
  <2>1. /\ tgt' = tgt /\ links' = links /\ paid' = paid /\ refunded' = refunded /\ loop' = loop
        /\ src' \in {Error(src, "other"), Add(src, RemoteAdd(p))}
    BY Zenon, <1>1 DEF SourceAdd, history
  <2>2. /\ src'.lcss = src.lcss
        /\ src'.uncommitted \in {src.uncommitted, src.uncommitted \cup {RemoteAdd(p)}}
    <3>1. CASE src' = Error(src, "other")
      BY Zenon, <1>0, <3>1, ErrorFields
    <3>2. CASE src' = Add(src, RemoteAdd(p))
      BY Zenon, <1>0, <3>2, AddFields
    <3> QED
      BY Zenon, <2>1, <3>1, <3>2
  <2>3. \A q : LocalFulfill(q) # RemoteAdd(p) /\ LocalFail(q) # RemoteAdd(p)
    BY Zenon DEF LocalFulfill, LocalFail, RemoteAdd
  <2>4. /\ \A q : Open(q)' = Open(q) /\ GivenBack(q)' = GivenBack(q) /\ Claimed(q)' = Claimed(q)
        /\ Live' = Live /\ tgt'.errors = tgt.errors
    BY Zenon, <2>1, <2>2, <2>3 DEF Open, LocalResolved, GivenBack, Claimed, Live
  <2>5. \A q : Claimed(q) /\ q \in src'.lcss.incoming_htlcs => LocalFulfill(q) \in src'.uncommitted
    BY Zenon, <2>2 DEF Forward
  <2> QED
    BY Zenon, <1>0, <2>1, <2>4, <2>5, QuietForward
<1>2. CASE SourceCommit
  <2>1. /\ src.uncommitted \in Candidates(src) /\ src' = Fold(src, src.uncommitted)
        /\ refunded' = refunded \cup HtlcsOf(src.uncommitted, "local", "fail")
        /\ tgt' = tgt /\ links' = links /\ paid' = paid /\ loop'.fail = {}
    BY Zenon, <1>0, <1>2 DEF SourceCommit, Candidates, Done
  <2> QED
    BY Zenon, <2>1, SourceFoldForward
<1>3. CASE SourceAdopts
  <2>1. PICK U \in src.signed :
           /\ src' = Fold(src, U) /\ refunded' = refunded \cup HtlcsOf(U, "local", "fail")
           /\ rewound' = (rewound \/ \E u \in src.uncommitted \ U : u.side = "local")
           /\ tgt' = tgt /\ links' = links /\ paid' = paid /\ loop' = loop
    BY Zenon, <1>3 DEF SourceAdopts
  <2>2. U \in Candidates(src) /\ ~\E u \in src.uncommitted \ U : u.side = "local"
    BY Zenon, <2>1 DEF Candidates
  <2> QED
    BY Zenon, <1>0, <2>1, <2>2, SourceFoldForward
<1>4. CASE SourceConnects \/ TargetConnects \/ TargetDisconnects \/ \E p \in Replied : ReplyPreimages(p)
  <2>1. /\ src' = src /\ tgt' = tgt /\ links' = links /\ paid' = paid /\ refunded' = refunded
        /\ loop'.fail = {}
    BY Zenon, <1>0, <1>4
       DEF SourceConnects, TargetConnects, TargetDisconnects, ReplyPreimages, history, Done
  <2>2. /\ \A q : Open(q)' = Open(q) /\ GivenBack(q)' = GivenBack(q) /\ Claimed(q)' = Claimed(q)
        /\ Live' = Live /\ tgt'.errors = tgt.errors
    BY Zenon, <2>1 DEF Open, GivenBack, Claimed, Live
  <2>3. \A q : Claimed(q) /\ q \in src'.lcss.incoming_htlcs => LocalFulfill(q) \in src'.uncommitted
    BY Zenon, <2>1 DEF Forward
  <2> QED
    BY Zenon, <2>1, <2>2, <2>3, QuietForward
<1>5. ASSUME NEW h \in Live, TargetFail(h) PROVE Forward'
  <2>1. /\ src' = src /\ links' = links /\ paid' = paid /\ refunded' = refunded /\ loop' = loop
        /\ Answerable(h) /\ tgt' = Add(tgt, RemoteFail(h)) /\ ChannelsInv
    BY Zenon, <1>5 DEF TargetFail, history, CommonInv
  <2>2. /\ tgt'.lcss = tgt.lcss /\ tgt'.errors = tgt.errors
        /\ tgt'.uncommitted = tgt.uncommitted \cup {RemoteFail(h)}
        /\ LocalAdds(tgt'.uncommitted) = LocalAdds(tgt.uncommitted)
    BY Zenon, <2>1, TargetAnswerStep
  <2>3. \A g : RemoteFulfill(g) # RemoteFail(h)
    BY Zenon DEF RemoteFulfill, RemoteFail
  <2>4. /\ \A q : Open(q)' = Open(q) /\ GivenBack(q)' = GivenBack(q) /\ Claimed(q)' = Claimed(q)
        /\ Live' = Live
    BY Zenon, <2>1, <2>2, <2>3 DEF Open, GivenBack, Claimed, Live
  <2>5. \A q : Claimed(q) /\ q \in src'.lcss.incoming_htlcs => LocalFulfill(q) \in src'.uncommitted
    BY Zenon, <2>1 DEF Forward
  <2> QED
    BY Zenon, <1>0, <2>1, <2>2, <2>4, <2>5, QuietForward
<1>6. CASE TargetCommit
  <2>1. /\ tgt.uncommitted \in Candidates(tgt) /\ tgt' = Fold(tgt, tgt.uncommitted)
        /\ paid' = paid \cup {h.pay : h \in HtlcsOf(tgt.uncommitted, "remote", "fulfill")}
        /\ src' = src /\ links' = links /\ refunded' = refunded
        /\ loop'.fail \subseteq {h.id : h \in HtlcsOf(tgt.uncommitted, "remote", "fail")}
    BY Zenon, <1>0, <1>6 DEF TargetCommit, Candidates, Done
  <2> QED
    BY Zenon, <2>1, TargetFoldForward
<1>7. CASE TargetAdopts
  <2>1. PICK U \in Candidates(tgt) :
           /\ tgt' = Fold(tgt, U)
           /\ paid' = paid \cup {h.pay : h \in HtlcsOf(U, "remote", "fulfill")}
           /\ src' = src /\ links' = links /\ refunded' = refunded /\ loop' = loop
    BY Zenon, <1>7 DEF TargetAdopts, Candidates
  <2> QED
    BY Zenon, <1>0, <2>1, TargetFoldForward
<1>8. CASE ClientErrors \/ ProposeOverride \/ AcceptOverride \/ AdoptOverride
  <2>1. /\ links' = links /\ paid' = paid /\ refunded' = refunded /\ loop' = loop
        /\ \/ /\ tgt' = tgt
              /\ src' \in {Error(src, "other"), Proposes(src), Overrides(src, SourceFunds),
                           Accepts(src, SourceFunds)}
           \/ /\ src' = src
              /\ tgt' \in {Error(tgt, "other"), Proposes(tgt), Overrides(tgt, TargetFunds),
                           Accepts(tgt, TargetFunds)}
    BY Zenon, <1>8 DEF ClientErrors, ProposeOverride, AcceptOverride, AdoptOverride, history
  <2>2. Quiet(src, src') /\ Quiet(tgt, tgt')
    BY Zenon, <1>0, <2>1, QuietFields
  <2>3. /\ \A q : Open(q)' => Open(q)
        /\ \A q : GivenBack(q)' => GivenBack(q)
        /\ \A q : Claimed(q) /\ q \in src'.lcss.incoming_htlcs => LocalFulfill(q) \in src'.uncommitted
    BY Zenon, <2>1, <2>2 DEF Quiet, Open, LocalResolved, GivenBack, Forward
  <2>4. /\ \A q : Claimed(q)' => Claimed(q)
        /\ Live' \subseteq Live /\ (Live' # {} => tgt.errors \subseteq tgt'.errors)
    BY Zenon, <1>0, <2>1, <2>2 DEF Quiet, Claimed, Live
  <2> QED
    BY Zenon, <1>0, <2>1, <2>3, <2>4, QuietForward
<1> QED
  BY Zenon, <1>1, <1>2, <1>3, <1>4, <1>5, <1>6, <1>7, <1>8, TargetFulfillForward,
     CommitTimeoutForward DEF Handler

LEMMA ForwardNext ==
    ASSUME CommonInv, ForwardInv, [Next]_vars
    PROVE  ForwardInv'
<1>1. SUFFICES ASSUME ~rewound' PROVE Forward'
  BY Zenon DEF ForwardInv
<1>2. CASE loop = Done /\ Handler
  <2>1. ~rewound
    BY Zenon, <1>1, <1>2
       DEF Handler, SourceAdd, ReplyPreimages, SourceCommit, SourceAdopts, SourceConnects,
         TargetFulfill, TargetFail, CommitTimeout, TargetCommit, TargetAdopts, TargetConnects,
         TargetDisconnects, ClientErrors, ProposeOverride, AcceptOverride, AdoptOverride, history
  <2> QED
    BY Zenon, <1>1, <1>2, <2>1, HandlerForward DEF ForwardInv
<1>3. CASE DispatchRound
  <2>1. ~rewound
    BY Zenon, <1>1, <1>3 DEF DispatchRound
  <2> QED
    BY Zenon, <1>1, <1>3, <2>1, DispatchForward DEF ForwardInv
<1>4. CASE FailRound \/ FulfillRound
  <2>1. ~rewound
    BY Zenon, <1>1, <1>4 DEF FailRound, FulfillRound, history
  <2> QED
    BY Zenon, <1>4, <2>1, ResolveRoundForward DEF ForwardInv
<1>5. CASE Restart \/ UNCHANGED vars
  <2>1. /\ src' = src /\ tgt' = tgt /\ links' = links /\ paid' = paid /\ refunded' = refunded
        /\ rewound' = rewound /\ loop' \in {loop, Done}
    BY Zenon, <1>5 DEF Restart, vars, history
  <2>2. /\ \A q : Open(q)' = Open(q) /\ GivenBack(q)' = GivenBack(q) /\ Claimed(q)' = Claimed(q)
        /\ Live' = Live
    BY Zenon, <2>1 DEF Open, GivenBack, Claimed, Live
  <2>3. loop'.fail \subseteq loop.fail
    BY <2>1 DEF Done
  <2> QED
    BY Zenon, <1>1, <2>1, <2>2, <2>3 DEF ForwardInv, Forward
<1> QED
  BY Zenon, <1>2, <1>3, <1>4, <1>5 DEF Next

LEMMA ForwardInvariant == Spec => []ForwardInv
<1>1. Init => ForwardInv
  <2>1. SUFFICES ASSUME Init PROVE Forward
    BY Zenon DEF ForwardInv
  <2>2. tgt.lcss.outgoing_htlcs = {} /\ tgt.uncommitted = {} /\ paid = {} /\ loop.fail = {}
    <3>1. tgt = Fresh(TargetFunds, 0) /\ paid = {} /\ loop = Done
      BY Zenon, <2>1 DEF Init
    <3>2. tgt.lcss.outgoing_htlcs = {} /\ tgt.uncommitted = {}
      BY Zenon, <3>1 DEF Fresh
    <3> QED
      BY Zenon, <3>1, <3>2 DEF Done
  <2>3. Live = {}
    BY Zenon, <2>2 DEF Live, LocalAdds, HtlcsOf
  <2> QED
    BY Zenon, <2>2, <2>3 DEF Forward, Claimed
<1>2. CommonInv /\ ForwardInv /\ [Next]_vars => ForwardInv'
  BY Zenon, ForwardNext
<1> QED
  BY <1>1, <1>2, CommonInvariant, PTL DEF Spec

\* However often recover_channel_htlcs and handle_connect dispatch the HTLCs of the source
\* again, and wherever the plugin stops, at most one HTLC that the client of the target
\* could claim forwards each, as long as neither client shows an earlier state without
\* updates of the host and no id is given out under which a link is stored.
THEOREM HtlcsAreForwardedByOne == Spec => []ForwardedByOne
<1>1. ForwardInv => ForwardedByOne
  BY Zenon DEF ForwardInv, Forward, ForwardedByOne
<1> QED
  BY <1>1, ForwardInvariant, PTL

\* Under that condition, and for any number of HTLCs, what send_local_fail or the watchdog
\* gives back to the client of the source was not paid to the client of the target, and
\* whatever still forwards it is fenced off by an error that handle_update_fulfill honours.
THEOREM WhatIsGivenBackIsUnpaid == Spec => []GivenBackIsUnpaid
<1>1. ForwardInv => GivenBackIsUnpaid
  BY Zenon DEF ForwardInv, Forward, GivenBackIsUnpaid, Claimed
<1> QED
  BY <1>1, ForwardInvariant, PTL
=============================================================================
