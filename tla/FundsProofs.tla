----------------------------- MODULE FundsProofs -----------------------------
(***************************************************************************)
(* Theorems about the funds of a hosted channel, about the payments the    *)
(* host makes for its client and about the HTLCs it forwards to the        *)
(* client, for every value of the constants of HostedChannel.tla.          *)
(***************************************************************************)
EXTENDS HostedChannelProofs

-----------------------------------------------------------------------------
(* Conservation of funds                                                   *)

\* The sets of updates that may become part of the last cross-signed state: those
\* on record, and those the host has signed for the client.
Candidates == signed \cup {uncommitted}

\* Why funds are conserved: whatever the client shows the host next, its updates
\* apply to the committed state and overdraw no balance.  The client offers each
\* HTLC once, so that what it has offered bounds what is added.
FundsInv ==
    /\ balance \in Balances /\ balance.local >= 0 /\ balance.remote >= 0
    /\ Total(lcss, balance) = Capacity
    /\ lcss.incoming_htlcs \subseteq offered
    /\ \A U \in Candidates : Sound(lcss, balance, U) /\ RemoteAdds(U) \subseteq offered

\* What a step may do to the candidates: add resolutions to the updates on record,
\* add an HTLC of the host or of the client that the balances cover, commit one of
\* them and leave resolutions of its HTLCs only, or start over with an override.
Resolving ==
    /\ UNCHANGED <<lcss, balance>> /\ offered \subseteq offered'
    /\ \A V \in Candidates' :
          \/ V \in Candidates
          \/ \E N \in FiniteUpdates : Resolves(lcss, uncommitted, N) /\ V = uncommitted \cup N

Offering ==
    /\ UNCHANGED <<lcss, balance, offered>>
    /\ \E u \in Upstreams :
          /\ Amount[u] <= NextFunds.local
          /\ \A V \in Candidates' :
                \/ V \in Candidates
                \/ V = uncommitted \cup {LocalAdd([id |-> NextState.local_updates + 1, pay |-> u])}

Accepting ==
    /\ UNCHANGED <<lcss, balance>>
    /\ \E p \in Payments \ offered :
          /\ Amount[p] <= NextFunds.remote
          /\ offered' = offered \cup {p}
          /\ \A V \in Candidates' : V \in Candidates \/ V = uncommitted \cup {RemoteAdd(p)}

Committing ==
    /\ \E U \in Candidates : lcss' = NextLcss(lcss, U) /\ balance' = NextBalance(balance, U)
    /\ \A V \in Candidates' : Resolves(lcss', {}, V)
    /\ offered' = offered

Overriding ==
    /\ lcss'.incoming_htlcs = {} /\ lcss'.outgoing_htlcs = {}
    /\ \E b \in 0..Capacity : balance' = [local |-> b, remote |-> Capacity - b]
    /\ Candidates' = {{}}
    /\ offered' = offered

\* Answers to client HTLCs in flight resolve them.
LEMMA AnswersResolveOpen ==
    ASSUME NEW l, NEW U, NEW how,
           NEW S \in SUBSET {p \in l.incoming_htlcs : ~LocalResolved(U, p)}
    PROVE  Resolves(l, U, Answers(S, how))
<1> DEFINE N == Answers(S, how)
<1>1. ASSUME NEW u \in N
      PROVE  /\ u.side = "local" /\ u.htlc \in S
             /\ \/ u.kind = "fulfill" /\ how[u.htlc] = "paid"
                \/ u.kind = "fail" /\ how[u.htlc] # "paid"
  <2>1. PICK p \in S : u = IF how[p] = "paid" THEN LocalFulfill(p) ELSE LocalFail(p)
    BY Zenon DEF Answers
  <2>2. CASE how[p] = "paid"
    BY Zenon, <2>1, <2>2 DEF LocalFulfill
  <2>3. CASE how[p] # "paid"
    BY Zenon, <2>1, <2>3 DEF LocalFail
  <2> QED
    BY Zenon, <2>2, <2>3
<1> HIDE DEF N
<1>2. /\ LocalAdds(N) = {} /\ RemoteAdds(N) = {}
      /\ HtlcsOf(N, "remote", "fulfill") = {} /\ HtlcsOf(N, "remote", "fail") = {}
  BY Zenon, <1>1 DEF LocalAdds, RemoteAdds, HtlcsOf
<1>3. /\ HtlcsOf(N, "local", "fulfill") \subseteq {p \in S : how[p] = "paid"}
      /\ HtlcsOf(N, "local", "fail") \subseteq {p \in S : how[p] # "paid"}
  BY Zenon, <1>1 DEF HtlcsOf
<1>4. Applicable(l, N)
  BY Zenon, <1>2, <1>3 DEF Applicable
<1>5. Resolves(l, U, N)
  BY Zenon, <1>1, <1>4 DEF Resolves
<1> QED
  BY Zenon, <1>5 DEF N

\* Answering client HTLCs of the committed state adds resolutions.
LEMMA RecoverResolves ==
    ASSUME TypeOK, NEW query, NEW sigs \in SUBSET Candidates, Recover(query, sigs),
           UNCHANGED offered
    PROVE  Resolving
<1> DEFINE open == {p \in lcss.incoming_htlcs : ~LocalResolved(uncommitted, p)}
<1>1. PICK how, done, stuck :
         /\ done \in SUBSET open /\ stuck \in SUBSET open
         /\ signed' = sigs \cup Released(uncommitted, Answers(done, how))
         /\ \/ uncommitted' = uncommitted \cup Answers(done, how)
            \/ uncommitted' = uncommitted \cup Answers(done \cup stuck, how)
            \/ uncommitted' = uncommitted
         /\ UNCHANGED <<lcss, balance>>
  <2>1. PICK how \in [open -> Answering \cup {"sent", "waiting"}] :
             \E done, stuck \in SUBSET DOMAIN how :
             /\ signed' = sigs \cup Released(uncommitted, Answers(done, how))
             /\ IF query /\ stuck = {}
                THEN RecoverOutgoing(Answers(done, how))
                ELSE uncommitted' = uncommitted \cup Answers(done \cup stuck, how)
             /\ UNCHANGED <<lcss, balance>>
    BY Zenon DEF Recover
  <2>2. DOMAIN how = open
    BY Zenon, <2>1
  <2>3. PICK done, stuck \in SUBSET open :
             /\ signed' = sigs \cup Released(uncommitted, Answers(done, how))
             /\ IF query /\ stuck = {}
                THEN RecoverOutgoing(Answers(done, how))
                ELSE uncommitted' = uncommitted \cup Answers(done \cup stuck, how)
             /\ UNCHANGED <<lcss, balance>>
    BY Zenon, <2>1, <2>2
  <2>4. \/ uncommitted' = uncommitted \cup Answers(done, how)
        \/ uncommitted' = uncommitted \cup Answers(done \cup stuck, how)
        \/ uncommitted' = uncommitted
    BY Zenon, <2>3 DEF RecoverOutgoing
  <2> QED
    BY Zenon, <2>3, <2>4
<1>2. open \in SUBSET Payments /\ IsFiniteSet(open)
  BY Zenon, FS_Subset DEF TypeOK
<1>3. ASSUME NEW S \in SUBSET open, NEW N \in SUBSET Answers(S, how)
      PROVE  N \in FiniteUpdates /\ Resolves(lcss, uncommitted, N)
  <2>1. S \in SUBSET Payments /\ IsFiniteSet(S)
    BY Zenon, <1>2, FS_Subset
  <2>2. Answers(S, how) \in FiniteUpdates
    BY Zenon, <2>1, AnswersType
  <2>3. N \in FiniteUpdates
    BY Zenon, <2>2, FS_Subset DEF FiniteUpdates
  <2>4. Resolves(lcss, uncommitted, N)
    BY AnswersResolveOpen, SubsetResolves
  <2> QED
    BY Zenon, <2>3, <2>4
<1> HIDE DEF open
<1>4. ASSUME NEW V \in Released(uncommitted, Answers(done, how))
      PROVE  \E N \in FiniteUpdates : Resolves(lcss, uncommitted, N) /\ V = uncommitted \cup N
  BY Zenon, <1>1, <1>3 DEF Released
<1>5. \/ uncommitted' \in Candidates
      \/ \E N \in FiniteUpdates : Resolves(lcss, uncommitted, N) /\ uncommitted' = uncommitted \cup N
  <2>1. done \cup stuck \in SUBSET open
    BY Zenon, <1>1
  <2> QED
    BY Zenon, <1>1, <1>3, <2>1 DEF Candidates
<1> QED
  BY Zenon, <1>1, <1>4, <1>5 DEF Resolving, Candidates

LEMMA StateUpdateCommits ==
    ASSUME TypeOK, StateUpdate
    PROVE  Committing
<1> USE DEF envVars
<1>1. /\ lcss' = NextLcss(lcss, uncommitted) /\ balance' = NextBalance(balance, uncommitted)
      /\ offered' = offered
  BY Zenon DEF StateUpdate, Fold
<1>2. Resolves(lcss', {}, {})
  BY Zenon DEF Resolves, Applicable, LocalAdds, RemoteAdds, HtlcsOf
<1>3. CASE uncommitted' = {} /\ signed' = {}
  BY Zenon, <1>1, <1>2, <1>3 DEF Committing, Candidates
<1>4. ASSUME NEW how \in [NextState.incoming_htlcs \ lcss.incoming_htlcs ->
                             {"sent", "unsent", "refused"}],
             NEW done \in SUBSET DOMAIN how, NEW stuck \in SUBSET DOMAIN how,
             uncommitted' = Answers(done \cup stuck, how),
             signed' = Released({}, Answers(done, how))
      PROVE  Committing
  <2>1. DOMAIN how \subseteq {p \in lcss'.incoming_htlcs : ~LocalResolved({}, p)}
    BY Zenon, <1>1 DEF NextState, LocalResolved
  <2>2. /\ done \in SUBSET {p \in lcss'.incoming_htlcs : ~LocalResolved({}, p)}
        /\ done \cup stuck \in SUBSET {p \in lcss'.incoming_htlcs : ~LocalResolved({}, p)}
    BY Zenon, <2>1
  <2>3. /\ Resolves(lcss', {}, Answers(done, how))
        /\ Resolves(lcss', {}, Answers(done \cup stuck, how))
    BY Zenon, <2>2, AnswersResolveOpen
  <2>4. ASSUME NEW V \in signed'
        PROVE  Resolves(lcss', {}, V)
    <3>1. V \in SUBSET Answers(done, how)
      BY Zenon, <1>4 DEF Released
    <3> QED
      BY Zenon, <2>3, <3>1, SubsetResolves
  <2> QED
    BY Zenon, <1>1, <1>4, <2>3, <2>4 DEF Committing, Candidates
<1> QED
  BY Zenon, <1>3, <1>4 DEF StateUpdate

LEMMA AdoptLcssCommits ==
    ASSUME TypeOK, AdoptLcss
    PROVE  Committing \/ Overriding
<1> USE DEF envVars
<1>1. uncommitted' = {} /\ signed' = {} /\ offered' = offered
  BY Zenon DEF AdoptLcss
<1>2. Resolves(lcss', {}, {})
  BY Zenon DEF Resolves, Applicable, LocalAdds, RemoteAdds, HtlcsOf
<1>3. CASE \E U \in signed : Fold(U)
  BY Zenon, <1>1, <1>2, <1>3 DEF Fold, Committing, Candidates
<1>4. CASE ~ \E U \in signed : Fold(U)
  <2>1. /\ lcss'.incoming_htlcs = {} /\ lcss'.outgoing_htlcs = {}
        /\ balance' = [local |-> proposed.local_balance,
                       remote |-> Capacity - proposed.local_balance]
    BY <1>4 DEF AdoptLcss
  <2> QED
    BY Zenon, <1>1, <2>1 DEF Overriding, Candidates, TypeOK
<1> QED
  BY Zenon, <1>3, <1>4

LEMMA PeerFunds ==
    ASSUME TypeOK, balance \in Balances, Peer
    PROVE  Resolving \/ Accepting \/ Committing \/ Overriding
<1> USE DEF chanVars, envVars
<1>1. ASSUME UNCHANGED <<lcss, balance, uncommitted, signed>>, offered \subseteq offered'
      PROVE  Resolving
  BY Zenon, <1>1 DEF Resolving, Candidates
<1>2. ASSUME NEW p \in Payments, UpdateAdd(p)
      PROVE  Resolving \/ Accepting
  <2>1. /\ UNCHANGED <<lcss, balance, signed>> /\ p \notin offered /\ offered' = offered \cup {p}
        /\ \/ uncommitted' = uncommitted
           \/ uncommitted' = uncommitted \cup {RemoteAdd(p)} /\ ~(Amount[p] > NextFunds.remote)
    BY Zenon, <1>2 DEF UpdateAdd
  <2>2. CASE uncommitted' = uncommitted
    BY Zenon, <1>1, <2>1, <2>2
  <2>3. CASE uncommitted' = uncommitted \cup {RemoteAdd(p)} /\ ~(Amount[p] > NextFunds.remote)
    <3>1. NextFunds.remote \in Int /\ Amount[p] \in Int
      BY NextBalanceType, AmountType DEF NextFunds, TypeOK, FiniteUpdates, Balances
    <3> QED
      BY <2>1, <2>3, <3>1 DEF Accepting, Candidates
  <2> QED
    BY Zenon, <2>1, <2>2, <2>3
<1>3. ASSUME NEW h \in lcss.outgoing_htlcs,
             UpdateFulfill(h) \/ UpdateFail(h) \/ UpdateFailMalformed(h)
      PROVE  Resolving
  <2>1. /\ UNCHANGED <<lcss, balance, signed, offered>> /\ ~RemoteResolved(uncommitted, h)
        /\ \/ uncommitted' = uncommitted
           \/ \E u \in {RemoteFulfill(h), RemoteFail(h)} : uncommitted' = uncommitted \cup {u}
    BY Zenon, <1>3 DEF UpdateFulfill, UpdateFail, UpdateFailMalformed
  <2>2. ASSUME NEW u \in {RemoteFulfill(h), RemoteFail(h)}
        PROVE  {u} \in FiniteUpdates /\ Resolves(lcss, uncommitted, {u})
    <3>1. h \in Outgoing
      BY Zenon DEF TypeOK
    <3>2. u \in Update /\ IsFiniteSet({u})
      BY Zenon, <3>1, UpdateShapes, FS_Singleton
    <3> QED
      BY Zenon, <2>1, <3>2, OneResolution DEF FiniteUpdates
  <2> QED
    BY Zenon, <2>1, <2>2 DEF Resolving, Candidates
<1>4. CASE AcceptOverride
  <2>1. /\ lcss'.incoming_htlcs = {} /\ lcss'.outgoing_htlcs = {}
        /\ uncommitted' = {} /\ signed' = {}
        /\ balance' = [local |-> proposed.local_balance,
                       remote |-> Capacity - proposed.local_balance]
    BY Zenon, <1>4 DEF AcceptOverride
  <2>2. offered' = offered
    BY Zenon, <1>4 DEF AcceptOverride
  <2> QED
    BY Zenon, <2>1, <2>2 DEF Overriding, Candidates, TypeOK
<1>5. CASE Connect
  <2>1. signed \in SUBSET Candidates
    BY Zenon DEF Candidates
  <2> QED
    BY Zenon, <1>1, <1>5, <2>1, RecoverResolves DEF Connect
<1>6. CASE Invoke
  <2> DEFINE sigs == IF uncommitted = {} THEN signed ELSE signed \cup {uncommitted}
  <2>1. sigs \in SUBSET Candidates
    BY Zenon DEF Candidates
  <2>2. CASE Recover(TRUE, sigs)
    <3>1. UNCHANGED offered
      BY Zenon, <1>6 DEF Invoke
    <3> HIDE DEF sigs
    <3> QED
      BY Zenon, <2>1, <2>2, <3>1, RecoverResolves
  <2>3. CASE signed' = sigs /\ UNCHANGED <<lcss, balance, uncommitted, offered>>
    BY Zenon, <2>1, <2>3 DEF Resolving, Candidates
  <2> QED
    BY Zenon, <1>6, <2>2, <2>3 DEF Invoke
<1>7. CASE BadLcss \/ PeerError \/ Disconnect \/ \E u \in Upstreams : ReplyPreimages(u)
  BY Zenon, <1>1, <1>7 DEF BadLcss, PeerError, Disconnect, ReplyPreimages
<1> QED
  BY Zenon, <1>2, <1>3, <1>4, <1>5, <1>6, <1>7, StateUpdateCommits, AdoptLcssCommits DEF Peer

LEMMA FundsStep ==
    ASSUME TypeOK, balance \in Balances, [Next]_vars
    PROVE  Resolving \/ Offering \/ Accepting \/ Committing \/ Overriding
<1> USE DEF chanVars, linkVars, payVars, envVars
<1>1. CASE UNCHANGED <<lcss, balance, uncommitted, signed, offered>>
  BY Zenon, <1>1 DEF Resolving, Candidates
<1>2. ASSUME NEW u \in Upstreams, HookForwards(u) \/ SendDirectPayment(u)
      PROVE  Offering
  <2> DEFINE h == [id |-> NextState.local_updates + 1, pay |-> u]
  <2>1. /\ UNCHANGED <<lcss, balance, offered>> /\ Amount[u] <= NextFunds.local
        /\ uncommitted' = uncommitted \cup {LocalAdd(h)}
        /\ signed' \subseteq signed \cup {uncommitted'}
    BY Zenon, <1>2 DEF HookForwards, SendDirectPayment, Fits
  <2> QED
    BY Zenon, <2>1 DEF Offering, Candidates
<1>3. CASE Hook
  BY Zenon, <1>1, <1>2, <1>3 DEF Hook, HookFails, HookAnswered, HookTakes
<1>4. CASE Operator
  BY Zenon, <1>1, <1>2, <1>4, ChannelAssumption DEF Operator, ProposeOverride
<1>5. CASE Watchdog
  BY Zenon, <1>1, <1>5 DEF Watchdog, CommitTimeout, HtlcExpired, ErrorAndFail
<1>6. ASSUME NEW p \in Payments, PaymentResult(p)
      PROVE  Resolving
  <2> DEFINE how == [x \in {p} |-> IF payment[p] = "succeeded" THEN "paid" ELSE "lost"]
             N == Answers({p}, how)
  <2>1. CASE UNCHANGED <<lcss, balance, uncommitted, signed, offered>>
    BY Zenon, <1>1, <2>1 DEF Resolving, Candidates
  <2>2. CASE p \in lcss.incoming_htlcs /\ ~LocalResolved(uncommitted, p)
    <3>1. /\ UNCHANGED <<lcss, balance, offered>>
          /\ uncommitted' = uncommitted \cup N
          /\ signed' = signed \/ signed' = signed \cup {uncommitted'}
      BY Zenon, <1>6, <2>2 DEF PaymentResult
    <3> HIDE DEF how
    <3>2. N \in FiniteUpdates
      BY Zenon, FS_Singleton, AnswersType
    <3>3. Resolves(lcss, uncommitted, N)
      BY Zenon, <2>2, AnswersResolveOpen
    <3> HIDE DEF N
    <3> QED
      BY Zenon, <3>1, <3>2, <3>3 DEF Resolving, Candidates
  <2> QED
    BY Zenon, <1>6, <2>1, <2>2 DEF PaymentResult
<1>7. CASE Lightningd
  BY Zenon, <1>1, <1>6, <1>7 DEF Lightningd, PaymentSettles, BlocksReach
<1>8. CASE Restart
  BY Zenon, <1>1, <1>8 DEF Restart
<1>9. CASE StartupRecovery
  <2>1. signed \in SUBSET Candidates
    BY Zenon DEF Candidates
  <2> QED
    BY Zenon, <1>1, <1>9, <2>1, RecoverResolves DEF StartupRecovery
<1> QED
  BY Zenon, <1>1, <1>3, <1>4, <1>5, <1>7, <1>8, <1>9, PeerFunds DEF Next, Run, vars

LEMMA FundsInit ==
    Init => FundsInv
<1> SUFFICES ASSUME Init PROVE FundsInv
  OBVIOUS
<1>1. /\ balance \in Balances /\ balance.local >= 0 /\ balance.remote >= 0
      /\ balance.local + balance.remote = Capacity
  BY ChannelAssumption DEF Init, Balances
<1>2. lcss.incoming_htlcs = {} /\ InFlight(lcss) = 0
  BY Zenon, InFlightEmpty DEF Init
<1>3. Candidates = {{}}
  BY Zenon DEF Init, Candidates
<1>4. Sound(lcss, balance, {})
  BY Zenon, <1>1, EmptySound
<1>5. RemoteAdds({}) = {}
  BY Zenon DEF RemoteAdds, HtlcsOf
<1>6. Total(lcss, balance) = Capacity
  BY <1>1, <1>2, ChannelAssumption DEF Total
<1> QED
  BY Zenon, <1>1, <1>2, <1>3, <1>4, <1>5, <1>6 DEF FundsInv

\* Resolutions add no HTLC.
LEMMA ResolvesNoAdds ==
    ASSUME NEW l, NEW U, NEW N, Resolves(l, U, N)
    PROVE  RemoteAdds(U \cup N) = RemoteAdds(U)
BY Zenon DEF Resolves, RemoteAdds, HtlcsOf

LEMMA FundsNext ==
    ASSUME TypeOK, TypeOK', IdInv, FundsInv, [Next]_vars
    PROVE  FundsInv'
<1>0. /\ lcss \in FiniteLcss /\ uncommitted \in FiniteUpdates
      /\ Candidates \subseteq FiniteUpdates /\ Candidates' \subseteq FiniteUpdates
      /\ uncommitted \in Candidates
  BY DEF TypeOK, LcssType, FiniteLcss, FiniteUpdates, Candidates
<1>1. /\ balance \in Balances /\ balance.local >= 0 /\ balance.remote >= 0
      /\ Total(lcss, balance) = Capacity /\ lcss.incoming_htlcs \subseteq offered
  BY Zenon DEF FundsInv
<1>2. ASSUME UNCHANGED <<lcss, balance>>, offered \subseteq offered',
             \A V \in Candidates' :
                V \in Candidates \/ (Sound(lcss, balance, V) /\ RemoteAdds(V) \subseteq offered')
      PROVE  FundsInv'
  BY Zenon, <1>1, <1>2 DEF FundsInv
<1>3. CASE Resolving
  <2>1. ASSUME NEW N \in FiniteUpdates, Resolves(lcss, uncommitted, N)
        PROVE  /\ Sound(lcss, balance, uncommitted \cup N)
               /\ RemoteAdds(uncommitted \cup N) \subseteq offered
    BY Zenon, <1>0, <1>1, <2>1, ResolvesSound, ResolvesNoAdds DEF FundsInv
  <2> QED
    BY Zenon, <1>2, <1>3, <2>1 DEF Resolving
<1>4. CASE Offering
  <2>1. PICK u \in Upstreams :
          /\ Amount[u] <= NextFunds.local
          /\ \A V \in Candidates' :
                \/ V \in Candidates
                \/ V = uncommitted \cup {LocalAdd([id |-> NextState.local_updates + 1, pay |-> u])}
    BY Zenon, <1>4 DEF Offering
  <2> DEFINE h == [id |-> NextState.local_updates + 1, pay |-> u]
  <2>2. h \in Outgoing /\ h \notin Live /\ h.pay = u
    BY IdsBelowNext DEF Outgoing
  <2> HIDE DEF h
  <2>3. h \notin lcss.outgoing_htlcs /\ LocalAdd(h) \notin uncommitted
    BY Zenon, <1>0, <2>2, HtlcsOfMember DEF Live, FiniteUpdates
  <2>4. Sound(lcss, balance, uncommitted \cup {LocalAdd(h)})
    <3>1. Sound(lcss, balance, uncommitted)
      BY Zenon, <1>0 DEF FundsInv
    <3> QED
      BY Zenon, <1>0, <1>1, <2>1, <2>2, <2>3, <3>1, LocalAddSound DEF NextFunds
  <2>5. RemoteAdds(uncommitted \cup {LocalAdd(h)}) \subseteq offered
    <3>1. RemoteAdds(uncommitted \cup {LocalAdd(h)}) = RemoteAdds(uncommitted)
      BY DEF RemoteAdds, HtlcsOf, LocalAdd
    <3> QED
      BY Zenon, <1>0, <3>1 DEF FundsInv
  <2> QED
    BY Zenon, <1>2, <1>4, <2>1, <2>4, <2>5 DEF Offering, h
<1>5. CASE Accepting
  <2>1. PICK p \in Payments \ offered :
          /\ Amount[p] <= NextFunds.remote
          /\ offered' = offered \cup {p}
          /\ \A V \in Candidates' : V \in Candidates \/ V = uncommitted \cup {RemoteAdd(p)}
    BY Zenon, <1>5 DEF Accepting
  <2>2. p \notin lcss.incoming_htlcs /\ RemoteAdd(p) \notin uncommitted
    <3>1. p \notin RemoteAdds(uncommitted)
      BY Zenon, <1>0 DEF FundsInv
    <3> QED
      BY Zenon, <1>0, <1>1, <3>1, HtlcsOfMember DEF FiniteUpdates
  <2>3. Sound(lcss, balance, uncommitted \cup {RemoteAdd(p)})
    <3>1. Sound(lcss, balance, uncommitted)
      BY Zenon, <1>0 DEF FundsInv
    <3> QED
      BY Zenon, <1>0, <1>1, <2>1, <2>2, <3>1, RemoteAddSound DEF NextFunds
  <2>4. RemoteAdds(uncommitted \cup {RemoteAdd(p)}) \subseteq offered'
    <3>1. RemoteAdds(uncommitted \cup {RemoteAdd(p)}) = RemoteAdds(uncommitted) \cup {p}
      BY Zenon, AddsOfUnion
    <3>2. RemoteAdds(uncommitted) \subseteq offered
      BY Zenon, <1>0 DEF FundsInv
    <3> QED
      BY Zenon, <2>1, <3>1, <3>2
  <2> QED
    BY Zenon, <1>2, <1>5, <2>1, <2>3, <2>4 DEF Accepting
<1>6. CASE Committing
  <2>1. PICK U \in Candidates : lcss' = NextLcss(lcss, U) /\ balance' = NextBalance(balance, U)
    BY Zenon, <1>6 DEF Committing
  <2>2. Sound(lcss, balance, U) /\ RemoteAdds(U) \subseteq offered /\ U \in FiniteUpdates
    BY Zenon, <1>0 DEF FundsInv
  <2>3. balance' \in Balances /\ balance'.local >= 0 /\ balance'.remote >= 0
    BY Zenon, <1>1, <2>1, <2>2, NextBalanceType DEF Sound
  <2>4. Total(lcss', balance') = Capacity
    BY Zenon, <1>0, <1>1, <2>1, <2>2, FoldConserves DEF Sound
  <2>5. lcss'.incoming_htlcs \subseteq offered'
    BY Zenon, <1>1, <1>6, <2>1, <2>2 DEF NextLcss, Committing
  <2>6. ASSUME NEW V \in Candidates'
        PROVE  Sound(lcss', balance', V) /\ RemoteAdds(V) = {}
    <3>1. Resolves(lcss', {}, V) /\ V \in FiniteUpdates
      BY Zenon, <1>0, <1>6 DEF Committing
    <3>2. {} \in FiniteUpdates /\ Sound(lcss', balance', {})
      BY Zenon, <2>3, EmptySound, FS_EmptySet DEF FiniteUpdates
    <3>3. Sound(lcss', balance', {} \cup V)
      BY Zenon, <2>3, <3>1, <3>2, ResolvesSound
    <3>4. {} \cup V = V
      OBVIOUS
    <3>5. Sound(lcss', balance', V)
      BY Zenon, <3>3, <3>4
    <3>6. RemoteAdds(V) = {}
      BY Zenon, <3>1 DEF Resolves, RemoteAdds, HtlcsOf
    <3> QED
      BY Zenon, <3>5, <3>6
  <2> QED
    BY Zenon, <2>3, <2>4, <2>5, <2>6 DEF FundsInv
<1>7. CASE Overriding
  <2>1. PICK b \in 0..Capacity : balance' = [local |-> b, remote |-> Capacity - b]
    BY Zenon, <1>7 DEF Overriding
  <2>2. /\ balance' \in Balances /\ balance'.local >= 0 /\ balance'.remote >= 0
        /\ balance'.local + balance'.remote = Capacity
    BY <2>1, ChannelAssumption DEF Balances
  <2>3. InFlight(lcss') = 0 /\ lcss'.incoming_htlcs = {} /\ Candidates' = {{}}
    BY Zenon, <1>7, InFlightEmpty DEF Overriding
  <2>4. Sound(lcss', balance', {}) /\ RemoteAdds({}) = {}
    BY Zenon, <2>2, EmptySound DEF RemoteAdds, HtlcsOf
  <2>5. Total(lcss', balance') = Capacity
    BY <2>2, <2>3, ChannelAssumption DEF Total
  <2> QED
    BY Zenon, <2>2, <2>3, <2>4, <2>5 DEF FundsInv
<1> QED
  BY Zenon, <1>1, <1>3, <1>4, <1>5, <1>6, <1>7, FundsStep

LEMMA SoundIsConserved ==
    ASSUME TypeOK, FundsInv, NEW U \in FiniteUpdates, Sound(lcss, balance, U)
    PROVE  Conserved(NextLcss(lcss, U), NextBalance(balance, U))
<1>1. lcss \in FiniteLcss /\ balance \in Balances /\ Total(lcss, balance) = Capacity
  BY Zenon DEF TypeOK, FundsInv, LcssType, FiniteLcss
<1>2. Total(NextLcss(lcss, U), NextBalance(balance, U)) = Capacity
  BY Zenon, <1>1, FoldConserves DEF Sound
<1>3. NextBalance(balance, U) \in Balances /\ InFlight(NextLcss(lcss, U)) \in Nat
  BY Zenon, <1>1, NextBalanceType, NextLcssType, InFlightStep
<1> QED
  BY <1>2, <1>3, ChannelAssumption DEF Conserved, Sound, Balances, Total

LEMMA FundsInvConserved ==
    ASSUME TypeOK, FundsInv
    PROVE  FundsConserved
<1>1. Conserved(lcss, balance)
  <2>1. lcss \in FiniteLcss
    BY Zenon DEF TypeOK, LcssType, FiniteLcss
  <2>2. InFlight(lcss) \in Nat
    BY Zenon, <2>1, InFlightStep
  <2> QED
    BY <2>2, ChannelAssumption DEF FundsInv, Conserved, Balances, Total
<1>2. ASSUME NEW U \in Candidates
      PROVE  Conserved(NextLcss(lcss, U), NextBalance(balance, U))
  BY Zenon, SoundIsConserved DEF FundsInv, TypeOK, FiniteUpdates, Candidates
<1> QED
  BY Zenon, <1>1, <1>2 DEF FundsConserved, NextState, NextFunds, Candidates

\* Every msat of the capacity is in exactly one place, whatever the amounts, the
\* limits and the number of HTLCs, across failed sends, reconnects, adopted states,
\* overrides and restarts: in the committed state, in the one the updates on record
\* lead to, and in every state the host has signed (lcss_next accepts them all).
THEOREM FundsAreConserved == Spec => []FundsConserved
<1>1. Init => TypeOK /\ IdInv /\ FundsInv
  BY Zenon, TypeInit, IdInit, FundsInit
<1>2. (TypeOK /\ IdInv /\ FundsInv) /\ [Next]_vars => (TypeOK /\ IdInv /\ FundsInv)'
  BY Zenon, TypeNext, IdNext, FundsNext
<1>3. TypeOK /\ IdInv /\ FundsInv => FundsConserved
  BY Zenon, FundsInvConserved
<1> QED
  BY <1>1, <1>2, <1>3, PTL DEF Spec

-----------------------------------------------------------------------------
(* Payments the host makes for the client                                  *)

\* Why no payment is lost sight of: an HTLC that is not committed yet has never
\* been handed to lightningd, so the dispatch that follows its commit starts from
\* a payment without history.
TrackInv ==
    /\ PaymentsTracked
    /\ \A p \in Payments \ offered : payment[p] = "none"
    /\ \A U \in Candidates : \A p \in RemoteAdds(U) : payment[p] = "none"

\* A loop over client HTLCs keeps track of their payments: it gives up a link only
\* when the payment has failed, when it stores the preimage, or when sendonion was
\* refused for a payment that is not under way.
LEMMA SettleTracks ==
    ASSUME TypeOK, PaymentsTracked, NEW how, NEW done \in SUBSET Payments,
           NEW stuck \in SUBSET Payments, Settle(how, done, stuck),
           \A p \in done : how[p] \in {"unsent", "paid", "lost"} =>
              /\ payment[p] # "pending"
              /\ payment[p] = "succeeded" => how[p] = "paid" \/ p \in preimages
    PROVE  PaymentsTracked'
<1> SUFFICES ASSUME NEW p \in Payments
             PROVE  /\ payment'[p] = "pending" => p \in paylinks'
                    /\ payment'[p] = "succeeded" => p \in paylinks' \cup preimages'
  BY Zenon DEF PaymentsTracked
<1>1. /\ payment'[p] = IF p \in done /\ how[p] = "sent" /\ payment[p] \in {"none", "failed"}
                       THEN "pending" ELSE payment[p]
      /\ p \in paylinks' <=> /\ \/ p \in paylinks
                                \/ p \in done \cup stuck /\ how[p] \in {"sent", "unsent"}
                             /\ ~(p \in done /\ how[p] \in {"unsent", "paid", "lost"})
      /\ p \in preimages' <=> p \in preimages \/ (p \in done \cup stuck /\ how[p] = "paid")
  BY Zenon DEF Settle
<1>2. /\ payment[p] = "pending" => p \in paylinks
      /\ payment[p] = "succeeded" => p \in paylinks \cup preimages
  BY Zenon DEF PaymentsTracked
<1> QED
  BY Zenon, <1>1, <1>2

LEMMA RecoverTracks ==
    ASSUME TypeOK, PaymentsTracked, NEW query, NEW sigs, Recover(query, sigs)
    PROVE  /\ PaymentsTracked'
           /\ \A p \in Payments : payment'[p] = payment[p] \/ p \in lcss'.incoming_htlcs
<1> DEFINE open == {p \in lcss.incoming_htlcs : ~LocalResolved(uncommitted, p)}
<1>1. PICK how \in [open -> Answering \cup {"sent", "waiting"}] :
         \E done, stuck \in SUBSET DOMAIN how :
            /\ \A p \in DOMAIN how : how[p] \in RecoverCourses(p)
            /\ Settle(how, done, stuck)
            /\ lcss' = lcss
  BY Zenon DEF Recover
<1>2. DOMAIN how = open /\ open \in SUBSET Payments
  BY Zenon, <1>1 DEF TypeOK
<1>3. PICK done, stuck \in SUBSET open :
         /\ \A p \in open : how[p] \in RecoverCourses(p)
         /\ Settle(how, done, stuck)
         /\ lcss' = lcss
  BY Zenon, <1>1, <1>2
<1>4. ASSUME NEW p \in open, how[p] \in {"unsent", "paid", "lost"}
      PROVE  /\ payment[p] # "pending"
             /\ payment[p] = "succeeded" => how[p] = "paid" \/ p \in preimages
  <2>1. p \in Payments /\ how[p] \in RecoverCourses(p)
    BY Zenon, <1>2, <1>3
  <2>2. CASE p \notin paylinks
    BY Zenon, <2>1, <2>2 DEF PaymentsTracked
  <2>3. CASE p \in paylinks /\ payment[p] = "succeeded"
    <3>1. RecoverCourses(p) = {"paid"}
      BY Zenon, <2>3 DEF RecoverCourses
    <3> QED
      BY Zenon, <2>1, <2>3, <3>1
  <2>4. CASE p \in paylinks /\ payment[p] = "pending"
    <3>1. RecoverCourses(p) = {"waiting"}
      BY Zenon, <2>4 DEF RecoverCourses
    <3> QED
      BY Zenon, <1>4, <2>1, <3>1
  <2> QED
    BY Zenon, <2>2, <2>3, <2>4
<1>5. done \in SUBSET Payments /\ stuck \in SUBSET Payments
  BY Zenon, <1>2, <1>3
<1>6. PaymentsTracked'
  <2> HIDE DEF open
  <2> QED
    BY Zenon, <1>3, <1>4, <1>5, SettleTracks
<1>7. \A p \in Payments : payment'[p] = payment[p] \/ p \in done
  BY Zenon, <1>3 DEF Settle
<1> QED
  BY Zenon, <1>3, <1>6, <1>7

LEMMA StateUpdateTracks ==
    ASSUME TypeOK, TrackInv, StateUpdate
    PROVE  /\ PaymentsTracked'
           /\ \A p \in Payments : payment'[p] = payment[p] \/ p \in lcss'.incoming_htlcs
<1> USE DEF payVars
<1>1. lcss' = NextState
  BY Zenon DEF StateUpdate, Fold, NextState
<1>2. CASE UNCHANGED <<payVars, preimages>>
  BY Zenon, <1>2 DEF TrackInv, PaymentsTracked
<1>3. ASSUME NEW how \in [NextState.incoming_htlcs \ lcss.incoming_htlcs ->
                             {"sent", "unsent", "refused"}],
             NEW done \in SUBSET DOMAIN how, NEW stuck \in SUBSET DOMAIN how,
             Settle(how, done, stuck)
      PROVE  /\ PaymentsTracked'
             /\ \A p \in Payments : payment'[p] = payment[p] \/ p \in lcss'.incoming_htlcs
  <2>1. DOMAIN how \subseteq RemoteAdds(uncommitted) /\ DOMAIN how \subseteq NextState.incoming_htlcs
    BY Zenon DEF NextState, NextLcss
  <2>2. RemoteAdds(uncommitted) \subseteq Payments
    BY Zenon, AddsType DEF TypeOK, FiniteUpdates
  <2>3. \A p \in done : payment[p] = "none"
    BY Zenon, <2>1 DEF TrackInv, Candidates
  <2>4. PaymentsTracked'
    BY Zenon, <1>3, <2>1, <2>2, <2>3, SettleTracks DEF TrackInv
  <2>5. \A p \in Payments : payment'[p] = payment[p] \/ p \in done
    BY Zenon, <1>3 DEF Settle
  <2> QED
    BY Zenon, <1>1, <2>1, <2>4, <2>5
<1> QED
  BY Zenon, <1>2, <1>3 DEF StateUpdate

\* Only a dispatch or a recovery of an HTLC in flight hands a payment to lightningd.
LEMMA PayStep ==
    ASSUME TypeOK, TrackInv, [Next]_vars
    PROVE  /\ PaymentsTracked'
           /\ \A p \in Payments :
                 payment[p] = "none" => payment'[p] = "none" \/ p \in lcss'.incoming_htlcs
<1> DEFINE Good == /\ PaymentsTracked'
                   /\ \A p \in Payments :
                         payment[p] = "none" => payment'[p] = "none" \/ p \in lcss'.incoming_htlcs
<1> USE DEF chanVars, linkVars, payVars, envVars
<1>0. PaymentsTracked
  BY Zenon DEF TrackInv
<1>1. ASSUME UNCHANGED payVars, preimages \subseteq preimages'
      PROVE  Good
  BY Zenon, <1>0, <1>1 DEF PaymentsTracked
<1>2. ASSUME NEW query, NEW sigs, Recover(query, sigs)
      PROVE  Good
  BY Zenon, <1>0, <1>2, RecoverTracks
<1>3. CASE Hook
  BY Zenon, <1>1, <1>3 DEF Hook, HookFails, HookAnswered, HookTakes, HookForwards
<1>4. CASE Peer
  <2>1. CASE \E p \in Payments : UpdateAdd(p)
    BY Zenon, <1>1, <2>1 DEF UpdateAdd
  <2>2. CASE \E h \in lcss.outgoing_htlcs :
                UpdateFulfill(h) \/ UpdateFail(h) \/ UpdateFailMalformed(h)
    BY Zenon, <1>1, <2>2 DEF UpdateFulfill, UpdateFail, UpdateFailMalformed
  <2>3. CASE (\E u \in Upstreams : ReplyPreimages(u)) \/ AdoptLcss \/ BadLcss \/ PeerError
               \/ AcceptOverride \/ Disconnect
    BY Zenon, <1>1, <2>3 DEF ReplyPreimages, AdoptLcss, BadLcss, PeerError, AcceptOverride, Disconnect
  <2>4. CASE StateUpdate
    BY Zenon, <2>4, StateUpdateTracks
  <2>5. CASE Connect
    BY Zenon, <1>1, <1>2, <2>5 DEF Connect
  <2>6. CASE Invoke
    BY Zenon, <1>1, <1>2, <2>6 DEF Invoke
  <2> QED
    BY Zenon, <1>4, <2>1, <2>2, <2>3, <2>4, <2>5, <2>6 DEF Peer
<1>5. CASE Watchdog
  BY Zenon, <1>1, <1>5 DEF Watchdog, CommitTimeout, HtlcExpired, ErrorAndFail
<1>6. CASE Operator
  BY Zenon, <1>1, <1>6 DEF Operator, ProposeOverride, SendDirectPayment
<1>7. CASE Lightningd
  <2>1. ASSUME NEW p \in Payments, PaymentSettles(p)
        PROVE  Good
    BY Zenon, <1>0, <2>1 DEF PaymentSettles, PaymentsTracked, TypeOK
  <2>2. ASSUME NEW p \in Payments, PaymentResult(p)
        PROVE  Good
    <3> DEFINE how == [x \in {p} |-> IF payment[p] = "succeeded" THEN "paid" ELSE "lost"]
    <3>1. payment[p] \in {"succeeded", "failed"}
      BY Zenon, <2>2 DEF PaymentResult
    <3>2. /\ how[p] \in {"paid", "lost"}
          /\ payment[p] # "pending"
          /\ payment[p] = "succeeded" => how[p] = "paid"
      BY Zenon, <3>1
    <3>3. CASE UNCHANGED payVars /\ preimages' = preimages \cup {p}
      BY Zenon, <1>1, <3>3
    <3>4. ASSUME NEW done \in SUBSET {p}, NEW stuck \in SUBSET {p}, Settle(how, done, stuck)
          PROVE  Good
      <4> HIDE DEF how
      <4>1. PaymentsTracked'
        BY <1>0, <3>2, <3>4, SettleTracks
      <4>2. payment' = payment
        BY Zenon, <3>2, <3>4 DEF Settle, TypeOK
      <4> QED
        BY Zenon, <4>1, <4>2
    <3>5. \/ UNCHANGED payVars /\ preimages' = preimages \cup {p}
          \/ Settle(how, {p}, {}) \/ Settle(how, {}, {p})
      BY Zenon, <2>2 DEF PaymentResult
    <3> QED
      BY <3>3, <3>4, <3>5
  <2> QED
    BY Zenon, <1>1, <1>7, <2>1, <2>2 DEF Lightningd, BlocksReach
<1>8. CASE Restart
  BY Zenon, <1>1, <1>8 DEF Restart
<1>9. CASE StartupRecovery
  BY Zenon, <1>1, <1>2, <1>9 DEF StartupRecovery
<1>10. CASE UNCHANGED vars
  BY Zenon, <1>1, <1>10 DEF vars
<1> QED
  BY Zenon, <1>3, <1>4, <1>5, <1>6, <1>7, <1>8, <1>9, <1>10 DEF Next, Run

LEMMA TrackNext ==
    ASSUME TypeOK, TypeOK', FundsInv, FundsInv', TrackInv, [Next]_vars
    PROVE  TrackInv'
<1>1. /\ PaymentsTracked'
      /\ \A p \in Payments :
            payment[p] = "none" => payment'[p] = "none" \/ p \in lcss'.incoming_htlcs
  BY Zenon, PayStep
<1>2. Resolving \/ Offering \/ Accepting \/ Committing \/ Overriding
  BY Zenon, FundsStep DEF FundsInv
<1>3. offered \subseteq offered' /\ lcss'.incoming_htlcs \subseteq offered'
  BY Zenon, <1>2 DEF Resolving, Offering, Accepting, Committing, Overriding, FundsInv
<1>4. \A p \in Payments \ offered' : payment'[p] = "none"
  BY Zenon, <1>1, <1>3 DEF TrackInv
<1>5. ASSUME NEW V \in Candidates', NEW p \in RemoteAdds(V)
      PROVE  payment'[p] = "none"
  <2>1. p \in Payments /\ p \notin lcss'.incoming_htlcs
    <3>1. RemoteAdds(V) \subseteq offered' /\ Sound(lcss', balance', V)
      BY Zenon DEF FundsInv
    <3>2. offered' \subseteq Payments
      BY Zenon DEF TypeOK
    <3> QED
      BY Zenon, <1>5, <3>1, <3>2 DEF Sound, Applicable
  <2>2. CASE RemoteAdds(V) = {}
    BY Zenon, <1>5, <2>2
  <2>3. CASE \E U \in Candidates : RemoteAdds(V) = RemoteAdds(U)
    BY Zenon, <1>1, <1>5, <2>1, <2>3 DEF TrackInv
  <2>4. CASE Resolving
    BY <2>3, <2>4, ResolvesNoAdds DEF Resolving, Candidates
  <2>5. CASE Offering
    <3>1. \A h : RemoteAdds(uncommitted \cup {LocalAdd(h)}) = RemoteAdds(uncommitted)
      BY DEF RemoteAdds, HtlcsOf, LocalAdd
    <3> QED
      BY Zenon, <2>3, <2>5, <3>1 DEF Offering, Candidates
  <2>6. CASE Accepting
    <3>1. PICK x \in Payments \ offered :
             V \in Candidates \/ V = uncommitted \cup {RemoteAdd(x)}
      BY Zenon, <2>6 DEF Accepting
    <3>2. CASE V \in Candidates
      BY Zenon, <2>3, <3>2
    <3>3. CASE V = uncommitted \cup {RemoteAdd(x)}
      <4>1. RemoteAdds(V) = RemoteAdds(uncommitted) \cup {x}
        BY Zenon, <3>3, AddsOfUnion
      <4>2. payment[p] = "none"
        BY Zenon, <1>5, <3>1, <4>1 DEF TrackInv, Candidates
      <4> QED
        BY Zenon, <1>1, <2>1, <4>2
    <3> QED
      BY Zenon, <3>1, <3>2, <3>3
  <2>7. CASE Committing
    BY Zenon, <2>2, <2>7 DEF Committing, Resolves, RemoteAdds, HtlcsOf
  <2>8. CASE Overriding
    BY Zenon, <2>2, <2>8 DEF Overriding, RemoteAdds, HtlcsOf
  <2> QED
    BY Zenon, <1>2, <2>4, <2>5, <2>6, <2>7, <2>8
<1> QED
  BY Zenon, <1>1, <1>4, <1>5 DEF TrackInv

\* No payment the host makes for its client is lost sight of, whatever the limits,
\* the number of payments and the order of handlers, failed sends, reconnects,
\* adopted states, overrides and restarts: handle_outgoing_payment_result finds the
\* link of every pending payment, and a successful one leaves its link or preimage.
THEOREM PaymentsAreTracked == Spec => []PaymentsTracked
<1>1. Init => TypeOK /\ IdInv /\ FundsInv /\ TrackInv
  <2> SUFFICES ASSUME Init PROVE TrackInv
    BY Zenon, TypeInit, IdInit, FundsInit
  <2>1. Candidates = {{}} /\ RemoteAdds({}) = {}
    BY Zenon DEF Init, Candidates, RemoteAdds, HtlcsOf
  <2> QED
    BY Zenon, <2>1 DEF Init, TrackInv, PaymentsTracked
<1>2. (TypeOK /\ IdInv /\ FundsInv /\ TrackInv) /\ [Next]_vars
      => (TypeOK /\ IdInv /\ FundsInv /\ TrackInv)'
  BY Zenon, TypeNext, IdNext, FundsNext, TrackNext
<1>3. TrackInv => PaymentsTracked
  BY Zenon DEF TrackInv
<1> QED
  BY <1>1, <1>2, <1>3, PTL DEF Spec

-----------------------------------------------------------------------------
(* The safety of forwarding to a hosted channel, while the plugin keeps    *)
(* running: the host does not give up an upstream HTLC the client can      *)
(* still claim, and does not pay for one it has given up.                  *)

\* The HTLCs the client has fulfilled in the updates U.
Fulfils(U) == HtlcsOf(U, "remote", "fulfill")

\* Some forward link still answers for upstream u.
Linked(u) == \E i \in DOMAIN links : links[i] = u

\* An operator's payment has no upstream HTLC behind it.
DirectInv ==
    \A u \in Direct : upstream[u] \in {"new", "direct"} /\ resolutions[u] = "none" /\ ~Linked(u)

\* An upstream HTLC the hook has not been called for has left no trace.
NewInv ==
    \A u \in Upstreams \ Direct :
       /\ upstream[u] # "replay"
       /\ upstream[u] = "new" =>
             /\ \A h \in Live : h.pay # u
             /\ u \notin claimed /\ ~Linked(u) /\ resolutions[u] = "none"

\* A link may be stale, and its id in use for another HTLC; but if the upstream
\* HTLC it names is live, then under that very id.
LinkInv ==
    \A i \in DOMAIN links : \A h \in Live : h.pay = links[i] => h.id = i

\* Once the client has fulfilled, nothing can give the upstream HTLC up.
FulfilInv ==
    \A h \in Fulfils(uncommitted) :
       h \in lcss.outgoing_htlcs /\ ~GivenUp(h.pay) /\ ~Linked(h.pay)

\* What the client has failed is committed.
FailInv ==
    HtlcsOf(uncommitted, "remote", "fail") \subseteq lcss.outgoing_htlcs

ClaimInv ==
    \A u \in claimed : ~GivenUp(u) /\ ~Linked(u)

ForwardInv ==
    DirectInv /\ NewInv /\ LinkInv /\ FulfilInv /\ FailInv /\ ClaimInv /\ GivenUpIsFenced

-----------------------------------------------------------------------------
(* Most steps are quiet: they offer nothing, record no new fulfil, make no *)
(* link, and give up only an upstream HTLC that a link answers for and     *)
(* that the client can no longer claim.                                    *)

QuietStep ==
    /\ Live' \subseteq Live
    /\ errors \subseteq errors'
    /\ \A i \in DOMAIN links' : i \in DOMAIN links /\ links'[i] = links[i]
    /\ \A u \in Upstreams : \/ upstream'[u] = upstream[u]
                            \/ upstream[u] = "held" /\ upstream'[u] \in {"fulfilled", "failed"}
    /\ \A u \in Upstreams : resolutions'[u] # "none" => resolutions[u] # "none" \/ Linked(u)
    /\ \A u \in Upstreams :
          GivenUp(u)' => GivenUp(u) \/ (Linked(u) /\ (Fenced' \/ \A h \in Live' : h.pay # u))
    /\ \A h \in Fulfils(uncommitted') : h \in Fulfils(uncommitted) /\ h \in lcss'.outgoing_htlcs
    /\ FailInv'
    /\ claimed' \subseteq claimed \cup {h.pay : h \in Fulfils(uncommitted)}

LEMMA LiveType ==
    ASSUME TypeOK
    PROVE  /\ Live \subseteq Outgoing
           /\ \A h \in Live : h.pay \in Upstreams /\ h.id \in Nat
           /\ Fulfils(uncommitted) \subseteq Outgoing
BY DEF TypeOK, Live, LocalAdds, Fulfils, HtlcsOf, Update, Outgoing

LEMMA QuietPreserves ==
    ASSUME TypeOK, TypeOK', ForwardInv, QuietStep
    PROVE  ForwardInv'
<1>1. \A u : Linked(u)' => Linked(u)
  BY Zenon DEF QuietStep, Linked
<1>2. Fenced => Fenced'
  BY Zenon DEF QuietStep, Fenced
<1>3. DirectInv'
  BY Zenon, <1>1, ChannelAssumption DEF ForwardInv, DirectInv, QuietStep
<1>4. NewInv'
  <2> SUFFICES ASSUME NEW u \in Upstreams \ Direct
               PROVE  /\ upstream'[u] # "replay"
                      /\ upstream'[u] = "new" =>
                            /\ \A h \in Live' : h.pay # u
                            /\ u \notin claimed' /\ ~Linked(u)' /\ resolutions'[u] = "none"
    BY Zenon DEF NewInv
  <2>1. upstream'[u] # "replay"
    BY Zenon DEF ForwardInv, NewInv, QuietStep
  <2>2. ASSUME upstream'[u] = "new"
        PROVE  /\ \A h \in Live' : h.pay # u
               /\ u \notin claimed' /\ ~Linked(u)' /\ resolutions'[u] = "none"
    <3>1. upstream[u] = "new"
      BY Zenon, <2>2 DEF QuietStep
    <3>2. /\ \A h \in Live : h.pay # u
          /\ u \notin claimed /\ ~Linked(u) /\ resolutions[u] = "none"
      BY Zenon, <3>1 DEF ForwardInv, NewInv
    <3>3. u \notin claimed'
      BY Zenon, <3>2 DEF QuietStep, ForwardInv, FulfilInv, Live
    <3> QED
      BY Zenon, <1>1, <3>2, <3>3 DEF QuietStep
  <2> QED
    BY Zenon, <2>1, <2>2
<1>5. LinkInv'
  BY Zenon DEF ForwardInv, LinkInv, QuietStep
<1>6. \A u \in Upstreams : ~GivenUp(u) /\ ~Linked(u) => ~GivenUp(u)' /\ ~Linked(u)'
  BY Zenon, <1>1 DEF QuietStep
<1>7. FulfilInv'
  BY Zenon, <1>6, LiveType DEF QuietStep, ForwardInv, FulfilInv, Outgoing
<1>8. ClaimInv'
  <2>1. claimed \subseteq Upstreams
    BY DEF TypeOK
  <2>2. \A h \in Fulfils(uncommitted) : h.pay \in Upstreams
    BY LiveType DEF Outgoing
  <2>3. \A u \in claimed' : u \in claimed \/ \E h \in Fulfils(uncommitted) : u = h.pay
    BY DEF QuietStep
  <2>4. \A u \in claimed' : u \in Upstreams /\ ~GivenUp(u) /\ ~Linked(u)
    BY Zenon, <2>1, <2>2, <2>3 DEF ForwardInv, ClaimInv, FulfilInv
  <2> QED
    BY Zenon, <1>6, <2>4 DEF ClaimInv
<1>9. GivenUpIsFenced'
  BY Zenon, <1>2, LiveType DEF ForwardInv, GivenUpIsFenced, QuietStep
<1> QED
  BY Zenon, <1>3, <1>4, <1>5, <1>7, <1>8, <1>9 DEF ForwardInv, QuietStep

\* Answering links: what resolve_forward_fulfill and resolve_forward_fail change.
LEMMA ResolveEffect ==
    ASSUME TypeOK, NEW ids, NEW r, ResolveForward(ids, r)
    PROVE  /\ \A i \in DOMAIN links' : i \in DOMAIN links \ ids /\ links'[i] = links[i]
           /\ \A u \in Upstreams :
                 \/ resolutions'[u] = resolutions[u]
                 \/ resolutions'[u] = r /\ \E i \in ids \cap DOMAIN links : links[i] = u
BY Zenon DEF TypeOK, ResolveForward

\* A step that leaves upstream HTLCs, links and answers alone, apart from
\* answering links with a fulfil, and records no new fulfil, is quiet.
LEMMA GrowsQuietly ==
    ASSUME TypeOK, IdInv, ForwardInv, Grows,
           errors \subseteq errors', UNCHANGED <<upstream, claimed>>,
           UNCHANGED linkVars \/ \E ids : ResolveForward(ids, "resolve"),
           \A x \in uncommitted' \ uncommitted : ~(x.side = "remote" /\ x.kind = "fulfill"),
           \A x \in uncommitted' \ uncommitted :
              x.side = "remote" /\ x.kind = "fail" => x.htlc \in lcss.outgoing_htlcs
    PROVE  QuietStep
<1>1. Live' = Live
  BY Zenon, GrowsAdds
<1>2. Fulfils(uncommitted') \subseteq Fulfils(uncommitted)
  BY Zenon DEF Fulfils, HtlcsOf
<1>3. /\ \A i \in DOMAIN links' : i \in DOMAIN links /\ links'[i] = links[i]
      /\ \A u \in Upstreams : \/ resolutions'[u] = resolutions[u]
                              \/ resolutions'[u] = "resolve" /\ Linked(u)
  <2>1. CASE UNCHANGED linkVars
    BY Zenon, <2>1 DEF linkVars
  <2>2. CASE \E ids : ResolveForward(ids, "resolve")
    BY <2>2, ResolveEffect DEF Linked
  <2> QED
    BY Zenon, <2>1, <2>2
<1>4. \A u \in Upstreams : GivenUp(u)' => GivenUp(u)
  BY Zenon, <1>3 DEF GivenUp
<1>5. \A h \in Fulfils(uncommitted') : h \in Fulfils(uncommitted) /\ h \in lcss'.outgoing_htlcs
  BY Zenon, <1>2 DEF ForwardInv, FulfilInv, Grows
<1>6. FailInv'
  BY Zenon DEF ForwardInv, FailInv, HtlcsOf, Grows
<1> QED
  BY Zenon, <1>1, <1>3, <1>4, <1>5, <1>6 DEF QuietStep

LEMMA RecoverQuietly ==
    ASSUME TypeOK, IdInv, ForwardInv, NEW query, NEW sigs, Recover(query, sigs),
           \A U \in sigs : U \in signed \/ U = uncommitted, UNCHANGED upstream
    PROVE  QuietStep
<1>1. Grows
  BY Zenon, RecoverGrows
<1>2. errors \subseteq errors'
  BY Zenon, RecoverKeepsErrors
<1>3. UNCHANGED claimed
  BY Zenon DEF Recover
<1>4. UNCHANGED linkVars \/ \E ids : ResolveForward(ids, "resolve")
  BY Zenon DEF Recover, RecoverOutgoing, linkVars
<1>5. \A x \in uncommitted' \ uncommitted : LocalResolution(x)
  <2>1. \E S, how : uncommitted' = uncommitted \/ uncommitted' = uncommitted \cup Answers(S, how)
    BY Zenon DEF Recover, RecoverOutgoing
  <2> QED
    BY Zenon, <2>1, AnswersResolve
<1>6. \A x \in uncommitted' \ uncommitted : x.side # "remote"
  BY Zenon, <1>5 DEF LocalResolution
<1> QED
  BY Zenon, <1>1, <1>2, <1>3, <1>4, <1>6, GrowsQuietly

\* Committing: the fulfils of the committed updates become claims.
LEMMA CommitsFulfils ==
    ASSUME TypeOK, IdInv, NEW U \in signed \cup {uncommitted}, Fold(U)
    PROVE  /\ claimed' \subseteq claimed \cup {h.pay : h \in Fulfils(uncommitted)}
           /\ lcss'.outgoing_htlcs \subseteq Live
           /\ \A h \in lcss'.outgoing_htlcs : ~RemoteResolved(U, h)
<1>1. \A x \in U : x \in uncommitted \/ LocalResolution(x)
  BY Zenon DEF IdInv
<1>2. Fulfils(U) \subseteq Fulfils(uncommitted) /\ LocalAdds(U) \subseteq LocalAdds(uncommitted)
  BY Zenon, <1>1, AddsFromRecord DEF Fulfils, HtlcsOf, LocalResolution
<1>3. lcss'.outgoing_htlcs = {h \in lcss.outgoing_htlcs \cup LocalAdds(U) : ~RemoteResolved(U, h)}
  BY Zenon DEF Fold, NextLcss
<1>4. claimed' = claimed \cup {h.pay : h \in Fulfils(U)}
  BY Zenon DEF Fold, Fulfils
<1> QED
  BY Zenon, <1>2, <1>3, <1>4 DEF Live

LEMMA StateUpdateQuietly ==
    ASSUME TypeOK, IdInv, ForwardInv, StateUpdate
    PROVE  QuietStep
<1>1. Fold(uncommitted)
  BY Zenon DEF StateUpdate
<1>2. /\ claimed' \subseteq claimed \cup {h.pay : h \in Fulfils(uncommitted)}
      /\ lcss'.outgoing_htlcs \subseteq Live
      /\ \A h \in lcss'.outgoing_htlcs : ~RemoteResolved(uncommitted, h)
  BY Zenon, <1>1, CommitsFulfils
<1>3. \A x \in uncommitted' : LocalResolution(x)
  <2>1. uncommitted' = {} \/ \E S, how : uncommitted' = Answers(S, how)
    BY Zenon DEF StateUpdate
  <2> QED
    BY Zenon, <2>1, AnswersResolve
<1>4. LocalAdds(uncommitted') = {} /\ Fulfils(uncommitted') = {} /\ FailInv'
  BY Zenon, <1>3, NoAdds DEF Fulfils, FailInv, HtlcsOf, LocalResolution
<1>5. Live' = lcss'.outgoing_htlcs /\ Live' \subseteq Live
  BY Zenon, <1>2, <1>4 DEF Live
<1>6. UNCHANGED <<errors, upstream>>
  BY Zenon DEF StateUpdate
<1> DEFINE failed == HtlcsOf(uncommitted, "remote", "fail")
           ids == {h.id : h \in failed}
<1>7. CASE UNCHANGED linkVars
  BY Zenon, <1>2, <1>4, <1>5, <1>6, <1>7 DEF QuietStep, linkVars, GivenUp
<1>8. CASE ResolveForward(ids, "fail")
  <2>1. /\ \A i \in DOMAIN links' : i \in DOMAIN links /\ links'[i] = links[i]
        /\ \A u \in Upstreams :
              \/ resolutions'[u] = resolutions[u]
              \/ resolutions'[u] = "fail" /\ \E i \in ids \cap DOMAIN links : links[i] = u
    BY <1>8, ResolveEffect
  <2>2. ASSUME NEW u \in Upstreams, NEW i \in ids \cap DOMAIN links, links[i] = u
        PROVE  Linked(u) /\ \A h \in Live' : h.pay # u
    <3>1. PICK g \in failed : g.id = i
      OBVIOUS
    <3>2. g \in Outgoing /\ RemoteFail(g) \in uncommitted
      BY DEF TypeOK, HtlcsOf, Update, RemoteFail
    <3>3. SUFFICES ASSUME NEW h \in Live', h.pay = u PROVE FALSE
      BY Zenon, <2>2 DEF Linked
    <3>4. h \in Live /\ h.id = i
      BY Zenon, <1>5, <2>2, <3>3 DEF ForwardInv, LinkInv
    <3>5. ~RemoteResolved(uncommitted, h)
      BY Zenon, <1>2, <1>5, <3>3
    <3>6. h # g
      BY Zenon, <3>2, <3>5 DEF RemoteResolved
    <3>7. g \in lcss.outgoing_htlcs
      BY Zenon DEF ForwardInv, FailInv
    <3> QED
      BY Zenon, <3>1, <3>4, <3>6, <3>7 DEF IdInv, IdsIdentify, Live
  <2>3. \A u \in Upstreams : GivenUp(u)' => GivenUp(u) \/ (Linked(u) /\ \A h \in Live' : h.pay # u)
    BY Zenon, <1>6, <2>1, <2>2 DEF GivenUp
  <2>4. \A u \in Upstreams : resolutions'[u] # "none" => resolutions[u] # "none" \/ Linked(u)
    BY Zenon, <2>1, <2>2
  <2> QED
    BY Zenon, <1>2, <1>4, <1>5, <1>6, <2>1, <2>3, <2>4 DEF QuietStep
<1> QED
  BY Zenon, <1>7, <1>8 DEF StateUpdate, linkVars

-----------------------------------------------------------------------------
(* The other quiet steps                                                   *)

LEMMA AdoptQuietly ==
    ASSUME TypeOK, IdInv, ForwardInv, AdoptLcss
    PROVE  QuietStep
<1>1. uncommitted' = {} /\ UNCHANGED <<errors, links, resolutions, upstream>>
  BY Zenon DEF AdoptLcss, linkVars
<1>2. LocalAdds(uncommitted') = {} /\ Fulfils(uncommitted') = {} /\ FailInv'
  BY Zenon, <1>1 DEF LocalAdds, Fulfils, FailInv, HtlcsOf
<1>3. Live' = lcss'.outgoing_htlcs
  BY Zenon, <1>2 DEF Live
<1>4. /\ lcss'.outgoing_htlcs \subseteq Live
      /\ claimed' \subseteq claimed \cup {h.pay : h \in Fulfils(uncommitted)}
  <2>1. ASSUME NEW U \in signed, Fold(U)
        PROVE  /\ lcss'.outgoing_htlcs \subseteq Live
               /\ claimed' \subseteq claimed \cup {h.pay : h \in Fulfils(uncommitted)}
    BY Zenon, <2>1, CommitsFulfils
  <2>2. (\E U \in signed : Fold(U)) \/ (lcss'.outgoing_htlcs = {} /\ claimed' = claimed)
    BY DEF AdoptLcss
  <2> QED
    BY Zenon, <2>1, <2>2
<1> QED
  BY Zenon, <1>1, <1>2, <1>3, <1>4 DEF QuietStep, GivenUp

\* The deadlines of the watchdog: what is given up is fenced.
LEMMA WatchdogQuietly ==
    ASSUME TypeOK, ForwardInv, Watchdog
    PROVE  QuietStep
<1>1. PICK id, e : /\ e \in {"delivery_failed", "htlc_expired"}
                   /\ errors' = errors \cup {e}
                   /\ ResolveForward({id}, "fail")
                   /\ UNCHANGED <<lcss, uncommitted, claimed, upstream>>
  BY Zenon DEF Watchdog, CommitTimeout, HtlcExpired, ErrorAndFail
<1>2. Fenced' /\ errors \subseteq errors'
  BY Zenon, <1>1 DEF Fenced
<1>3. /\ \A i \in DOMAIN links' : i \in DOMAIN links /\ links'[i] = links[i]
      /\ \A u \in Upstreams : \/ resolutions'[u] = resolutions[u]
                              \/ resolutions'[u] = "fail" /\ Linked(u)
  BY <1>1, ResolveEffect DEF Linked
<1>4. Live' = Live /\ FailInv'
  BY Zenon, <1>1 DEF Live, ForwardInv, FailInv
<1>5. \A h \in Fulfils(uncommitted') : h \in Fulfils(uncommitted) /\ h \in lcss'.outgoing_htlcs
  BY Zenon, <1>1 DEF ForwardInv, FulfilInv
<1> QED
  BY Zenon, <1>1, <1>2, <1>3, <1>4, <1>5 DEF QuietStep, GivenUp

LEMMA HookTakesQuietly ==
    ASSUME TypeOK, ForwardInv, NEW u \in Upstreams, HookTakes(u)
    PROVE  QuietStep
<1> USE DEF chanVars
<1>1. UNCHANGED <<lcss, uncommitted, errors, claimed, links>>
  BY Zenon DEF HookTakes
<1>2. Live' = Live /\ FailInv'
  BY Zenon, <1>1 DEF Live, ForwardInv, FailInv
<1>3. \A h \in Fulfils(uncommitted') : h \in Fulfils(uncommitted) /\ h \in lcss'.outgoing_htlcs
  BY Zenon, <1>1 DEF ForwardInv, FulfilInv
<1>4. /\ \A v \in Upstreams : \/ upstream'[v] = upstream[v]
                              \/ upstream[v] = "held" /\ upstream'[v] \in {"fulfilled", "failed"}
      /\ \A v \in Upstreams : resolutions'[v] \in {"none", resolutions[v]}
      /\ \A v \in Upstreams : upstream'[v] = "failed" => GivenUp(v)
  BY Zenon DEF HookTakes, TypeOK, GivenUp
<1> QED
  BY Zenon, <1>1, <1>2, <1>3, <1>4 DEF QuietStep, GivenUp

\* Steps that add no fulfil to the record and answer no upstream.
LEMMA PeerQuietly ==
    ASSUME TypeOK, IdInv, ForwardInv,
           \/ \E p \in Payments : UpdateAdd(p)
           \/ \E h \in lcss.outgoing_htlcs :
                 \/ UpdateFulfill(h) /\ ~SettlementIsSafe(h)
                 \/ UpdateFail(h) \/ UpdateFailMalformed(h)
           \/ \E u \in Upstreams : ReplyPreimages(u)
           \/ BadLcss \/ PeerError \/ Connect \/ Disconnect \/ Invoke
    PROVE  QuietStep
<1> USE DEF chanVars, linkVars
<1>1. ASSUME NEW p \in Payments, UpdateAdd(p)
      PROVE  QuietStep
  <2>1. Grows
    BY <1>1 DEF UpdateAdd, RemoteAdd, Grows
  <2>2. /\ errors \subseteq errors' /\ UNCHANGED <<upstream, claimed, links, resolutions>>
        /\ \A x \in uncommitted' \ uncommitted : x.kind = "add"
    BY <1>1 DEF UpdateAdd, RemoteAdd
  <2> QED
    BY Zenon, <2>1, <2>2, GrowsQuietly
<1>2. ASSUME NEW h \in lcss.outgoing_htlcs,
             \/ UpdateFulfill(h) /\ ~SettlementIsSafe(h)
             \/ UpdateFail(h) \/ UpdateFailMalformed(h)
      PROVE  QuietStep
  <2>1. /\ lcss' = lcss /\ signed' = signed
        /\ errors \subseteq errors' /\ UNCHANGED <<upstream, claimed, links, resolutions>>
        /\ uncommitted' = uncommitted \/ uncommitted' = uncommitted \cup {RemoteFail(h)}
    BY Zenon, <1>2 DEF UpdateFulfill, UpdateFail, UpdateFailMalformed
  <2>2. \A x \in uncommitted' \ uncommitted : x.side = "remote" /\ x.kind = "fail" /\ x.htlc = h
    BY <2>1 DEF RemoteFail
  <2>3. Grows
    BY Zenon, <2>1, <2>2 DEF Grows
  <2> QED
    BY Zenon, <2>1, <2>2, <2>3, GrowsQuietly
<1>3. ASSUME UNCHANGED <<lcss, uncommitted, upstream, claimed, links, resolutions>>,
             \A U \in signed' : U \in signed \/ U = uncommitted, errors \subseteq errors'
      PROVE  QuietStep
  <2>1. Grows
    BY Zenon, <1>3 DEF Grows
  <2> QED
    BY Zenon, <1>3, <2>1, GrowsQuietly
<1>4. CASE BadLcss \/ PeerError \/ Disconnect \/ \E u \in Upstreams : ReplyPreimages(u)
  BY Zenon, <1>3, <1>4 DEF BadLcss, PeerError, Disconnect, ReplyPreimages
<1>5. CASE Connect
  BY Zenon, <1>3, <1>5, RecoverQuietly DEF Connect
<1>6. CASE Invoke
  <2> DEFINE sigs == IF uncommitted = {} THEN signed ELSE signed \cup {uncommitted}
  <2>1. \A U \in sigs : U \in signed \/ U = uncommitted
    OBVIOUS
  <2>2. CASE Recover(TRUE, sigs)
    BY Zenon, <1>6, <2>1, <2>2, RecoverQuietly DEF Invoke
  <2>3. CASE /\ signed' = sigs
             /\ UNCHANGED <<lcss, uncommitted, errors, claimed, linkVars>>
    BY Zenon, <1>3, <1>6, <2>1, <2>3 DEF Invoke
  <2> QED
    BY Zenon, <1>6, <2>2, <2>3 DEF Invoke
<1> QED
  BY Zenon, <1>1, <1>2, <1>4, <1>5, <1>6

LEMMA LightningdQuietly ==
    ASSUME TypeOK, IdInv, ForwardInv, Lightningd \/ ProposeOverride
    PROVE  QuietStep
<1> USE DEF chanVars, linkVars
<1>1. \A x \in uncommitted' \ uncommitted : LocalResolution(x)
  BY Zenon, AnswersResolve DEF Lightningd, PaymentSettles, PaymentResult, BlocksReach, ProposeOverride
<1>2. /\ lcss' = lcss /\ uncommitted \subseteq uncommitted'
      /\ errors \subseteq errors' /\ UNCHANGED <<upstream, claimed, links, resolutions>>
      /\ \A U \in signed' : U \in signed \/ U = uncommitted'
  BY Zenon DEF Lightningd, PaymentSettles, PaymentResult, BlocksReach, ProposeOverride
<1>3. Grows
  BY Zenon, <1>1, <1>2 DEF Grows
<1> QED
  BY Zenon, <1>1, <1>2, <1>3, GrowsQuietly DEF LocalResolution

-----------------------------------------------------------------------------
(* The steps that are not quiet                                            *)

\* The hook answers a new upstream HTLC without offering a hosted one.
LEMMA NewAnswered ==
    ASSUME TypeOK, ForwardInv, NEW u \in Upstreams, u \notin Direct, upstream[u] = "new",
           UNCHANGED <<lcss, uncommitted, errors, claimed, links>>,
           \A v \in Upstreams \ {u} : upstream'[v] = upstream[v] /\ resolutions'[v] = resolutions[v],
           upstream'[u] \notin {"new", "replay"}
    PROVE  ForwardInv'
<1>1. (\A h \in Live : h.pay # u) /\ u \notin claimed /\ ~Linked(u)
  BY Zenon DEF ForwardInv, NewInv
<1>2. /\ Live' = Live /\ FailInv' /\ LinkInv' /\ Fenced' = Fenced
      /\ \A v : Linked(v)' <=> Linked(v)
  BY Zenon DEF Live, ForwardInv, FailInv, LinkInv, Fenced, Linked
<1>3. \A v \in Upstreams \ {u} : GivenUp(v)' <=> GivenUp(v)
  BY Zenon DEF GivenUp
<1>4. DirectInv'
  BY Zenon, <1>2, ChannelAssumption DEF ForwardInv, DirectInv
<1>5. NewInv'
  BY Zenon, <1>2 DEF ForwardInv, NewInv
<1>6. FulfilInv'
  BY Zenon, <1>1, <1>2, <1>3, LiveType DEF ForwardInv, FulfilInv, Live, Outgoing
<1>7. ClaimInv'
  BY Zenon, <1>1, <1>2, <1>3 DEF ForwardInv, ClaimInv, TypeOK
<1>8. GivenUpIsFenced'
  BY Zenon, <1>1, <1>2, <1>3, LiveType DEF ForwardInv, GivenUpIsFenced
<1> QED
  BY Zenon, <1>2, <1>4, <1>5, <1>6, <1>7, <1>8 DEF ForwardInv

\* One more HTLC for upstream u, under an id that no live HTLC has.
LEMMA OfferEffect ==
    ASSUME TypeOK, ForwardInv, NEW h \in Outgoing,
           lcss' = lcss, uncommitted' = uncommitted \cup {LocalAdd(h)}
    PROVE  /\ Live' = Live \cup {h}
           /\ Fulfils(uncommitted') = Fulfils(uncommitted)
           /\ FailInv'
<1>1. LocalAdds(uncommitted') = LocalAdds(uncommitted) \cup {h}
  BY Zenon, AddsOfUnion
<1>2. \A x \in uncommitted' \ uncommitted : x.side = "local"
  BY DEF LocalAdd
<1> QED
  BY Zenon, <1>1, <1>2 DEF Live, Fulfils, FailInv, ForwardInv, HtlcsOf

LEMMA HookForwardsSafe ==
    ASSUME TypeOK, TypeOK', ForwardInv, NEW u \in Upstreams, HookForwards(u)
    PROVE  ForwardInv'
<1> DEFINE h == [id |-> NextState.local_updates + 1, pay |-> u]
<1>1. /\ u \notin Direct /\ upstream[u] = "new"
      /\ (\A g \in Live : g.pay # u) /\ u \notin claimed /\ ~Linked(u) /\ resolutions[u] = "none"
  BY Zenon DEF HookForwards, HookCalled, ForwardInv, NewInv
<1>2. h \in Outgoing /\ h.pay = u /\ h.id = NextState.local_updates + 1
  BY NextStateType DEF Outgoing, LcssType, FiniteLcss
<1>3. /\ lcss' = lcss /\ uncommitted' = uncommitted \cup {LocalAdd(h)}
      /\ links' = [i \in DOMAIN links \cup {h.id} |-> IF i \in DOMAIN links THEN links[i] ELSE u]
      /\ UNCHANGED <<claimed, resolutions>>
      /\ \/ upstream' = [upstream EXCEPT ![u] = "held"] /\ errors' = errors
         \/ upstream' = [upstream EXCEPT ![u] = "failed"]
            /\ errors' = errors \cup {"delivery_failed"}
  BY Zenon DEF HookForwards
<1> HIDE DEF h
<1>4. Live' = Live \cup {h} /\ Fulfils(uncommitted') = Fulfils(uncommitted) /\ FailInv'
  BY Zenon, <1>2, <1>3, OfferEffect
<1>5. /\ \A v \in Upstreams \ {u} : upstream'[v] = upstream[v]
      /\ upstream'[u] \in {"held", "failed"}
      /\ upstream'[u] = "failed" => Fenced'
      /\ Fenced => Fenced'
  BY <1>3 DEF TypeOK, Fenced
<1>6. \A i \in DOMAIN links' : \/ i \in DOMAIN links /\ links'[i] = links[i]
                               \/ i = h.id /\ links'[i] = u
  BY Zenon, <1>3
<1>7. \A v : Linked(v)' => Linked(v) \/ v = u
  BY Zenon, <1>6 DEF Linked
<1>8. \A v \in Upstreams \ {u} : GivenUp(v)' <=> GivenUp(v)
  BY Zenon, <1>3, <1>5 DEF GivenUp
<1>9. GivenUp(u)' => Fenced'
  BY Zenon, <1>1, <1>3, <1>5 DEF GivenUp
<1>10. DirectInv'
  BY Zenon, <1>1, <1>3, <1>5, <1>7, ChannelAssumption DEF ForwardInv, DirectInv
<1>11. NewInv'
  BY Zenon, <1>2, <1>3, <1>4, <1>5, <1>7 DEF ForwardInv, NewInv
<1>12. LinkInv'
  BY Zenon, <1>1, <1>2, <1>4, <1>6 DEF ForwardInv, LinkInv, Linked
<1>13. FulfilInv'
  BY Zenon, <1>1, <1>3, <1>4, <1>7, <1>8, LiveType DEF ForwardInv, FulfilInv, Live, Outgoing
<1>14. ClaimInv'
  <2>1. claimed \subseteq Upstreams \ {u} /\ claimed' = claimed
    BY <1>1, <1>3 DEF TypeOK
  <2> QED
    BY Zenon, <1>7, <1>8, <2>1 DEF ForwardInv, ClaimInv
<1>15. GivenUpIsFenced'
  BY Zenon, <1>2, <1>4, <1>5, <1>8, <1>9, LiveType DEF ForwardInv, GivenUpIsFenced
<1> QED
  BY Zenon, <1>4, <1>10, <1>11, <1>12, <1>13, <1>14, <1>15 DEF ForwardInv

LEMMA SendDirectPaymentSafe ==
    ASSUME TypeOK, TypeOK', ForwardInv, NEW u \in Direct, SendDirectPayment(u)
    PROVE  ForwardInv'
<1> DEFINE h == [id |-> NextState.local_updates + 1, pay |-> u]
<1>1. u \in Upstreams /\ upstream[u] \in {"new", "direct"} /\ ~Linked(u) /\ resolutions[u] = "none"
  BY Zenon, ChannelAssumption DEF ForwardInv, DirectInv
<1>2. h \in Outgoing /\ h.pay = u
  BY <1>1, NextStateType DEF Outgoing, LcssType, FiniteLcss
<1>3. /\ lcss' = lcss /\ uncommitted' = uncommitted \cup {LocalAdd(h)}
      /\ UNCHANGED <<claimed, resolutions, links, errors>>
      /\ upstream' = [upstream EXCEPT ![u] = "direct"]
  BY Zenon DEF SendDirectPayment, linkVars
<1> HIDE DEF h
<1>4. Live' = Live \cup {h} /\ Fulfils(uncommitted') = Fulfils(uncommitted) /\ FailInv'
  BY Zenon, <1>2, <1>3, OfferEffect
<1>5. /\ \A v \in Upstreams \ {u} : upstream'[v] = upstream[v]
      /\ upstream'[u] = "direct" /\ Fenced' = Fenced
      /\ \A v : Linked(v)' <=> Linked(v)
  BY <1>1, <1>3 DEF TypeOK, Fenced, Linked
<1>6. \A v \in Upstreams : GivenUp(v)' <=> GivenUp(v)
  BY Zenon, <1>1, <1>3, <1>5 DEF GivenUp
<1>7. ~GivenUp(u)'
  BY Zenon, <1>1, <1>3, <1>5 DEF GivenUp
<1>8. DirectInv'
  BY Zenon, <1>3, <1>5, ChannelAssumption DEF ForwardInv, DirectInv
<1>9. NewInv'
  BY Zenon, <1>2, <1>3, <1>4, <1>5 DEF ForwardInv, NewInv
<1>10. LinkInv'
  BY Zenon, <1>1, <1>2, <1>3, <1>4 DEF ForwardInv, LinkInv, Linked
<1>11. FulfilInv'
  <2>1. SUFFICES ASSUME NEW g \in Fulfils(uncommitted)
                 PROVE  g \in lcss.outgoing_htlcs /\ ~GivenUp(g.pay)' /\ ~Linked(g.pay)'
    BY Zenon, <1>3, <1>4 DEF FulfilInv
  <2>2. g \in lcss.outgoing_htlcs /\ ~GivenUp(g.pay) /\ ~Linked(g.pay)
    BY Zenon, <2>1 DEF ForwardInv, FulfilInv
  <2>3. g \in Outgoing
    BY Zenon, <2>2, LiveType DEF Live
  <2>4. g.pay \in Upstreams
    BY Zenon, <2>3 DEF Outgoing
  <2> QED
    BY Zenon, <1>5, <1>6, <2>2, <2>4
<1>12. ClaimInv'
  BY Zenon, <1>3, <1>5, <1>6 DEF ForwardInv, ClaimInv, TypeOK
<1>13. GivenUpIsFenced'
  BY Zenon, <1>2, <1>4, <1>5, <1>6, <1>7, LiveType DEF ForwardInv, GivenUpIsFenced
<1> QED
  BY Zenon, <1>4, <1>8, <1>9, <1>10, <1>11, <1>12, <1>13 DEF ForwardInv

\* A fulfil that comes in time: the guard on the fencing errors is what keeps
\* the host from accepting one for an upstream HTLC it has given up.
LEMMA UpdateFulfillSafe ==
    ASSUME TypeOK, TypeOK', ForwardInv, NEW h \in lcss.outgoing_htlcs,
           UpdateFulfill(h), SettlementIsSafe(h)
    PROVE  ForwardInv'
<1>1. /\ ~Fenced /\ UNCHANGED <<lcss, errors, claimed, upstream, signed>>
      /\ uncommitted' = uncommitted \cup {RemoteFulfill(h)}
      /\ ResolveForward({h.id}, "resolve")
  BY Zenon DEF UpdateFulfill
<1>2. h \in Live /\ h \in Outgoing /\ h.pay \in Upstreams
  BY Zenon, LiveType DEF Live
<1>3. \A x \in uncommitted' \ uncommitted : x = RemoteFulfill(h)
  BY Zenon, <1>1
<1>4. Live' = Live
  <2>1. Grows
    BY <1>1 DEF Grows, RemoteFulfill
  <2> QED
    BY Zenon, <2>1, GrowsAdds
<1>5. Fulfils(uncommitted') \subseteq Fulfils(uncommitted) \cup {h} /\ FailInv'
  BY <1>1, <1>3 DEF Fulfils, FailInv, ForwardInv, HtlcsOf, RemoteFulfill
<1>6. /\ \A i \in DOMAIN links' : i \in DOMAIN links /\ i # h.id /\ links'[i] = links[i]
      /\ \A u \in Upstreams : \/ resolutions'[u] = resolutions[u]
                              \/ resolutions'[u] = "resolve" /\ Linked(u)
  BY <1>1, ResolveEffect DEF Linked
<1>7. /\ \A u : Linked(u)' => Linked(u)
      /\ ~Linked(h.pay)'
  BY <1>2, <1>6 DEF Linked, ForwardInv, LinkInv
<1>8. \A u \in Upstreams : GivenUp(u)' => GivenUp(u)
  BY Zenon, <1>1, <1>6 DEF GivenUp
<1>9. ~GivenUp(h.pay)'
  BY Zenon, <1>1, <1>2, <1>8 DEF ForwardInv, GivenUpIsFenced
<1>10. DirectInv'
  BY Zenon, <1>1, <1>6, <1>7, ChannelAssumption DEF ForwardInv, DirectInv
<1>11. NewInv'
  BY Zenon, <1>1, <1>4, <1>6, <1>7 DEF ForwardInv, NewInv
<1>12. LinkInv'
  BY <1>4, <1>6 DEF ForwardInv, LinkInv
<1>13. FulfilInv'
  BY Zenon, <1>1, <1>5, <1>7, <1>8, <1>9, LiveType DEF ForwardInv, FulfilInv, Outgoing
<1>14. ClaimInv'
  BY Zenon, <1>1, <1>7, <1>8 DEF ForwardInv, ClaimInv, TypeOK
<1>15. GivenUpIsFenced'
  BY Zenon, <1>1, <1>4, <1>8, LiveType DEF ForwardInv, GivenUpIsFenced, Fenced
<1> QED
  BY Zenon, <1>5, <1>10, <1>11, <1>12, <1>13, <1>14, <1>15 DEF ForwardInv

LEMMA AcceptOverrideSafe ==
    ASSUME TypeOK, TypeOK', ForwardInv, AcceptOverride
    PROVE  ForwardInv'
<1>1. /\ lcss'.outgoing_htlcs = {} /\ uncommitted' = {}
      /\ UNCHANGED <<claimed, links, resolutions, upstream>>
  BY Zenon DEF AcceptOverride, linkVars
<1>2. Live' = {} /\ Fulfils(uncommitted') = {} /\ FailInv'
  BY Zenon, <1>1 DEF Live, LocalAdds, Fulfils, FailInv, HtlcsOf
<1> QED
  BY Zenon, <1>1, <1>2 DEF ForwardInv, DirectInv, NewInv, LinkInv, FulfilInv, ClaimInv,
                    GivenUpIsFenced, Linked, GivenUp

-----------------------------------------------------------------------------
LEMMA ForwardInit == Init => ForwardInv
<1> SUFFICES ASSUME Init PROVE ForwardInv
  OBVIOUS
<1>1. /\ lcss.outgoing_htlcs = {} /\ uncommitted = {} /\ claimed = {}
      /\ DOMAIN links = {}
      /\ \A u \in Upstreams : upstream[u] = "new" /\ resolutions[u] = "none"
  BY Zenon DEF Init
<1>2. Live = {} /\ Fulfils(uncommitted) = {} /\ HtlcsOf(uncommitted, "remote", "fail") = {}
  BY Zenon, <1>1 DEF Live, LocalAdds, Fulfils, HtlcsOf
<1>3. \A u : ~Linked(u)
  BY Zenon, <1>1 DEF Linked
<1>4. DirectInv /\ NewInv
  BY Zenon, <1>1, <1>2, <1>3, ChannelAssumption DEF DirectInv, NewInv
<1>5. LinkInv /\ FulfilInv /\ FailInv /\ ClaimInv /\ GivenUpIsFenced
  BY Zenon, <1>1, <1>2 DEF LinkInv, FulfilInv, FailInv, ClaimInv, GivenUpIsFenced
<1> QED
  BY Zenon, <1>4, <1>5 DEF ForwardInv

LEMMA ForwardNext ==
    ASSUME TypeOK, TypeOK', IdInv, ForwardInv, [Run]_vars
    PROVE  ForwardInv'
<1>1. CASE QuietStep
  BY Zenon, <1>1, QuietPreserves
<1>2. CASE UNCHANGED vars
  <2>1. UNCHANGED <<lcss, uncommitted, errors, claimed, links, resolutions, upstream>>
    BY Zenon, <1>2 DEF vars, chanVars, linkVars
  <2> QED
    BY Zenon, <2>1 DEF ForwardInv, DirectInv, NewInv, LinkInv, FulfilInv, FailInv, ClaimInv,
                GivenUpIsFenced, Linked, GivenUp, Live, Fenced
<1>3. CASE Hook
  <2>1. ASSUME NEW u \in Upstreams, HookFails(u) \/ HookAnswered(u)
        PROVE  ForwardInv'
    <3>1. u \notin Direct /\ upstream[u] = "new"
      BY Zenon, <2>1 DEF HookFails, HookAnswered, HookCalled, ForwardInv, NewInv
    <3>2. /\ UNCHANGED <<lcss, uncommitted, errors, claimed, links>>
          /\ \A v \in Upstreams \ {u} :
                upstream'[v] = upstream[v] /\ resolutions'[v] = resolutions[v]
          /\ upstream'[u] \notin {"new", "replay"}
      BY <2>1 DEF HookFails, HookAnswered, TypeOK, chanVars, linkVars
    <3> QED
      BY Zenon, <3>1, <3>2, NewAnswered
  <2> QED
    BY Zenon, <1>1, <1>3, <2>1, HookForwardsSafe, HookTakesQuietly DEF Hook
<1>4. CASE Peer
  <2>1. ASSUME NEW h \in lcss.outgoing_htlcs, UpdateFulfill(h)
        PROVE  ForwardInv'
    BY Zenon, <1>1, <2>1, PeerQuietly, UpdateFulfillSafe
  <2> QED
    BY Zenon, <1>1, <1>4, <2>1, PeerQuietly, StateUpdateQuietly, AdoptQuietly, AcceptOverrideSafe
       DEF Peer
<1>5. CASE Watchdog
  BY Zenon, <1>1, <1>5, WatchdogQuietly
<1>6. CASE Lightningd \/ ProposeOverride
  BY Zenon, <1>1, <1>6, LightningdQuietly
<1> QED
  BY Zenon, <1>2, <1>3, <1>4, <1>5, <1>6, SendDirectPaymentSafe DEF Run, Operator

LEMMA ForwardInductive ==
    RunSpec => [](TypeOK /\ IdInv /\ ForwardInv)
<1>1. Init => TypeOK /\ IdInv /\ ForwardInv
  BY Zenon, TypeInit, IdInit, ForwardInit
<1>2. [Run]_vars => [Next]_vars
  BY Zenon DEF Next
<1>3. (TypeOK /\ IdInv /\ ForwardInv) /\ [Run]_vars => (TypeOK /\ IdInv /\ ForwardInv)'
  BY Zenon, <1>2, TypeNext, IdNext, ForwardNext
<1> QED
  BY <1>1, <1>3, PTL DEF RunSpec

\* While the plugin runs, the htlc_accepted hook, the watchdog and a committed
\* update_fail_htlc give an upstream HTLC up only when the client can no longer
\* claim the hosted HTLC, or when an error is recorded that makes
\* handle_update_fulfill ignore the claim.
THEOREM GivenUpForGood == RunSpec => []GivenUpIsFenced
<1>1. ForwardInv => GivenUpIsFenced
  BY Zenon DEF ForwardInv
<1> QED
  BY <1>1, ForwardInductive, PTL

\* While the plugin runs, the host never cross-signs a fulfil of a hosted HTLC
\* whose upstream HTLC it has failed, in whatever order the hook, the watchdog
\* and the peer's messages are handled.
THEOREM ClaimsAreFunded == RunSpec => []NoUnfundedClaim
<1>1. ForwardInv => NoUnfundedClaim
  BY Zenon DEF ForwardInv, ClaimInv, NoUnfundedClaim
<1> QED
  BY <1>1, ForwardInductive, PTL
=============================================================================
