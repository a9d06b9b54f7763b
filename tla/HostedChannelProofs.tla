------------------------- MODULE HostedChannelProofs -------------------------
(***************************************************************************)
(* Theorems about HostedChannel.tla for every value of its constants.      *)
(***************************************************************************)
EXTENDS HostedChannel, LcssProofs

-----------------------------------------------------------------------------
(* Type correctness                                                        *)

\* The answers of a loop over finitely many client HTLCs are finitely many
\* local resolutions.
LEMMA AnswersType ==
    ASSUME NEW S \in SUBSET Payments, IsFiniteSet(S), NEW how
    PROVE  Answers(S, how) \in FiniteUpdates
<1> DEFINE T == {x \in S : how[x] \in Answering}
           A(p) == IF how[p] = "paid" THEN LocalFulfill(p) ELSE LocalFail(p)
           f == [p \in T |-> A(p)]
<1>1. IsFiniteSet(T)
  BY Zenon, FS_Subset
<1>2. f \in Surjection(T, Answers(S, how))
  BY Zenon DEF Surjection, Answers
<1>3. Answers(S, how) \subseteq Update
  BY DEF Answers, LocalFulfill, LocalFail, Update
<1> QED
  BY Zenon, <1>1, <1>2, <1>3, FS_Surjection DEF FiniteUpdates

LEMMA ReleasedType ==
    ASSUME NEW U \in FiniteUpdates, NEW new \in FiniteUpdates
    PROVE  Released(U, new) \subseteq FiniteUpdates
<1> SUFFICES ASSUME NEW N \in SUBSET new
             PROVE  U \cup N \in FiniteUpdates
  BY Zenon DEF Released
<1> QED
  BY Zenon, FS_Subset, FS_Union DEF FiniteUpdates

LEMMA ResolveForwardType ==
    ASSUME TypeOK, NEW ids, NEW r \in {"resolve", "fail"}, ResolveForward(ids, r)
    PROVE  /\ resolutions' \in [Upstreams -> {"none", "resolve", "fail"}]
           /\ DOMAIN links' \subseteq Nat /\ links' \in [DOMAIN links' -> Upstreams]
BY Zenon DEF TypeOK, ResolveForward

LEMMA SettleType ==
    ASSUME TypeOK, NEW how, NEW done \in SUBSET Payments, NEW stuck \in SUBSET Payments,
           Settle(how, done, stuck)
    PROVE  /\ paylinks' \subseteq Payments
           /\ payment' \in [Payments -> {"none", "pending", "succeeded", "failed"}]
           /\ preimages' \subseteq Upstreams \cup Payments
BY Zenon DEF TypeOK, Settle

LEMMA RecoverType ==
    ASSUME TypeOK, NEW query \in BOOLEAN, NEW sigs \in SUBSET FiniteUpdates,
           Recover(query, sigs)
    PROVE  /\ uncommitted' \in FiniteUpdates /\ signed' \subseteq FiniteUpdates
           /\ errors' \subseteq LocalErrors \cup {"remote"}
           /\ resolutions' \in [Upstreams -> {"none", "resolve", "fail"}]
           /\ DOMAIN links' \subseteq Nat /\ links' \in [DOMAIN links' -> Upstreams]
           /\ paylinks' \subseteq Payments
           /\ payment' \in [Payments -> {"none", "pending", "succeeded", "failed"}]
           /\ preimages' \subseteq Upstreams \cup Payments
           /\ UNCHANGED <<lcss, proposed, claimed, refunded>>
<1> DEFINE todo == {p \in lcss.incoming_htlcs : ~LocalResolved(uncommitted, p)}
<1>1. PICK how \in [todo -> Answering \cup {"sent", "waiting"}] :
          \E done, stuck \in SUBSET DOMAIN how :
             /\ LoopEnds(how, done, stuck)
             /\ Settle(how, done, stuck)
             /\ signed' = sigs \cup Released(uncommitted, Answers(done, how))
             /\ IF query /\ stuck = {}
                THEN RecoverOutgoing(Answers(done, how))
                ELSE /\ uncommitted' = uncommitted \cup Answers(done \cup stuck, how)
                     /\ UNCHANGED <<errors, linkVars>>
             /\ UNCHANGED <<lcss, balance, proposed, claimed, refunded>>
  BY Zenon DEF Recover
<1>2. PICK done, stuck \in SUBSET todo :
             /\ Settle(how, done, stuck)
             /\ signed' = sigs \cup Released(uncommitted, Answers(done, how))
             /\ IF query /\ stuck = {}
                THEN RecoverOutgoing(Answers(done, how))
                ELSE /\ uncommitted' = uncommitted \cup Answers(done \cup stuck, how)
                     /\ UNCHANGED <<errors, linkVars>>
             /\ UNCHANGED <<lcss, balance, proposed, claimed, refunded>>
  BY Zenon, <1>1
<1>3. /\ todo \subseteq Payments /\ IsFiniteSet(todo)
      /\ uncommitted \in FiniteUpdates
  BY FS_Subset DEF TypeOK, FiniteUpdates
<1>4. IsFiniteSet(done) /\ IsFiniteSet(done \cup stuck) /\ done \cup stuck \subseteq Payments
  BY Zenon, <1>3, FS_Subset
<1>5. Answers(done, how) \in FiniteUpdates /\ Answers(done \cup stuck, how) \in FiniteUpdates
  BY Zenon, <1>3, <1>4, AnswersType
<1>6. signed' \subseteq FiniteUpdates
  BY Zenon, <1>2, <1>3, <1>5, ReleasedType
<1>7. \A A \in FiniteUpdates : uncommitted \cup A \in FiniteUpdates
  BY Zenon, <1>3, FS_Union DEF FiniteUpdates
<1>8. /\ uncommitted' \in FiniteUpdates
      /\ errors' \subseteq LocalErrors \cup {"remote"}
      /\ resolutions' \in [Upstreams -> {"none", "resolve", "fail"}]
      /\ DOMAIN links' \subseteq Nat /\ links' \in [DOMAIN links' -> Upstreams]
  <2>1. CASE query /\ stuck = {}
    <3>1. RecoverOutgoing(Answers(done, how))
      BY Zenon, <1>2, <2>1
    <3>2. \E ids : ResolveForward(ids, "resolve")
      BY Zenon, <3>1 DEF RecoverOutgoing
    <3>3. uncommitted' \in FiniteUpdates /\ errors' \subseteq LocalErrors \cup {"remote"}
      BY Zenon, <3>1, <1>3, <1>5, <1>7 DEF RecoverOutgoing, TypeOK, LocalErrors
    <3> QED
      BY Zenon, <3>2, <3>3, ResolveForwardType
  <2>2. CASE ~(query /\ stuck = {})
    BY Zenon, <2>2, <1>2, <1>5, <1>7 DEF TypeOK, linkVars
  <2> QED
    BY Zenon, <2>1, <2>2
<1> QED
  BY Zenon, <1>2, <1>3, <1>4, <1>6, <1>8, SettleType

\* Committing finitely many updates keeps the committed state well-typed.
LEMMA FoldType ==
    ASSUME TypeOK, NEW U \in FiniteUpdates, Fold(U)
    PROVE  /\ lcss' \in FiniteLcss
           /\ claimed' \subseteq Upstreams /\ refunded' \subseteq Payments
<1>1. lcss \in FiniteLcss
  BY Zenon DEF TypeOK, LcssType, FiniteLcss
<1>2. /\ {h.pay : h \in HtlcsOf(U, "remote", "fulfill")} \subseteq Upstreams
      /\ HtlcsOf(U, "local", "fail") \subseteq Payments
  BY Zenon DEF HtlcsOf, FiniteUpdates, Update, Outgoing
<1> QED
  BY Zenon, <1>1, <1>2, NextLcssType DEF Fold, TypeOK

LEMMA NextStateType ==
    ASSUME TypeOK
    PROVE  NextState \in FiniteLcss
BY Zenon, NextLcssType DEF TypeOK, LcssType, FiniteLcss, FiniteUpdates, NextState

LEMMA HookType ==
    ASSUME TypeOK, Hook
    PROVE  TypeOK'
<1> USE DEF chanVars, linkVars, payVars, envVars
<1>1. PICK u \in Upstreams : HookFails(u) \/ HookAnswered(u) \/ HookForwards(u) \/ HookTakes(u)
  BY Zenon DEF Hook
<1>2. CASE HookFails(u)
  BY Zenon, <1>2 DEF HookFails, TypeOK
<1>3. CASE HookAnswered(u)
  BY Zenon, <1>3 DEF HookAnswered, TypeOK
<1>4. CASE HookForwards(u)
  <2> DEFINE h == [id |-> NextState.local_updates + 1, pay |-> u]
             U == uncommitted \cup {LocalAdd(h)}
  <2>1. h \in Outgoing
    BY NextStateType DEF LcssType, FiniteLcss, Outgoing
  <2>2. U \in FiniteUpdates
    BY Zenon, <2>1, AddUpdate, UpdateShapes DEF TypeOK, FiniteUpdates
  <2>3. uncommitted' \subseteq Update /\ IsFiniteSet(uncommitted')
    BY Zenon, <2>2, <1>4 DEF HookForwards, FiniteUpdates
  <2>4. signed' \subseteq FiniteUpdates
    <3>1. signed' = signed \/ signed' = signed \cup {U}
      BY Zenon, <1>4 DEF HookForwards
    <3> QED
      BY Zenon, <2>2, <3>1 DEF TypeOK, FiniteUpdates
  <2>5. DOMAIN links' \subseteq Nat /\ links' \in [DOMAIN links' -> Upstreams]
    <3>1. links' = [i \in DOMAIN links \cup {h.id} |-> IF i \in DOMAIN links THEN links[i] ELSE u]
      BY Zenon, <1>4 DEF HookForwards
    <3> QED
      BY Zenon, <2>1, <3>1 DEF Outgoing, TypeOK
  <2>6. errors' \subseteq LocalErrors \cup {"remote"}
    BY Zenon, <1>4 DEF HookForwards, TypeOK, LocalErrors
  <2>7. upstream' \in [Upstreams -> {"new", "held", "replay", "fulfilled", "failed", "direct"}]
    BY Zenon, <1>4 DEF HookForwards, TypeOK
  <2>8. UNCHANGED <<lcss, balance, proposed, claimed, refunded, resolutions,
                    payVars, envVars, preimages>>
    BY Zenon, <1>4 DEF HookForwards
  <2> QED
    BY Zenon, <2>3, <2>4, <2>5, <2>6, <2>7, <2>8 DEF TypeOK, FiniteUpdates
<1>5. CASE HookTakes(u)
  BY Zenon, <1>5 DEF HookTakes, TypeOK
<1> QED
  BY Zenon, <1>1, <1>2, <1>3, <1>4, <1>5

LEMMA OperatorType ==
    ASSUME TypeOK, Operator
    PROVE  TypeOK'
<1> USE DEF chanVars, linkVars, payVars, envVars
<1>1. CASE ProposeOverride
  <2>1. proposed' \in [local_updates : Nat, remote_updates : Nat, local_balance : 0..Capacity]
    BY <1>1 DEF ProposeOverride, TypeOK
  <2> QED
    BY Zenon, <1>1, <2>1 DEF ProposeOverride, TypeOK, LocalErrors
<1>2. CASE \E u \in Direct : SendDirectPayment(u)
  <2>1. PICK u \in Direct : SendDirectPayment(u)
    BY Zenon, <1>2
  <2> DEFINE h == [id |-> NextState.local_updates + 1, pay |-> u]
  <2>2. u \in Upstreams /\ h \in Outgoing
    BY ChannelAssumption, NextStateType DEF LcssType, FiniteLcss, Outgoing
  <2>3. uncommitted \cup {LocalAdd(h)} \in FiniteUpdates
    BY Zenon, <2>2, AddUpdate, UpdateShapes DEF TypeOK, FiniteUpdates
  <2>4. uncommitted' \in FiniteUpdates /\ signed' \subseteq FiniteUpdates
    BY Zenon, <2>1, <2>3 DEF SendDirectPayment, TypeOK, FiniteUpdates
  <2> QED
    BY Zenon, <2>1, <2>2, <2>4 DEF SendDirectPayment, TypeOK, FiniteUpdates
<1> QED
  BY Zenon, <1>1, <1>2 DEF Operator

LEMMA WatchdogType ==
    ASSUME TypeOK, Watchdog
    PROVE  TypeOK'
<1> USE DEF chanVars, linkVars, payVars, envVars
<1>1. \E ids : ResolveForward(ids, "fail")
  BY Zenon DEF Watchdog, CommitTimeout, HtlcExpired, ErrorAndFail
<1>2. errors' \subseteq LocalErrors \cup {"remote"}
  BY Zenon DEF Watchdog, CommitTimeout, HtlcExpired, ErrorAndFail, TypeOK, LocalErrors
<1>3. UNCHANGED <<lcss, balance, uncommitted, proposed, signed, claimed, refunded,
                  payVars, envVars, preimages, upstream>>
  BY Zenon DEF Watchdog, CommitTimeout, HtlcExpired, ErrorAndFail
<1> QED
  BY Zenon, <1>1, <1>2, <1>3, ResolveForwardType DEF TypeOK

LEMMA StateUpdateType ==
    ASSUME TypeOK, StateUpdate
    PROVE  TypeOK'
<1> USE DEF chanVars, linkVars, payVars, envVars
<1>1. /\ lcss' \in FiniteLcss
      /\ claimed' \subseteq Upstreams /\ refunded' \subseteq Payments
  BY Zenon, FoldType DEF StateUpdate, TypeOK, FiniteUpdates
<1>2. UNCHANGED <<errors, proposed, envVars, upstream>>
  BY Zenon DEF StateUpdate
<1>3. CASE uncommitted' = {} /\ signed' = {} /\ UNCHANGED <<linkVars, payVars, preimages>>
  BY Zenon, <1>1, <1>2, <1>3, FS_EmptySet DEF TypeOK, LcssType, FiniteLcss
<1>4. ASSUME NEW how \in [NextState.incoming_htlcs \ lcss.incoming_htlcs ->
                             {"sent", "unsent", "refused"}],
             NEW done \in SUBSET DOMAIN how, NEW stuck \in SUBSET DOMAIN how,
             Settle(how, done, stuck),
             uncommitted' = Answers(done \cup stuck, how),
             signed' = Released({}, Answers(done, how)),
             IF stuck = {}
             THEN ResolveForward({h.id : h \in HtlcsOf(uncommitted, "remote", "fail")}, "fail")
             ELSE UNCHANGED linkVars
      PROVE  TypeOK'
  <2>1. DOMAIN how \subseteq Payments /\ IsFiniteSet(DOMAIN how)
    BY Zenon, NextStateType, FS_Subset DEF LcssType, FiniteLcss
  <2>2. /\ done \subseteq Payments /\ IsFiniteSet(done)
        /\ done \cup stuck \subseteq Payments /\ IsFiniteSet(done \cup stuck)
    BY Zenon, <2>1, FS_Subset
  <2>3. Answers(done, how) \in FiniteUpdates /\ uncommitted' \in FiniteUpdates
    BY Zenon, <1>4, <2>2, AnswersType
  <2>4. signed' \subseteq FiniteUpdates
    <3>1. {} \in FiniteUpdates
      BY Zenon, FS_EmptySet DEF FiniteUpdates
    <3> QED
      BY Zenon, <1>4, <2>3, <3>1, ReleasedType
  <2>5. /\ resolutions' \in [Upstreams -> {"none", "resolve", "fail"}]
        /\ DOMAIN links' \subseteq Nat /\ links' \in [DOMAIN links' -> Upstreams]
    <3>1. CASE stuck = {}
      BY Zenon, <1>4, <3>1, ResolveForwardType
    <3>2. CASE stuck # {}
      BY Zenon, <1>4, <3>2 DEF TypeOK
    <3> QED
      BY Zenon, <3>1, <3>2
  <2>6. /\ paylinks' \subseteq Payments
        /\ payment' \in [Payments -> {"none", "pending", "succeeded", "failed"}]
        /\ preimages' \subseteq Upstreams \cup Payments
    BY Zenon, <1>4, <2>2, SettleType
  <2> QED
    BY Zenon, <1>1, <1>2, <2>3, <2>4, <2>5, <2>6 DEF TypeOK, LcssType, FiniteLcss, FiniteUpdates
<1> QED
  BY Zenon, <1>3, <1>4 DEF StateUpdate

LEMMA AdoptLcssType ==
    ASSUME TypeOK, AdoptLcss
    PROVE  TypeOK'
<1> USE DEF chanVars, linkVars, payVars, envVars
<1>1. /\ lcss' \in FiniteLcss
      /\ claimed' \subseteq Upstreams /\ refunded' \subseteq Payments
  <2>1. CASE \E U \in signed : Fold(U)
    BY Zenon, <2>1, FoldType DEF TypeOK, FiniteUpdates
  <2>2. CASE ~ \E U \in signed : Fold(U)
    <3>1. /\ lcss' = [local_updates |-> proposed.local_updates,
                      remote_updates |-> proposed.remote_updates,
                      incoming_htlcs |-> {}, outgoing_htlcs |-> {}]
          /\ UNCHANGED <<claimed, refunded>>
      BY Zenon, <2>2 DEF AdoptLcss
    <3>2. proposed.local_updates \in Nat /\ proposed.remote_updates \in Nat
      BY Zenon DEF TypeOK
    <3>3. lcss' \in LcssType /\ lcss'.incoming_htlcs = {} /\ lcss'.outgoing_htlcs = {}
      BY Zenon, <3>1, <3>2 DEF LcssType
    <3> QED
      BY Zenon, <3>1, <3>3, FS_EmptySet DEF TypeOK, FiniteLcss
  <2> QED
    BY Zenon, <2>1, <2>2
<1>2. /\ uncommitted' = {} /\ signed' = {}
      /\ UNCHANGED <<errors, proposed, linkVars, payVars, envVars, preimages, upstream>>
  BY Zenon DEF AdoptLcss
<1> QED
  BY Zenon, <1>1, <1>2, FS_EmptySet DEF TypeOK, LcssType, FiniteLcss

\* A step of recovery that leaves the rest of the state alone.
LEMMA RecoverStepType ==
    ASSUME TypeOK, NEW query \in BOOLEAN, NEW sigs \in SUBSET FiniteUpdates,
           Recover(query, sigs),
           disconnected' \in BOOLEAN, recovering' \in BOOLEAN,
           UNCHANGED <<offered, expired, restarts, upstream>>
    PROVE  TypeOK'
BY Zenon, RecoverType DEF TypeOK, FiniteUpdates

LEMMA PeerType ==
    ASSUME TypeOK, Peer
    PROVE  TypeOK'
<1> USE DEF chanVars, linkVars, payVars, envVars
<1>0. uncommitted \in FiniteUpdates /\ signed \in SUBSET FiniteUpdates
  BY Zenon DEF TypeOK, FiniteUpdates
<1>1. ASSUME NEW p \in Payments, UpdateAdd(p)
      PROVE  TypeOK'
  <2>1. uncommitted \cup {RemoteAdd(p)} \in FiniteUpdates
    BY Zenon, <1>0, AddUpdate, UpdateShapes
  <2> QED
    BY Zenon, <1>1, <2>1 DEF UpdateAdd, TypeOK, FiniteUpdates, LocalErrors
<1>2. ASSUME NEW h \in lcss.outgoing_htlcs,
             UpdateFulfill(h) \/ UpdateFail(h) \/ UpdateFailMalformed(h)
      PROVE  TypeOK'
  <2>1. h \in Outgoing /\ h.pay \in Upstreams
    BY Zenon DEF TypeOK, Outgoing
  <2>2. /\ uncommitted \cup {RemoteFulfill(h)} \in FiniteUpdates
        /\ uncommitted \cup {RemoteFail(h)} \in FiniteUpdates
    BY Zenon, <1>0, <2>1, AddUpdate, UpdateShapes
  <2>3. CASE UpdateFulfill(h)
    <3>1. CASE SettlementIsSafe(h)
      <4>1. /\ resolutions' \in [Upstreams -> {"none", "resolve", "fail"}]
            /\ DOMAIN links' \subseteq Nat /\ links' \in [DOMAIN links' -> Upstreams]
        BY Zenon, <2>3, <3>1, ResolveForwardType DEF UpdateFulfill
      <4> QED
        BY Zenon, <2>1, <2>2, <2>3, <3>1, <4>1 DEF UpdateFulfill, TypeOK, FiniteUpdates
    <3>2. CASE ~SettlementIsSafe(h)
      BY Zenon, <2>3, <3>2 DEF UpdateFulfill, TypeOK, LocalErrors
    <3> QED
      BY Zenon, <3>1, <3>2
  <2>4. CASE UpdateFail(h)
    BY Zenon, <2>2, <2>4 DEF UpdateFail, TypeOK, FiniteUpdates, LocalErrors
  <2>5. CASE UpdateFailMalformed(h)
    BY Zenon, <2>2, <2>5 DEF UpdateFailMalformed, TypeOK, FiniteUpdates
  <2> QED
    BY Zenon, <1>2, <2>3, <2>4, <2>5
<1>3. CASE BadLcss \/ PeerError
  BY Zenon, <1>3 DEF BadLcss, PeerError, TypeOK, LocalErrors
<1>4. CASE AcceptOverride
  BY <1>4, ChannelAssumption, FS_EmptySet DEF AcceptOverride, TypeOK, NoOverride
<1>5. CASE Connect
  <2>1. CASE Status = "Active"
    BY Zenon, <1>0, <1>5, <2>1, RecoverStepType DEF Connect, TypeOK
  <2>2. CASE Status # "Active"
    BY Zenon, <1>5, <2>2 DEF Connect, TypeOK
  <2> QED
    BY Zenon, <2>1, <2>2
<1>6. CASE Disconnect
  BY Zenon, <1>6 DEF Disconnect, TypeOK
<1>7. CASE Invoke
  <2> DEFINE sigs == IF uncommitted = {} THEN signed ELSE signed \cup {uncommitted}
  <2>1. sigs \in SUBSET FiniteUpdates
    BY Zenon, <1>0
  <2>2. CASE Recover(TRUE, sigs)
    <3>1. UNCHANGED <<envVars, upstream>>
      BY Zenon, <1>7 DEF Invoke
    <3> QED
      BY Zenon, <2>1, <2>2, <3>1, RecoverStepType DEF TypeOK
  <2>3. CASE ~Recover(TRUE, sigs)
    <3>1. /\ signed' = sigs
          /\ UNCHANGED <<lcss, balance, uncommitted, errors, proposed, claimed,
                         refunded, linkVars, payVars, preimages, envVars, upstream>>
      BY Zenon, <1>7, <2>3 DEF Invoke
    <3> QED
      BY Zenon, <2>1, <3>1 DEF TypeOK, FiniteUpdates
  <2> QED
    BY Zenon, <2>2, <2>3
<1>8. ASSUME NEW u \in Upstreams, ReplyPreimages(u)
      PROVE  TypeOK'
  BY Zenon, <1>8 DEF ReplyPreimages, TypeOK
<1> QED
  BY Zenon, <1>1, <1>2, <1>3, <1>4, <1>5, <1>6, <1>7, <1>8, StateUpdateType, AdoptLcssType DEF Peer

LEMMA LightningdType ==
    ASSUME TypeOK, Lightningd
    PROVE  TypeOK'
<1> USE DEF chanVars, linkVars, payVars, envVars
<1>1. ASSUME NEW p \in Payments, PaymentSettles(p)
      PROVE  TypeOK'
  BY <1>1 DEF PaymentSettles, TypeOK
<1>2. ASSUME NEW p \in Payments, PaymentResult(p)
      PROVE  TypeOK'
  <2> DEFINE how == [x \in {p} |-> IF payment[p] = "succeeded" THEN "paid" ELSE "lost"]
  <2>1. UNCHANGED <<lcss, balance, errors, proposed, claimed, refunded, linkVars,
                    envVars, upstream>>
    BY Zenon, <1>2 DEF PaymentResult
  <2>2. uncommitted \cup Answers({p}, how) \in FiniteUpdates
    <3>1. Answers({p}, how) \in FiniteUpdates
      <4>1. {p} \in SUBSET Payments /\ IsFiniteSet({p})
        BY Zenon, FS_Singleton
      <4> HIDE DEF how
      <4> QED
        BY Zenon, <4>1, AnswersType
    <3> QED
      BY Zenon, <3>1, FS_Union DEF TypeOK, FiniteUpdates
  <2>3. uncommitted' \in FiniteUpdates /\ signed' \subseteq FiniteUpdates
    <3>1. \/ uncommitted' = uncommitted
          \/ uncommitted' = uncommitted \cup Answers({p}, how)
      BY Zenon, <1>2 DEF PaymentResult
    <3>2. signed' = signed \/ signed' = signed \cup {uncommitted'}
      BY Zenon, <1>2 DEF PaymentResult
    <3> QED
      BY Zenon, <2>2, <3>1, <3>2 DEF TypeOK, FiniteUpdates
  <2>4. /\ paylinks' \subseteq Payments
        /\ payment' \in [Payments -> {"none", "pending", "succeeded", "failed"}]
        /\ preimages' \subseteq Upstreams \cup Payments
    <3>1. \/ \E done, stuck \in SUBSET {p} : Settle(how, done, stuck)
          \/ preimages' = preimages \cup {p} /\ UNCHANGED payVars
      BY Zenon, <1>2 DEF PaymentResult
    <3> HIDE DEF how
    <3>2. CASE \E done, stuck \in SUBSET {p} : Settle(how, done, stuck)
      <4>1. PICK done, stuck \in SUBSET {p} : Settle(how, done, stuck)
        BY Zenon, <3>2
      <4>2. done \in SUBSET Payments /\ stuck \in SUBSET Payments
        BY Zenon, <4>1
      <4> QED
        BY Zenon, <4>1, <4>2, SettleType
    <3>3. CASE preimages' = preimages \cup {p} /\ UNCHANGED payVars
      BY Zenon, <3>3 DEF TypeOK
    <3> QED
      BY Zenon, <3>1, <3>2, <3>3
  <2> QED
    BY Zenon, <2>1, <2>3, <2>4 DEF TypeOK, FiniteUpdates
<1>3. ASSUME NEW u \in Upstreams, BlocksReach(u)
      PROVE  TypeOK'
  BY Zenon, <1>3 DEF BlocksReach, TypeOK
<1> QED
  BY Zenon, <1>1, <1>2, <1>3 DEF Lightningd

LEMMA TypeInit ==
    Init => TypeOK
<1> SUFFICES ASSUME Init PROVE TypeOK
  OBVIOUS
<1>1. /\ lcss \in LcssType /\ lcss.incoming_htlcs = {} /\ lcss.outgoing_htlcs = {}
      /\ proposed \in [local_updates : Nat, remote_updates : Nat, local_balance : 0..Capacity]
  BY ChannelAssumption DEF Init, LcssType, FiniteLcss, NoOverride
<1>2. /\ resolutions \in [Upstreams -> {"none", "resolve", "fail"}]
      /\ upstream \in [Upstreams -> {"new", "held", "replay", "fulfilled", "failed", "direct"}]
      /\ payment \in [Payments -> {"none", "pending", "succeeded", "failed"}]
  BY Zenon DEF Init
<1>3. DOMAIN links \subseteq Nat /\ links \in [DOMAIN links -> Upstreams]
  BY Zenon DEF Init
<1>4. /\ uncommitted = {} /\ errors = {} /\ signed = {} /\ paylinks = {} /\ preimages = {}
      /\ offered = {} /\ expired = {} /\ claimed = {} /\ refunded = {}
      /\ disconnected \in BOOLEAN /\ recovering \in BOOLEAN /\ restarts \in Nat
  BY Zenon DEF Init
<1> QED
  BY Zenon, <1>1, <1>2, <1>3, <1>4, FS_EmptySet DEF TypeOK, LcssType, FiniteLcss

LEMMA TypeNext ==
    ASSUME TypeOK, [Next]_vars
    PROVE  TypeOK'
<1> USE DEF chanVars, linkVars, payVars, envVars
<1>1. CASE UNCHANGED vars
  BY Zenon, <1>1 DEF TypeOK, vars
<1>2. CASE Restart
  <2>1. /\ resolutions' \in [Upstreams -> {"none", "resolve", "fail"}]
        /\ upstream' \in [Upstreams -> {"new", "held", "replay", "fulfilled", "failed", "direct"}]
        /\ disconnected' \in BOOLEAN /\ recovering' \in BOOLEAN /\ restarts' \in Nat
    <3>1. resolutions' \in [Upstreams -> {"none", "resolve", "fail"}] /\ restarts' \in Nat
      BY <1>2 DEF Restart, TypeOK
    <3>2. upstream' \in [Upstreams -> {"new", "held", "replay", "fulfilled", "failed", "direct"}]
      <4>1. upstream' = [u \in Upstreams |->
                            IF upstream[u] = "held" THEN "replay" ELSE upstream[u]]
        BY Zenon, <1>2 DEF Restart
      <4> QED
        BY Zenon, <4>1 DEF TypeOK
    <3> QED
      BY Zenon, <1>2, <3>1, <3>2 DEF Restart
  <2>2. UNCHANGED <<chanVars, links, payVars, offered, expired, preimages>>
    BY Zenon, <1>2 DEF Restart
  <2> QED
    BY Zenon, <2>1, <2>2 DEF TypeOK
<1>3. CASE StartupRecovery
  <2>1. signed \in SUBSET FiniteUpdates
    BY Zenon DEF TypeOK, FiniteUpdates
  <2>2. CASE Status = "Active"
    BY Zenon, <1>3, <2>1, <2>2, RecoverStepType DEF StartupRecovery, TypeOK
  <2>3. CASE Status # "Active"
    BY Zenon, <1>3, <2>3 DEF StartupRecovery, TypeOK
  <2> QED
    BY Zenon, <2>2, <2>3
<1> QED
  BY Zenon, <1>1, <1>2, <1>3, HookType, PeerType, WatchdogType, LightningdType, OperatorType
     DEF Next, Run

\* Every reachable state is well-typed: the counters never leave the naturals,
\* a record holds HTLCs and updates of the right shape only, and finitely many.
THEOREM TypeCorrect == Spec => []TypeOK
<1>1. TypeOK /\ [Next]_vars => TypeOK'
  BY Zenon, TypeNext
<1> QED
  BY TypeInit, <1>1, PTL DEF Spec

-----------------------------------------------------------------------------
(* What a step may do to the channel record.  Whatever else it changes,    *)
(* each step adds updates to it that offer no HTLC, offers one HTLC,       *)
(* commits a set of updates the host has on record or has signed, or       *)
(* starts over with an override.                                           *)

LocalResolution(x) == x.side = "local" /\ x.kind # "add"

Grows ==
    /\ lcss' = lcss
    /\ uncommitted \subseteq uncommitted'
    /\ \A x \in uncommitted' \ uncommitted : x.side = "remote" \/ LocalResolution(x)
    /\ \A U \in signed' :
          \/ U \in signed
          \/ uncommitted \subseteq U /\ \A x \in U : x \in uncommitted' \/ LocalResolution(x)

Offers ==
    \E u \in Upstreams :
       LET h == [id |-> NextState.local_updates + 1, pay |-> u] IN
       /\ lcss' = lcss
       /\ uncommitted' = uncommitted \cup {LocalAdd(h)}
       /\ signed' \subseteq signed \cup {uncommitted'}

Commits ==
    /\ \E U \in signed \cup {uncommitted} : lcss' = NextLcss(lcss, U)
    /\ \A x \in uncommitted' : LocalResolution(x)
    /\ \A V \in signed' : \A x \in V : LocalResolution(x)

Resets ==
    /\ lcss'.incoming_htlcs = {} /\ lcss'.outgoing_htlcs = {}
    /\ uncommitted' = {} /\ signed' = {}

LEMMA AnswersResolve ==
    ASSUME NEW S, NEW how
    PROVE  \A x \in Answers(S, how) : LocalResolution(x)
BY DEF Answers, LocalFulfill, LocalFail, LocalResolution

LEMMA RecoverGrows ==
    ASSUME NEW query, NEW sigs, Recover(query, sigs),
           \A U \in sigs : U \in signed \/ U = uncommitted
    PROVE  Grows
<1>1. PICK S, T, how :
         /\ signed' = sigs \cup Released(uncommitted, Answers(S, how))
         /\ \/ uncommitted' = uncommitted \cup Answers(T, how)
            \/ uncommitted' = uncommitted
         /\ lcss' = lcss
  <2>1. PICK how : \E done, stuck \in SUBSET DOMAIN how :
             /\ signed' = sigs \cup Released(uncommitted, Answers(done, how))
             /\ IF query /\ stuck = {}
                THEN RecoverOutgoing(Answers(done, how))
                ELSE uncommitted' = uncommitted \cup Answers(done \cup stuck, how)
             /\ lcss' = lcss
    BY Zenon DEF Recover
  <2>2. PICK done, stuck \in SUBSET DOMAIN how :
             /\ signed' = sigs \cup Released(uncommitted, Answers(done, how))
             /\ IF query /\ stuck = {}
                THEN RecoverOutgoing(Answers(done, how))
                ELSE uncommitted' = uncommitted \cup Answers(done \cup stuck, how)
             /\ lcss' = lcss
    BY Zenon, <2>1
  <2>3. \/ uncommitted' = uncommitted \cup Answers(done, how)
        \/ uncommitted' = uncommitted \cup Answers(done \cup stuck, how)
        \/ uncommitted' = uncommitted
    BY Zenon, <2>2 DEF RecoverOutgoing
  <2> QED
    BY Zenon, <2>2, <2>3
<1>2. \A x \in uncommitted' \ uncommitted : LocalResolution(x)
  BY Zenon, <1>1, AnswersResolve
<1>3. ASSUME NEW U \in Released(uncommitted, Answers(S, how))
      PROVE  uncommitted \subseteq U /\ \A x \in U : x \in uncommitted' \/ LocalResolution(x)
  BY Zenon, <1>1, AnswersResolve DEF Released
<1> QED
  BY Zenon, <1>1, <1>2, <1>3 DEF Grows

LEMMA RecordStep ==
    ASSUME TypeOK, [Next]_vars
    PROVE  Grows \/ Offers \/ Commits \/ Resets
<1> USE DEF chanVars, linkVars, payVars, envVars
<1>1. CASE UNCHANGED <<lcss, uncommitted, signed>>
  BY Zenon, <1>1 DEF Grows
<1>2. ASSUME NEW u \in Upstreams, HookForwards(u)
      PROVE  Offers
  BY Zenon, <1>2 DEF HookForwards, Offers
<1>3. CASE Hook
  BY Zenon, <1>1, <1>2, <1>3 DEF Hook, HookFails, HookAnswered, HookTakes
<1>4. CASE Operator
  <2>1. ASSUME NEW u \in Direct, SendDirectPayment(u)
        PROVE  Offers
    BY Zenon, <2>1, ChannelAssumption DEF SendDirectPayment, Offers
  <2> QED
    BY Zenon, <1>1, <1>4, <2>1 DEF Operator, ProposeOverride
<1>5. CASE Watchdog
  BY Zenon, <1>1, <1>5 DEF Watchdog, CommitTimeout, HtlcExpired, ErrorAndFail
<1>6. CASE Lightningd
  <2>1. ASSUME NEW p \in Payments, PaymentResult(p)
        PROVE  Grows
    <3> DEFINE how == [x \in {p} |-> IF payment[p] = "succeeded" THEN "paid" ELSE "lost"]
    <3>1. /\ \/ uncommitted' = uncommitted
             \/ uncommitted' = uncommitted \cup Answers({p}, how)
          /\ signed' = signed \/ signed' = signed \cup {uncommitted'}
          /\ lcss' = lcss
      BY Zenon, <2>1 DEF PaymentResult
    <3> HIDE DEF how
    <3> QED
      BY Zenon, <3>1, AnswersResolve DEF Grows
  <2> QED
    BY Zenon, <1>1, <1>6, <2>1 DEF Lightningd, PaymentSettles, BlocksReach
<1>7. CASE Restart
  BY Zenon, <1>1, <1>7 DEF Restart
<1>8. CASE StartupRecovery
  BY Zenon, <1>1, <1>8, RecoverGrows DEF StartupRecovery
<1>9. CASE Peer
  <2>1. ASSUME NEW p \in Payments, UpdateAdd(p)
        PROVE  Grows
    <3>1. /\ lcss' = lcss /\ signed' = signed
          /\ \/ uncommitted' = uncommitted
             \/ uncommitted' = uncommitted \cup {RemoteAdd(p)}
      BY Zenon, <2>1 DEF UpdateAdd
    <3>2. RemoteAdd(p).side = "remote"
      BY Zenon DEF RemoteAdd
    <3> QED
      BY Zenon, <3>1, <3>2 DEF Grows
  <2>2. ASSUME NEW h \in lcss.outgoing_htlcs,
               UpdateFulfill(h) \/ UpdateFail(h) \/ UpdateFailMalformed(h)
        PROVE  Grows
    <3>1. /\ lcss' = lcss /\ signed' = signed
          /\ \/ uncommitted' = uncommitted
             \/ uncommitted' = uncommitted \cup {RemoteFulfill(h)}
             \/ uncommitted' = uncommitted \cup {RemoteFail(h)}
      BY Zenon, <2>2 DEF UpdateFulfill, UpdateFail, UpdateFailMalformed
    <3> QED
      BY <3>1 DEF RemoteFulfill, RemoteFail, Grows
  <2>3. CASE StateUpdate
    <3>1. /\ lcss' = NextLcss(lcss, uncommitted)
          /\ \/ uncommitted' = {} /\ signed' = {}
             \/ \E S, T, how : /\ uncommitted' = Answers(S, how)
                               /\ signed' = Released({}, Answers(T, how))
      BY Zenon, <2>3 DEF StateUpdate, Fold
    <3>2. CASE uncommitted' = {} /\ signed' = {}
      BY Zenon, <3>1, <3>2 DEF Commits
    <3>3. ASSUME NEW S, NEW T, NEW how, uncommitted' = Answers(S, how),
                 signed' = Released({}, Answers(T, how))
          PROVE  Commits
      BY Zenon, <3>1, <3>3, AnswersResolve DEF Released, Commits
    <3> QED
      BY Zenon, <3>1, <3>2, <3>3
  <2>4. CASE AdoptLcss
    <3>1. uncommitted' = {} /\ signed' = {}
      BY Zenon, <2>4 DEF AdoptLcss
    <3>2. \/ \E U \in signed : lcss' = NextLcss(lcss, U)
          \/ lcss'.incoming_htlcs = {} /\ lcss'.outgoing_htlcs = {}
      BY <2>4 DEF AdoptLcss, Fold
    <3> QED
      BY Zenon, <3>1, <3>2 DEF Commits, Resets
  <2>5. CASE AcceptOverride
    BY Zenon, <2>5 DEF AcceptOverride, Resets
  <2>6. CASE Connect
    BY Zenon, <1>1, <2>6, RecoverGrows DEF Connect
  <2>7. CASE Invoke
    <3> DEFINE sigs == IF uncommitted = {} THEN signed ELSE signed \cup {uncommitted}
    <3>1. CASE Recover(TRUE, sigs)
      BY Zenon, <3>1, RecoverGrows
    <3>2. CASE signed' = sigs /\ UNCHANGED <<lcss, uncommitted>>
      BY Zenon, <3>2 DEF Grows
    <3> QED
      BY Zenon, <2>7, <3>1, <3>2 DEF Invoke
  <2> QED
    BY Zenon, <1>1, <1>9, <2>1, <2>2, <2>3, <2>4, <2>5, <2>6, <2>7
       DEF Peer, ReplyPreimages, BadLcss, PeerError, Disconnect
<1> QED
  BY Zenon, <1>1, <1>3, <1>4, <1>5, <1>6, <1>7, <1>8, <1>9 DEF Next, Run, vars

-----------------------------------------------------------------------------
(* HTLC ids                                                                *)

\* Why ids stay unique: an id in use never exceeds the counter the next id is
\* taken from, and a set the host has signed adds no HTLC that is not on record.
IdInv ==
    /\ \A h \in lcss.outgoing_htlcs : h.id <= lcss.local_updates
    /\ \A h \in LocalAdds(uncommitted) : h.id <= NextState.local_updates
    /\ \A U \in signed : \A h \in LocalAdds(U) : h.id <= NextLcss(lcss, U).local_updates
    /\ \A U \in signed : \A x \in U : x \in uncommitted \/ LocalResolution(x)
    /\ IdsIdentify

LEMMA AddsFromRecord ==
    ASSUME NEW U, NEW V, \A x \in U : x \in V \/ LocalResolution(x)
    PROVE  LocalAdds(U) \subseteq LocalAdds(V)
BY Zenon DEF LocalAdds, HtlcsOf, LocalResolution

LEMMA NoAdds ==
    ASSUME NEW U, \A x \in U : x.side = "remote" \/ LocalResolution(x)
    PROVE  LocalAdds(U) = {}
BY Zenon DEF LocalAdds, HtlcsOf, LocalResolution

LEMMA GrowsAdds ==
    ASSUME Grows
    PROVE  LocalAdds(uncommitted') = LocalAdds(uncommitted) /\ Live' = Live
<1>1. LocalAdds(uncommitted') = LocalAdds(uncommitted)
  BY Zenon DEF Grows, LocalAdds, HtlcsOf, LocalResolution
<1> QED
  BY Zenon, <1>1 DEF Grows, Live

LEMMA IdInit == Init => IdInv
BY DEF Init, IdInv, IdsIdentify, Live, LocalAdds, HtlcsOf

\* No HTLC the client could claim has an id above the counter.
LEMMA IdsBelowNext ==
    ASSUME TypeOK, IdInv
    PROVE  /\ NextState.local_updates \in Nat
           /\ \A g \in Live : g.id \in Nat /\ g.id <= NextState.local_updates
<1> DEFINE n == NextState.local_updates
<1>0. lcss \in LcssType /\ uncommitted \in FiniteUpdates
  BY Zenon DEF TypeOK, LcssType, FiniteUpdates
<1>1. n \in Nat
  BY Zenon, NextStateType DEF LcssType, FiniteLcss
<1>2. \A g \in LocalAdds(uncommitted) : g.id \in Nat /\ g.id <= n
  BY Zenon, <1>0, AddsType DEF IdInv, Outgoing
<1>3. lcss.local_updates <= n
  <2>1. Cardinality({x \in uncommitted : x.side = "local"}) \in Nat
    BY Zenon, <1>0, CountsType
  <2> QED
    BY <1>0, <2>1 DEF NextState, NextLcss, LcssType
<1>4. \A g \in lcss.outgoing_htlcs : g.id \in Nat /\ g.id <= lcss.local_updates
  BY Zenon, <1>0 DEF IdInv, LcssType, Outgoing
<1> HIDE DEF n
<1>5. \A g \in Live : g.id \in Nat /\ g.id <= n
  BY <1>0, <1>1, <1>2, <1>3, <1>4 DEF Live, LcssType
<1> QED
  BY Zenon, <1>1, <1>5 DEF n

LEMMA IdNext ==
    ASSUME TypeOK, TypeOK', IdInv, [Next]_vars
    PROVE  IdInv'
<1>0. /\ lcss \in LcssType /\ lcss \in FiniteLcss /\ uncommitted \in FiniteUpdates /\ signed \subseteq FiniteUpdates
      /\ lcss' \in LcssType /\ uncommitted' \in FiniteUpdates /\ signed' \subseteq FiniteUpdates
  BY Zenon DEF TypeOK, LcssType, FiniteLcss, FiniteUpdates
<1>1. \A U \in FiniteUpdates : /\ NextLcss(lcss, U).local_updates \in Nat
                               /\ LocalAdds(U) \subseteq Outgoing
  <2>1. ASSUME NEW U \in FiniteUpdates
        PROVE  NextLcss(lcss, U).local_updates \in Nat
    BY Zenon, <1>0, NextLcssType DEF TypeOK, LcssType, FiniteLcss
  <2>2. ASSUME NEW U \in FiniteUpdates
        PROVE  LocalAdds(U) \subseteq Outgoing
    BY Zenon DEF FiniteUpdates, Update, LocalAdds, HtlcsOf
  <2> QED
    BY Zenon, <2>1, <2>2
<1>2. CASE Grows
  <2>1. lcss' = lcss /\ LocalAdds(uncommitted') = LocalAdds(uncommitted) /\ Live' = Live
    BY Zenon, <1>2, GrowsAdds DEF Grows
  <2>2. ASSUME NEW V \in FiniteUpdates, uncommitted \subseteq V, NEW h \in LocalAdds(uncommitted)
        PROVE  h.id <= NextLcss(lcss, V).local_updates
    <3>1. NextState.local_updates <= NextLcss(lcss, V).local_updates
      BY Zenon, <1>0, <2>2, CounterGrows DEF NextState
    <3>2. h.id <= NextState.local_updates
      BY Zenon DEF IdInv
    <3>3. h.id \in Nat /\ NextState.local_updates \in Nat /\ NextLcss(lcss, V).local_updates \in Nat
      BY Zenon, <1>0, <1>1 DEF NextState, Outgoing
    <3> QED
      BY <3>1, <3>2, <3>3
  <2>3. \A h \in LocalAdds(uncommitted') : h.id <= NextState'.local_updates
    BY Zenon, <1>0, <1>2, <2>1, <2>2 DEF NextState, Grows
  <2>4. ASSUME NEW U \in signed', NEW h \in LocalAdds(U)
        PROVE  h.id <= NextLcss(lcss', U).local_updates
    <3>1. CASE U \in signed
      BY Zenon, <2>1, <3>1 DEF IdInv
    <3>2. CASE uncommitted \subseteq U /\ \A x \in U : x \in uncommitted' \/ LocalResolution(x)
      <4>1. h \in LocalAdds(uncommitted)
        BY Zenon, <3>2, <2>1, AddsFromRecord
      <4> QED
        BY Zenon, <1>0, <2>1, <2>2, <3>2, <4>1
    <3> QED
      BY Zenon, <1>2, <3>1, <3>2 DEF Grows
  <2>5. \A U \in signed' : \A x \in U : x \in uncommitted' \/ LocalResolution(x)
    BY Zenon, <1>2 DEF Grows, IdInv
  <2>6. (\A h \in lcss.outgoing_htlcs : h.id <= lcss.local_updates)'
    BY Zenon, <2>1 DEF IdInv
  <2>7. IdsIdentify'
    BY Zenon, <2>1 DEF IdInv, IdsIdentify
  <2> QED
    BY Zenon, <2>3, <2>4, <2>5, <2>6, <2>7 DEF IdInv
<1>3. CASE Offers
  <2>1. PICK u \in Upstreams :
          LET h == [id |-> NextState.local_updates + 1, pay |-> u] IN
          /\ lcss' = lcss
          /\ uncommitted' = uncommitted \cup {LocalAdd(h)}
          /\ signed' \subseteq signed \cup {uncommitted'}
    BY Zenon, <1>3 DEF Offers
  <2> DEFINE n == NextState.local_updates
             h == [id |-> n + 1, pay |-> u]
  <2>2. n \in Nat /\ h.id = n + 1
    BY Zenon, <1>0, <1>1 DEF NextState
  <2>3. /\ \A g \in Live : g.id \in Nat /\ g.id <= n
        /\ h \notin Live
    BY <2>2, IdsBelowNext
  <2>4. LocalAdd(h) \notin uncommitted
    BY <2>3 DEF Live, LocalAdds, HtlcsOf, LocalAdd
  <2>5. NextState'.local_updates = n + 1
    <3> HIDE DEF h
    <3>1. NextLcss(lcss, uncommitted \cup {LocalAdd(h)}).local_updates = n + 1
      BY Zenon, <1>0, <2>4, CounterOfOffer DEF NextState
    <3>2. lcss' = lcss /\ uncommitted' = uncommitted \cup {LocalAdd(h)}
      BY Zenon, <2>1 DEF h
    <3> QED
      BY Zenon, <3>1, <3>2 DEF NextState
  <2>6. /\ LocalAdds(uncommitted') = LocalAdds(uncommitted) \cup {h}
        /\ Live' = Live \cup {h} /\ lcss' = lcss
    <3> HIDE DEF h
    <3>1. LocalAdds(uncommitted \cup {LocalAdd(h)}) = LocalAdds(uncommitted) \cup {h}
      BY Zenon, AddsOfUnion
    <3>2. lcss' = lcss /\ uncommitted' = uncommitted \cup {LocalAdd(h)}
      BY Zenon, <2>1 DEF h
    <3> QED
      BY Zenon, <3>1, <3>2 DEF Live
  <2> HIDE DEF h, n
  <2>7. \A g \in LocalAdds(uncommitted') : g.id <= NextState'.local_updates
    BY <2>2, <2>3, <2>5, <2>6 DEF Live
  <2>8. \A U \in signed' : U \in signed \/ U = uncommitted'
    BY Zenon, <2>1
  <2>9. \A U \in signed' : \A g \in LocalAdds(U) : g.id <= NextLcss(lcss', U).local_updates
    BY Zenon, <2>6, <2>7, <2>8 DEF IdInv, NextState
  <2>10. \A U \in signed' : \A x \in U : x \in uncommitted' \/ LocalResolution(x)
    BY Zenon, <2>1, <2>8 DEF IdInv
  <2>11. IdsIdentify'
    BY <2>2, <2>3, <2>6 DEF IdInv, IdsIdentify
  <2>12. (\A g \in lcss.outgoing_htlcs : g.id <= lcss.local_updates)'
    BY Zenon, <2>6 DEF IdInv
  <2> QED
    BY Zenon, <2>7, <2>9, <2>10, <2>11, <2>12 DEF IdInv
<1>4. CASE Commits
  <2>1. PICK U \in signed \cup {uncommitted} : lcss' = NextLcss(lcss, U)
    BY Zenon, <1>4 DEF Commits
  <2>2. U \in FiniteUpdates /\ LocalAdds(U) \subseteq LocalAdds(uncommitted)
    <3>1. \A x \in U : x \in uncommitted \/ LocalResolution(x)
      BY Zenon, <2>1 DEF IdInv
    <3> QED
      BY Zenon, <1>0, <2>1, <3>1, AddsFromRecord
  <2>3. /\ lcss'.outgoing_htlcs \subseteq lcss.outgoing_htlcs \cup LocalAdds(U)
        /\ lcss.local_updates <= lcss'.local_updates
    <3>1. Cardinality({x \in U : x.side = "local"}) \in Nat
      BY Zenon, <2>2, FS_Subset, FS_CardinalityType DEF FiniteUpdates
    <3> QED
      BY <1>0, <2>1, <3>1 DEF NextLcss, LcssType, FiniteLcss
  <2>4. \A h \in LocalAdds(U) : h.id <= lcss'.local_updates
    BY Zenon, <2>1 DEF IdInv, NextState
  <2>5. \A h \in lcss'.outgoing_htlcs : h.id <= lcss'.local_updates
    BY <1>0, <2>3, <2>4 DEF IdInv, LcssType, FiniteLcss, Outgoing
  <2>6. LocalAdds(uncommitted') = {} /\ \A V \in signed' : LocalAdds(V) = {}
    BY Zenon, <1>4, NoAdds DEF Commits
  <2>7. Live' \subseteq Live
    BY Zenon, <2>2, <2>3, <2>6 DEF Live
  <2> QED
    BY Zenon, <1>4, <2>5, <2>6, <2>7 DEF IdInv, IdsIdentify, Commits
<1>5. CASE Resets
  BY Zenon, <1>5 DEF Resets, IdInv, IdsIdentify, Live, LocalAdds, HtlcsOf
<1> QED
  BY Zenon, <1>2, <1>3, <1>4, <1>5, RecordStep

\* The id of a hosted HTLC identifies it, in every behaviour of the plugin with
\* any number of HTLCs, reconnects, adopted states, overrides and restarts: an
\* id names one HTLC the client could claim (handle_update_fulfill and the forward
\* links look HTLCs up by id alone).
THEOREM IdsAreUnique == Spec => []IdsIdentify
<1>1. Init => TypeOK /\ IdInv
  BY Zenon, TypeInit, IdInit
<1>2. (TypeOK /\ IdInv) /\ [Next]_vars => (TypeOK /\ IdInv)'
  BY Zenon, TypeNext, IdNext
<1>3. TypeOK /\ IdInv => IdsIdentify
  BY Zenon DEF IdInv
<1> QED
  BY <1>1, <1>2, <1>3, PTL DEF Spec

-----------------------------------------------------------------------------
(* Errors                                                                  *)

LEMMA RecoverKeepsErrors ==
    ASSUME NEW query, NEW sigs, Recover(query, sigs)
    PROVE  errors \subseteq errors'
BY Zenon DEF Recover, RecoverOutgoing

LEMMA ErrorsStep ==
    ASSUME [Next]_vars
    PROVE  errors \subseteq errors' \/ (proposed # NoOverride /\ proposed' = NoOverride)
<1> USE DEF chanVars, linkVars, payVars, envVars
<1>1. CASE UNCHANGED errors
  BY Zenon, <1>1
<1>2. CASE Hook
  BY Zenon, <1>2 DEF Hook, HookFails, HookAnswered, HookForwards, HookTakes
<1>3. CASE Operator
  BY Zenon, <1>3 DEF Operator, ProposeOverride, SendDirectPayment
<1>4. CASE Watchdog
  BY Zenon, <1>4 DEF Watchdog, CommitTimeout, HtlcExpired, ErrorAndFail
<1>5. CASE Lightningd
  BY Zenon, <1>5 DEF Lightningd, PaymentSettles, PaymentResult, BlocksReach
<1>6. CASE Restart
  BY Zenon, <1>6 DEF Restart
<1>7. CASE StartupRecovery
  BY Zenon, <1>1, <1>7, RecoverKeepsErrors DEF StartupRecovery
<1>8. CASE Peer
  <2>1. ASSUME NEW p \in Payments, UpdateAdd(p)
        PROVE  errors \subseteq errors'
    BY Zenon, <2>1 DEF UpdateAdd
  <2>2. ASSUME NEW h \in lcss.outgoing_htlcs,
               UpdateFulfill(h) \/ UpdateFail(h) \/ UpdateFailMalformed(h)
        PROVE  errors \subseteq errors'
    BY Zenon, <2>2 DEF UpdateFulfill, UpdateFail, UpdateFailMalformed
  <2>3. CASE StateUpdate \/ AdoptLcss \/ BadLcss \/ PeerError \/ Disconnect
    BY Zenon, <2>3 DEF StateUpdate, AdoptLcss, BadLcss, PeerError, Disconnect
  <2>4. CASE AcceptOverride
    BY Zenon, <2>4 DEF AcceptOverride, Status
  <2>5. CASE Connect
    BY Zenon, <1>1, <2>5, RecoverKeepsErrors DEF Connect
  <2>6. CASE Invoke
    BY Zenon, <1>1, <2>6, RecoverKeepsErrors DEF Invoke
  <2> QED
    BY Zenon, <1>8, <2>1, <2>2, <2>3, <2>4, <2>5, <2>6 DEF Peer, ReplyPreimages
<1> QED
  BY Zenon, <1>1, <1>2, <1>3, <1>4, <1>5, <1>6, <1>7, <1>8 DEF Next, Run, vars

\* No handler rewrites the channel record without the errors in it: only the
\* acceptance of an override ends an error.
THEOREM OverrideEndsErrors == Spec => ErrorsStick
<1>1. [Next]_vars => [errors # {} => errors \subseteq errors'
                         \/ (proposed # NoOverride /\ proposed' = NoOverride)]_vars
  BY Zenon, ErrorsStep
<1> QED
  BY <1>1, PTL DEF Spec, ErrorsStick

=============================================================================
