---------------------------- MODULE HostedChannel ----------------------------
(***************************************************************************)
(* The host side of one established hosted channel (channel.rs): the       *)
(* update / state_update commit protocol, the HTLCs forwarded to and from  *)
(* normal Core Lightning channels, the deadline watchdog, error states,    *)
(* reconnect reconciliation, recovery and state_override.                  *)
(*                                                                         *)
(* A handler runs to its end in one action.  The peer is whatever the      *)
(* handlers can hear: it may send any message at any time (so messages are *)
(* lost, delayed, repeated and reordered), except that each update_add_htlc *)
(* is heard at most once and that a last_cross_signed_state it shows is    *)
(* one the host has signed on top of its own, or the override.  A message  *)
(* whose handler returns without changing anything is a stuttering step    *)
(* and has no action.  Every send may fail.                                *)
(***************************************************************************)
EXTENDS Lcss

CONSTANTS
    Capacity,        \* channel_capacity_msat
    InitialClient,   \* the client's balance when the channel opens
    MaxAccepted,     \* max_accepted_htlcs
    MaxInFlight,     \* max_htlc_value_in_flight_msat
    Direct,          \* those of Upstreams that are no HTLC but payments of the operator
    Refused,         \* HTLCs that no state accepts: amount, cltv or onion forbids it
    OverrideBalances,\* local balances an operator may propose with canopus-reset
    MaxUpdates,      \* bound on the update counters
    MaxRestarts      \* bound on plugin restarts

ASSUME ChannelAssumption ==
    /\ Upstreams \cap Payments = {}
    /\ Capacity \in Nat /\ InitialClient \in 0..Capacity
    /\ MaxAccepted \in Nat /\ MaxInFlight \in Nat
    /\ Direct \subseteq Upstreams /\ Refused \subseteq Upstreams \cup Payments
    /\ OverrideBalances \subseteq Nat
    /\ MaxUpdates \in Nat /\ MaxRestarts \in Nat

VARIABLES
    \* ChannelData, one datastore record
    lcss,          \* counters and HTLCs of the last cross-signed state
    balance,       \* local and remote balance of the last cross-signed state
    uncommitted,   \* updates not yet covered by a cross-signed state
    errors,        \* local_errors and remote_errors
    proposed,      \* proposed_override
    \* other datastore records
    links,         \* forward links whose outgoing side is this channel: id -> upstream
    paylinks,      \* client payments with a forward link to a normal channel
    preimages,     \* payments whose preimage is stored
    \* plugin memory
    resolutions,   \* pending_resolutions: answers waiting for a hook to take them
    disconnected,  \* peer_connections holds FALSE for the peer
    recovering,    \* startup recovery has not run yet
    \* the environment
    signed,        \* sets of updates on top of lcss the host has sent a signature for
    offered,       \* client payments the client has sent update_add_htlc for
    upstream,      \* what lightningd knows of each upstream HTLC
    payment,       \* listsendpays status of each client payment
    expired,       \* upstreams whose hosted cltv_expiry the chain has reached
    restarts,
    \* history
    claimed,       \* upstreams whose hosted HTLC was cross-signed as fulfilled
    refunded       \* client payments whose HTLC was cross-signed as failed

chanVars == <<lcss, balance, uncommitted, errors, proposed, signed, claimed, refunded>>
linkVars == <<links, resolutions>>
payVars == <<paylinks, payment>>
envVars == <<disconnected, recovering, offered, expired, restarts>>
vars == <<chanVars, linkVars, payVars, envVars, preimages, upstream>>

NoOverride == [local_updates |-> 0, remote_updates |-> 0, local_balance |-> 0]

LocalErrors == {"delivery_failed", "htlc_expired", "other"}

TypeOK ==
    /\ lcss \in [local_updates : Nat, remote_updates : Nat,
                 incoming_htlcs : SUBSET Payments, outgoing_htlcs : SUBSET Outgoing]
    /\ IsFiniteSet(lcss.incoming_htlcs) /\ IsFiniteSet(lcss.outgoing_htlcs)
    /\ uncommitted \subseteq Update /\ IsFiniteSet(uncommitted)
    /\ errors \subseteq LocalErrors \cup {"remote"}
    /\ proposed \in [local_updates : Nat, remote_updates : Nat, local_balance : 0..Capacity]
    /\ signed \subseteq {U \in SUBSET Update : IsFiniteSet(U)}
    /\ DOMAIN links \subseteq Nat /\ links \in [DOMAIN links -> Upstreams]
    /\ paylinks \subseteq Payments
    /\ preimages \subseteq Upstreams \cup Payments
    /\ resolutions \in [Upstreams -> {"none", "resolve", "fail"}]
    /\ upstream \in [Upstreams -> {"new", "held", "replay", "fulfilled", "failed",
                                 "direct"}]
    /\ payment \in [Payments -> {"none", "pending", "succeeded", "failed"}]
    /\ disconnected \in BOOLEAN /\ recovering \in BOOLEAN /\ restarts \in Nat
    /\ offered \subseteq Payments /\ refunded \subseteq Payments
    /\ expired \subseteq Upstreams /\ claimed \subseteq Upstreams

-----------------------------------------------------------------------------
(* Derived state                                                           *)

\* derive_status of an established channel; nothing sets suspended.
Status == IF proposed # NoOverride THEN "Overriding"
          ELSE IF errors # {} THEN "Errored" ELSE "Active"

NextState == NextLcss(lcss, uncommitted)
NextFunds == NextBalance(balance, uncommitted)

\* The errors after which handle_update_fulfill ignores every fulfil.
Fenced == errors \cap {"delivery_failed", "htlc_expired"} # {}

\* hosted_settlement_is_safe.  The margin between the two expiries was
\* checked when the link was made and is the same for every upstream.
SettlementIsSafe(h) == h.id \in DOMAIN links => h.pay \notin expired

\* The state after the link of HTLC id has been answered with r and deleted:
\* resolve_forward_fulfill and resolve_forward_fail, for a set of HTLC ids.
ResolveForward(ids, r) ==
    /\ resolutions' = [u \in Upstreams |->
                          IF \E i \in ids \cap DOMAIN links : links[i] = u
                          THEN r ELSE resolutions[u]]
    /\ links' = [i \in DOMAIN links \ ids |-> links[i]]

\* Make the updates U part of the last cross-signed state.
Fold(U) ==
    /\ lcss' = NextLcss(lcss, U)
    /\ balance' = NextBalance(balance, U)
    /\ claimed' = claimed \cup {h.pay : h \in HtlcsOf(U, "remote", "fulfill")}
    /\ refunded' = refunded \cup HtlcsOf(U, "local", "fail")

-----------------------------------------------------------------------------
Init ==
    /\ lcss = [local_updates |-> 0, remote_updates |-> 0,
               incoming_htlcs |-> {}, outgoing_htlcs |-> {}]
    /\ balance = [local |-> Capacity - InitialClient, remote |-> InitialClient]
    /\ uncommitted = {} /\ errors = {} /\ proposed = NoOverride /\ signed = {}
    /\ links = [i \in {} |-> 0] /\ paylinks = {} /\ preimages = {}
    /\ resolutions = [u \in Upstreams |-> "none"]
    /\ disconnected = FALSE /\ recovering = FALSE /\ restarts = 0
    /\ offered = {} /\ expired = {} /\ claimed = {} /\ refunded = {}
    /\ upstream = [u \in Upstreams |-> "new"]
    /\ payment = [p \in Payments |-> "none"]

-----------------------------------------------------------------------------
(* Inbound forwarding: htlc_accepted hook -> hosted HTLC                   *)

\* lightningd calls the hook for a new HTLC, and again after a restart.
HookCalled(u) == u \notin Direct /\ upstream[u] \in {"new", "replay"}

\* The channel is not Active: the hook answers temporary_channel_failure.
HookFails(u) ==
    /\ HookCalled(u) /\ Status # "Active"
    /\ upstream' = [upstream EXCEPT ![u] = "failed"]
    /\ UNCHANGED <<chanVars, linkVars, payVars, envVars, preimages>>

\* The limits on what the host offers, checked on the uncommitted state.
Fits(u) ==
    /\ u \notin Refused
    /\ Amount[u] <= NextFunds.local
    /\ Cardinality(NextState.incoming_htlcs) + Cardinality(NextState.outgoing_htlcs) + 1
          <= MaxAccepted
    /\ InFlight(NextState) + Amount[u] <= MaxInFlight

\* The handler leaves an answer for the hook without offering an HTLC: the
\* peer is gone, the preimage is known, or the HTLC does not fit.
HookAnswered(u) ==
    /\ HookCalled(u) /\ Status = "Active"
    /\ disconnected \/ u \in preimages \/ ~Fits(u)
    /\ upstream' = [upstream EXCEPT ![u] = "held"]
    /\ resolutions' = [resolutions EXCEPT ![u] =
                          IF ~disconnected /\ u \in preimages THEN "resolve" ELSE "fail"]
    /\ UNCHANGED <<chanVars, links, payVars, envVars, preimages>>

\* The HTLC fits: link, uncommitted add, update_add_htlc and state_update.
\* When a send fails the error is recorded and the hook fails at once.
HookForwards(u) ==
    LET h == [id |-> NextState.local_updates + 1, pay |-> u]
        U == uncommitted \cup {LocalAdd(h)}
    IN
    /\ HookCalled(u) /\ Status = "Active"
    /\ ~disconnected /\ u \notin preimages /\ Fits(u)
    /\ h.id <= MaxUpdates
    /\ links' = [i \in DOMAIN links \cup {h.id} |-> IF i \in DOMAIN links THEN links[i] ELSE u]
    /\ uncommitted' = U
    /\ \/ /\ signed' = signed \cup {U}
          /\ upstream' = [upstream EXCEPT ![u] = "held"]
          /\ errors' = errors
       \/ /\ errors' = errors \cup {"delivery_failed"}
          /\ upstream' = [upstream EXCEPT ![u] = "failed"]
          /\ signed' = signed
    /\ UNCHANGED <<lcss, balance, proposed, claimed, refunded, resolutions,
                   payVars, envVars, preimages>>

\* The hook polls pending_resolutions and takes its answer.
HookTakes(u) ==
    /\ upstream[u] = "held" /\ resolutions[u] # "none"
    /\ upstream' = [upstream EXCEPT ![u] =
                       IF resolutions[u] = "resolve" THEN "fulfilled" ELSE "failed"]
    /\ resolutions' = [resolutions EXCEPT ![u] = "none"]
    /\ UNCHANGED <<chanVars, links, payVars, envVars, preimages>>

\* send_direct_payment, for a pay command the rpc_command hook takes over: an
\* HTLC without a link.  pay may be called again while its preimage is not known.
SendDirectPayment(u) ==
    LET h == [id |-> NextState.local_updates + 1, pay |-> u]
        U == uncommitted \cup {LocalAdd(h)}
    IN
    /\ Status = "Active" /\ u \in Direct /\ u \notin preimages
    /\ Amount[u] <= NextFunds.local /\ h.id <= MaxUpdates
    /\ upstream' = [upstream EXCEPT ![u] = "direct"]
    /\ uncommitted' = U
    /\ signed' = signed \/ signed' = signed \cup {U}
    /\ UNCHANGED <<lcss, balance, errors, proposed, claimed, refunded, linkVars,
                   payVars, envVars, preimages>>

-----------------------------------------------------------------------------
(* Updates from the peer                                                   *)

\* handle_update_add
UpdateAdd(p) ==
    /\ Status = "Active" /\ p \notin offered
    /\ offered' = offered \cup {p}
    /\ IF Amount[p] > NextFunds.remote
       THEN /\ errors' = errors \cup {"other"}
            /\ uncommitted' = uncommitted
       ELSE /\ NextState.remote_updates < MaxUpdates
            /\ uncommitted' = uncommitted \cup {RemoteAdd(p)}
            /\ errors' = errors
    /\ UNCHANGED <<lcss, balance, proposed, signed, claimed, refunded, linkVars,
                   payVars, disconnected, recovering, expired, restarts,
                   preimages, upstream>>

\* handle_update_fulfill, with the preimage of the HTLC
UpdateFulfill(h) ==
    /\ Status \in {"Active", "Errored"} /\ ~Fenced
    /\ h \in lcss.outgoing_htlcs /\ ~RemoteResolved(uncommitted, h)
    /\ IF SettlementIsSafe(h)
       THEN /\ preimages' = preimages \cup {h.pay}
            /\ uncommitted' = uncommitted \cup {RemoteFulfill(h)}
            /\ ResolveForward({h.id}, "resolve")
            /\ errors' = errors
       ELSE /\ errors' = errors \cup {"other"}
            /\ UNCHANGED <<preimages, uncommitted, linkVars>>
    /\ UNCHANGED <<lcss, balance, proposed, signed, claimed, refunded,
                   payVars, envVars, upstream>>

\* handle_update_fail; an empty reason errors the channel
UpdateFail(h) ==
    /\ Status \in {"Active", "Errored"}
    /\ h \in lcss.outgoing_htlcs /\ ~RemoteResolved(uncommitted, h)
    /\ \/ uncommitted' = uncommitted \cup {RemoteFail(h)} /\ errors' = errors
       \/ errors' = errors \cup {"other"} /\ uncommitted' = uncommitted
    /\ UNCHANGED <<lcss, balance, proposed, signed, claimed, refunded, linkVars,
                   payVars, envVars, preimages, upstream>>

\* handle_update_fail_malformed
UpdateFailMalformed(h) ==
    /\ Status \in {"Active", "Errored"} /\ "delivery_failed" \notin errors
    /\ h \in lcss.outgoing_htlcs /\ ~RemoteResolved(uncommitted, h)
    /\ uncommitted' = uncommitted \cup {RemoteFail(h)}
    /\ UNCHANGED <<lcss, balance, errors, proposed, signed, claimed, refunded,
                   linkVars, payVars, envVars, preimages, upstream>>
-----------------------------------------------------------------------------
(* Client payments: what the host does with the incoming HTLCs it owes an  *)
(* answer.  how[p] is the course taken for payment p:                      *)
(*   "sent"     the onion was handed to lightningd (sendonion)             *)
(*   "unsent"   sendonion refused it: fail the HTLC back                   *)
(*   "refused"  a limit, the onion or the amount forbids it: fail it back  *)
(*   "paid", "lost"  the payment succeeded / failed: fulfil or fail        *)
(*   "waiting"  the payment is still pending                               *)

OverLimit(l) ==
    \/ Cardinality(l.incoming_htlcs) + Cardinality(l.outgoing_htlcs) > MaxAccepted
    \/ InFlight(l) > MaxInFlight

\* dispatch_committed_incoming_htlc towards a normal channel
DispatchCourses(p, l) ==
    IF p \in Refused \/ OverLimit(l) THEN {"refused"} ELSE {"sent", "unsent"}

\* One iteration of the loop of recover_channel_htlcs
RecoverCourses(p) ==
    CASE p \in paylinks /\ payment[p] = "succeeded" -> {"paid"}
      [] p \in paylinks /\ payment[p] = "failed" -> {"lost"}
      [] p \in paylinks /\ payment[p] = "pending" -> {"waiting"}
      [] OTHER -> DispatchCourses(p, lcss)

\* Courses that put a local resolution into uncommitted and send it.
Answering == {"unsent", "refused", "paid", "lost"}

Answers(S, how) ==
    {IF how[p] = "paid" THEN LocalFulfill(p) ELSE LocalFail(p) :
        p \in {x \in S : how[x] \in Answering}}

\* A loop over the HTLCs of how treats those of done completely.  A failed
\* send ends it at the HTLC in stuck: its answer is saved but not sent.
LoopEnds(how, done, stuck) ==
    \/ done = DOMAIN how /\ stuck = {}
    \/ \E p \in DOMAIN how \ done : stuck = {p} /\ how[p] \in Answering

\* Mutant: the link is not written before sendonion.
SettleUnlinked(how, done, stuck) ==
    /\ paylinks' = (paylinks \cup stuck) \ done
    /\ payment' = [p \in Payments |->
                      IF p \in done /\ how[p] = "sent" /\ payment[p] \in {"none", "failed"}
                      THEN "pending" ELSE payment[p]]
    /\ preimages' = preimages \cup {p \in done \cup stuck : how[p] = "paid"}

\* Links, preimages and sendonion calls of such a loop.
Settle(how, done, stuck) ==
    /\ paylinks' = (paylinks \cup {p \in done \cup stuck : how[p] \in {"sent", "unsent"}})
                   \ {p \in done : how[p] \in {"unsent", "paid", "lost"}}
    /\ payment' = [p \in Payments |->
                      IF p \in done /\ how[p] = "sent" /\ payment[p] \in {"none", "failed"}
                      THEN "pending" ELSE payment[p]]
    /\ preimages' = preimages \cup {p \in done \cup stuck : how[p] = "paid"}

\* The state_updates such a loop signs on top of U.  The order of the loop is
\* left open.
Released(U, new) == {U \cup N : N \in (SUBSET new) \ {{}}}

\* handle_outgoing_payment_result, from sendpay_success / sendpay_failure
PaymentResult(p) ==
    LET how == [x \in {p} |-> IF payment[p] = "succeeded" THEN "paid" ELSE "lost"]
    IN
    /\ p \in paylinks /\ payment[p] \in {"succeeded", "failed"}
    /\ \/ /\ p \in lcss.incoming_htlcs /\ ~LocalResolved(uncommitted, p)
          /\ uncommitted' = uncommitted \cup Answers({p}, how)
          /\ \/ Settle(how, {p}, {}) /\ signed' = signed \cup {uncommitted'}
             \/ Settle(how, {}, {p}) /\ signed' = signed
       \/ /\ p \in lcss.incoming_htlcs /\ LocalResolved(uncommitted, p)
          /\ payment[p] = "succeeded" /\ preimages' = preimages \cup {p}
          /\ UNCHANGED <<uncommitted, signed, payVars>>
       \/ /\ p \notin lcss.incoming_htlcs
          /\ Settle(how, {p}, {})
          /\ UNCHANGED <<uncommitted, signed>>
    /\ UNCHANGED <<lcss, balance, errors, proposed, claimed, refunded, linkVars,
                   envVars, upstream>>

-----------------------------------------------------------------------------
(* Commit                                                                  *)

\* handle_active_state_update for the state_update the host expects.  If the
\* confirming send fails, nothing of the committed updates is dispatched.
StateUpdate ==
    /\ Status = "Active" /\ uncommitted # {}
    /\ Fold(uncommitted)
    /\ \/ /\ uncommitted' = {} /\ signed' = {}
          /\ UNCHANGED <<linkVars, payVars, preimages>>
       \/ \E how \in [NextState.incoming_htlcs \ lcss.incoming_htlcs ->
                         {"sent", "unsent", "refused"}] :
          \E done, stuck \in SUBSET DOMAIN how :
             /\ \A p \in DOMAIN how : how[p] \in DispatchCourses(p, NextState)
             /\ LoopEnds(how, done, stuck)
             /\ Settle(how, done, stuck)
             /\ uncommitted' = Answers(done \cup stuck, how)
             /\ signed' = Released({}, Answers(done, how))
             /\ IF stuck = {}
                THEN ResolveForward({h.id : h \in HtlcsOf(uncommitted, "remote", "fail")}, "fail")
                ELSE UNCHANGED linkVars
    /\ UNCHANGED <<errors, proposed, envVars, upstream>>

-----------------------------------------------------------------------------
(* Recovery and reconnect                                                  *)

\* recover_outgoing_htlcs: answer upstreams whose preimage is known, until an
\* HTLC past its deadline errors the channel.  That error is written on top of
\* the channel record read before the incoming HTLCs were answered.
RecoverOutgoing(new) ==
    LET todo == {h \in lcss.outgoing_htlcs : ~RemoteResolved(uncommitted, h)}
        unsafe == {h \in todo : ~SettlementIsSafe(h)}
        known == {h \in todo \ unsafe : h.pay \in preimages}
    IN
    \/ /\ unsafe = {}
       /\ ResolveForward({h.id : h \in known}, "resolve")
       /\ uncommitted' = uncommitted \cup new
       /\ errors' = errors
    \/ /\ unsafe # {}
       /\ \E K \in SUBSET known : ResolveForward({h.id : h \in K}, "resolve")
       /\ uncommitted' = uncommitted
       /\ errors' = errors \cup {"other"}

\* recover_channel_htlcs; sigs are the signatures sent before it
Recover(query, sigs) ==
    \E how \in [{p \in lcss.incoming_htlcs : ~LocalResolved(uncommitted, p)} ->
                   Answering \cup {"sent", "waiting"}] :
    \E done, stuck \in SUBSET DOMAIN how :
       /\ \A p \in DOMAIN how : how[p] \in RecoverCourses(p)
       /\ LoopEnds(how, done, stuck)
       /\ Settle(how, done, stuck)
       /\ signed' = sigs \cup Released(uncommitted, Answers(done, how))
       /\ IF query /\ stuck = {}
          THEN RecoverOutgoing(Answers(done, how))
          ELSE /\ uncommitted' = uncommitted \cup Answers(done \cup stuck, how)
               /\ UNCHANGED <<errors, linkVars>>
       /\ UNCHANGED <<lcss, balance, proposed, claimed, refunded>>

\* handle_connect
Connect ==
    /\ disconnected' = FALSE
    /\ IF Status = "Active" THEN Recover(TRUE, signed)
       ELSE UNCHANGED <<chanVars, linkVars, payVars, preimages>>
    /\ UNCHANGED <<recovering, offered, expired, restarts, upstream>>

\* handle_disconnect
Disconnect ==
    /\ ~disconnected /\ disconnected' = TRUE
    /\ UNCHANGED <<chanVars, linkVars, payVars, preimages, recovering, offered,
                   expired, restarts, upstream>>

\* handle_invoke on an Active channel: replay, sign what is uncommitted, recover.
\* A failed send may leave it at any point.
Invoke ==
    LET sigs == IF uncommitted = {} THEN signed ELSE signed \cup {uncommitted} IN
    /\ Status = "Active"
    /\ \/ Recover(TRUE, sigs)
       \/ /\ signed' = sigs
          /\ UNCHANGED <<lcss, balance, uncommitted, errors, proposed, claimed,
                         refunded, linkVars, payVars, preimages>>
    /\ UNCHANGED <<envVars, upstream>>

\* handle_lcss with a state the peer has and the host does not: one the host
\* signed on top of its own, or the override the peer has accepted.
AdoptLcss ==
    /\ \/ \E U \in signed : Fold(U)
       \/ /\ proposed # NoOverride
          /\ proposed.local_updates >= lcss.local_updates
          /\ proposed.remote_updates >= lcss.remote_updates
          /\ proposed.local_updates + proposed.remote_updates
                # lcss.local_updates + lcss.remote_updates
          /\ lcss' = [local_updates |-> proposed.local_updates,
                      remote_updates |-> proposed.remote_updates,
                      incoming_htlcs |-> {}, outgoing_htlcs |-> {}]
          /\ balance' = [local |-> proposed.local_balance,
                         remote |-> Capacity - proposed.local_balance]
          /\ UNCHANGED <<claimed, refunded>>
    /\ uncommitted' = {} /\ signed' = {}
    /\ UNCHANGED <<errors, proposed, linkVars, payVars, envVars, preimages, upstream>>

\* Mutant: the error replaces those on record.
BadLcssOverwrites ==
    /\ errors' = {"other"}
    /\ UNCHANGED <<lcss, balance, uncommitted, proposed, signed, claimed, refunded,
                   linkVars, payVars, envVars, preimages, upstream>>

\* handle_lcss with a signature that does not verify
BadLcss ==
    /\ errors' = errors \cup {"other"}
    /\ UNCHANGED <<lcss, balance, uncommitted, proposed, signed, claimed, refunded,
                   linkVars, payVars, envVars, preimages, upstream>>

\* handle_reply_preimages, asked for by recover_outgoing_htlcs or not.  (Stored
\* preimages of client payments are not consulted when they are settled.)
ReplyPreimages(u) ==
    /\ preimages' = preimages \cup {u}
    /\ UNCHANGED <<chanVars, linkVars, payVars, envVars, upstream>>

\* handle_error
PeerError ==
    /\ errors' = errors \cup {"remote"}
    /\ UNCHANGED <<lcss, balance, uncommitted, proposed, signed, claimed, refunded,
                   linkVars, payVars, envVars, preimages, upstream>>

-----------------------------------------------------------------------------
(* Override                                                                *)

\* Mutant: the balance is not checked against the capacity.
ProposeAnyBalance ==
    /\ Status \in {"Errored", "Overriding"}
    /\ lcss.local_updates < MaxUpdates /\ lcss.remote_updates < MaxUpdates
    /\ \E b \in OverrideBalances \cup {balance.local} :
          proposed' = [local_updates |-> lcss.local_updates + 1,
                       remote_updates |-> lcss.remote_updates + 1,
                       local_balance |-> b]
    /\ errors' = IF errors \cap LocalErrors = {} THEN errors \cup {"other"} ELSE errors
    /\ UNCHANGED <<lcss, balance, uncommitted, signed, claimed, refunded,
                   linkVars, payVars, envVars, preimages, upstream>>

\* propose_override (canopus-reset)
ProposeOverride ==
    /\ Status \in {"Errored", "Overriding"}
    /\ lcss.local_updates < MaxUpdates /\ lcss.remote_updates < MaxUpdates
    /\ \E b \in (OverrideBalances \cup {balance.local}) \cap 0..Capacity :
          proposed' = [local_updates |-> lcss.local_updates + 1,
                       remote_updates |-> lcss.remote_updates + 1,
                       local_balance |-> b]
    /\ errors' = IF errors \cap LocalErrors = {} THEN errors \cup {"other"} ELSE errors
    /\ UNCHANGED <<lcss, balance, uncommitted, signed, claimed, refunded,
                   linkVars, payVars, envVars, preimages, upstream>>

\* handle_override_acceptance
AcceptOverride ==
    /\ Status = "Overriding"
    /\ lcss' = [local_updates |-> proposed.local_updates,
                remote_updates |-> proposed.remote_updates,
                incoming_htlcs |-> {}, outgoing_htlcs |-> {}]
    /\ balance' = [local |-> proposed.local_balance,
                   remote |-> Capacity - proposed.local_balance]
    /\ uncommitted' = {} /\ errors' = {} /\ proposed' = NoOverride /\ signed' = {}
    /\ UNCHANGED <<claimed, refunded, linkVars, payVars, envVars, preimages, upstream>>

-----------------------------------------------------------------------------
(* The watchdog: enforce_forward_deadlines on this channel                 *)

\* Error the channel with e, then fail the upstream of the HTLC.
ErrorAndFail(h, e) ==
    /\ h.id \in DOMAIN links
    /\ errors' = errors \cup {e}
    /\ ResolveForward({h.id}, "fail")
    /\ UNCHANGED <<lcss, balance, uncommitted, proposed, signed, claimed, refunded,
                   payVars, envVars, preimages, upstream>>

\* Mutants: another error, and only HTLCs past their expiry.
CommitTimeoutOther(h) ==
    Status = "Active" /\ h \in LocalAdds(uncommitted) /\ ErrorAndFail(h, "other")
CommitTimeoutLate(h) ==
    Status = "Active" /\ h \in LocalAdds(uncommitted) /\ h.pay \in expired
    /\ ErrorAndFail(h, "delivery_failed")

\* An add still uncommitted when its 30 s deadline has passed.
CommitTimeout(h) ==
    Status = "Active" /\ h \in LocalAdds(uncommitted) /\ ErrorAndFail(h, "delivery_failed")

\* Mutant: the upstream is failed and the channel stays Active.
HtlcExpiredActive(h) ==
    /\ Status = "Active" /\ h \in lcss.outgoing_htlcs /\ h.pay \in expired
    /\ h.id \in DOMAIN links /\ ResolveForward({h.id}, "fail")
    /\ UNCHANGED <<chanVars, payVars, envVars, preimages, upstream>>

\* A committed HTLC whose cltv_expiry the chain has reached.
HtlcExpired(h) ==
    /\ Status = "Active" /\ h \in lcss.outgoing_htlcs /\ h.pay \in expired
    /\ ErrorAndFail(h, "htlc_expired")

-----------------------------------------------------------------------------
(* lightningd, the chain and the process                                   *)

PaymentSettles(p) ==
    /\ payment[p] = "pending"
    /\ \E r \in {"succeeded", "failed"} : payment' = [payment EXCEPT ![p] = r]
    /\ UNCHANGED <<chanVars, linkVars, paylinks, envVars, preimages, upstream>>

BlocksReach(u) ==
    /\ upstream[u] \in {"held", "replay"} /\ u \notin expired
    /\ expired' = expired \cup {u}
    /\ UNCHANGED <<chanVars, linkVars, payVars, disconnected, recovering, offered,
                   restarts, preimages, upstream>>

\* Memory is lost; lightningd will call the hook again for what it holds.
Restart ==
    /\ restarts < MaxRestarts /\ restarts' = restarts + 1
    /\ resolutions' = [u \in Upstreams |-> "none"]
    /\ upstream' = [u \in Upstreams |->
                       IF upstream[u] = "held" THEN "replay" ELSE upstream[u]]
    /\ disconnected' = FALSE /\ recovering' = TRUE
    /\ UNCHANGED <<chanVars, links, payVars, offered, expired, preimages>>

\* recover_committed_htlcs, spawned when the plugin starts
StartupRecovery ==
    /\ recovering /\ recovering' = FALSE
    /\ IF Status = "Active" THEN Recover(FALSE, signed)
       ELSE UNCHANGED <<chanVars, linkVars, payVars, preimages>>
    /\ UNCHANGED <<disconnected, offered, expired, restarts, upstream>>

-----------------------------------------------------------------------------
Hook == \E u \in Upstreams : HookFails(u) \/ HookAnswered(u) \/ HookForwards(u) \/ HookTakes(u)

Peer == \/ \E p \in Payments : UpdateAdd(p)
        \/ \E h \in lcss.outgoing_htlcs :
              UpdateFulfill(h) \/ UpdateFail(h) \/ UpdateFailMalformed(h)
        \/ \E u \in Upstreams : ReplyPreimages(u)
        \/ StateUpdate \/ AdoptLcss \/ BadLcss \/ PeerError \/ AcceptOverride
        \/ Connect \/ Disconnect \/ Invoke

Watchdog == \/ \E h \in LocalAdds(uncommitted) : CommitTimeout(h)
            \/ \E h \in lcss.outgoing_htlcs : HtlcExpired(h)

Lightningd == \/ \E p \in Payments : PaymentSettles(p) \/ PaymentResult(p)
              \/ \E u \in Upstreams : BlocksReach(u)

Operator == ProposeOverride \/ \E u \in Direct : SendDirectPayment(u)

\* The plugin while it keeps running, and with restarts.
Run == Hook \/ Peer \/ Watchdog \/ Lightningd \/ Operator
Next == Run \/ Restart \/ StartupRecovery

RunSpec == Init /\ [][Run]_vars
Spec == Init /\ [][Next]_vars

\* The watchdog ticks every second and a waiting hook polls every 100 ms.
FairSpec == /\ RunSpec
            /\ WF_vars(Watchdog)
            /\ \A u \in Upstreams : WF_vars(HookTakes(u))

-----------------------------------------------------------------------------
(* Properties                                                              *)

\* The HTLCs the client could still claim from the host.
Live == lcss.outgoing_htlcs \cup LocalAdds(uncommitted)

\* The host has failed, or is about to fail, upstream u.
GivenUp(u) == upstream[u] = "failed" \/ resolutions[u] = "fail"

Conserved(l, b) ==
    /\ b.local \in 0..Capacity /\ b.remote \in 0..Capacity
    /\ b.local + b.remote + InFlight(l) = Capacity

\* Every msat of the capacity is in exactly one place, in the committed state,
\* in the state the uncommitted updates lead to, and in every state the host
\* has signed: no handler lets an update in that the fold would reject or that
\* would create or destroy funds.
FundsConserved ==
    /\ Conserved(lcss, balance)
    /\ Conserved(NextState, NextFunds)
    /\ \A U \in signed : Conserved(NextLcss(lcss, U), NextBalance(balance, U))

\* The id given to a hosted HTLC identifies it: no two HTLCs the client could
\* claim share one, across commits, reconnects, adopted states and overrides.
IdsIdentify ==
    \A g, h \in Live : g.id = h.id => g = h

\* An upstream HTLC is given up only when the client can no longer claim the
\* hosted HTLC that forwards it: either it is gone, or an error the fulfil
\* handler honours is on record.
GivenUpIsFenced ==
    \A h \in Live : GivenUp(h.pay) => Fenced

\* The host never pays a client for a forward whose upstream HTLC it failed.
NoUnfundedClaim ==
    \A u \in claimed : ~GivenUp(u)

\* A payment the host makes for the client is never lost sight of, across
\* failed sends, reconnects, adopted states and restarts: while it is pending its
\* link is there for the result to be matched with, and once it has succeeded the
\* link or the stored preimage still tells that the client owes the host.
PaymentsTracked ==
    \A p \in Payments :
       /\ payment[p] = "pending" => p \in paylinks
       /\ payment[p] = "succeeded" => p \in paylinks \cup preimages

\* An error ends only by an accepted override: nothing else makes the channel
\* Active again, so no other handler may rewrite the record without its errors.
ErrorsStick ==
    [][errors # {} => errors \subseteq errors' \/ (proposed # NoOverride /\ proposed' = NoOverride)]_vars

\* An upstream HTLC waits in the hook and the watchdog of the Active channel is
\* what must end the wait: its hosted HTLC is not committed, or has expired.
WatchdogDue(u) ==
    /\ Status = "Active" /\ upstream[u] = "held" /\ resolutions[u] = "none"
    /\ \E h \in Live :
          /\ h.pay = u /\ h.id \in DOMAIN links /\ links[h.id] = u
          /\ h \in LocalAdds(uncommitted) \/ u \in expired

\* On an Active channel no upstream HTLC waits forever for a client that does not
\* commit or does not settle: it is committed, resolved or given up, or the
\* channel leaves Active (enforce_forward_deadlines).
ActiveChannelAnswers ==
    \A u \in Upstreams : WatchdogDue(u) ~> ~WatchdogDue(u)

-----------------------------------------------------------------------------
(* What the documentation says of the code and the code does not do.       *)

\* "htlc-forwards map + preimage cache prevent duplicate processing": a client
\* HTLC is failed back only if its payment is not under way and has not succeeded
\* (recover_channel_htlcs dispatches again an HTLC whose link is gone).
RefundedIsUnpaid ==
    \A p \in Payments :
       p \in refunded \/ LocalFail(p) \in uncommitted => payment[p] \in {"none", "failed"}
=============================================================================
