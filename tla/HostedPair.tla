----------------------------- MODULE HostedPair -----------------------------
(***************************************************************************)
(* Two hosted channels of one host (channel.rs): HTLCs that the client of  *)
(* the source channel offers and whose onion names the target channel are  *)
(* forwarded to the client of the target channel, and what becomes of them *)
(* there is carried back.                                                  *)
(*                                                                         *)
(* Handlers run to their end, and every send may fail.  What a handler does *)
(* before its loop over HTLCs is one action, and so is each round of the   *)
(* loop; until it has ended nothing else happens, except that the plugin   *)
(* stops.  Of the clients, HostedChannel.tla says what they may do; the    *)
(* source has no HTLCs of the host, the target none of its client.         *)
(***************************************************************************)
EXTENDS Lcss

CONSTANTS
    Replied,       \* HTLCs whose preimage the client of the target may send unasked
    Onions,        \* what may become of each HTLC when it is dispatched (Fate)
    SourceFunds,   \* first balance of the client of the source, which is its capacity
    TargetFunds,   \* first balance of the host in the target, which is its capacity
    MaxAccepted,   \* max_accepted_htlcs and
    MaxInFlight,   \* ... max_htlc_value_in_flight_msat, of both
    MaxUpdates     \* bound on the update counters

\* The onion cannot be peeled or forwards more than it brings; it names the source
\* channel itself; or it names the target, and pays enough whatever the routing policy
\* or only under some policies, of which the operator may choose another at any time.
Fate == {"refused", "loop", "plain", "cheap"}

\* A payment of the source's client is what the target forwards; the fee is left out.
ASSUME PairAssumption ==
    /\ Upstreams = Payments /\ Replied \subseteq Payments /\ Onions \subseteq [Payments -> Fate]
    /\ {SourceFunds, TargetFunds, MaxAccepted, MaxInFlight, MaxUpdates} \subseteq Nat

VARIABLES
    src, tgt,  \* the record of each channel, and what the host has signed on top of it
    links,     \* for ids of HTLCs of the target, the HTLC of the source each forwards
    preimages, \* preimages that are stored
    loop,      \* what the running handler has yet to dispatch, to fail and to fulfil
    gone,      \* peer_connections holds FALSE for the client of the target
    onion,     \* the member of Onions that the source's client has chosen
    heard,     \* HTLCs the client of the source has offered
    paid,      \* history: HTLCs cross-signed as fulfilled in the target,
    refunded,  \* ... and as failed in the source
    rewound    \* history: a client has shown a state without updates that the host had made,
               \* ... or an HTLC was given an id under which a link was still stored

vars == <<src, tgt, links, preimages, loop, gone, onion, heard, paid, refunded, rewound>>
history == <<paid, refunded, rewound>>
envVars == <<gone, onion, heard>>

NoOverride == [local_updates |-> 0, remote_updates |-> 0, local_balance |-> 0]

Fresh(local, remote) ==
    [lcss |-> [local_updates |-> 0, remote_updates |-> 0,
               incoming_htlcs |-> {}, outgoing_htlcs |-> {}],
     balance |-> [local |-> local, remote |-> remote],
     uncommitted |-> {}, errors |-> {}, proposed |-> NoOverride, signed |-> {}]

Done == [dispatch |-> {}, fail |-> {}, fulfill |-> {}]

Init ==
    /\ src = Fresh(0, SourceFunds) /\ tgt = Fresh(TargetFunds, 0)
    /\ links = [i \in {} |-> 0] /\ preimages = {} /\ loop = Done
    /\ gone = FALSE /\ onion \in Onions /\ heard = {}
    /\ paid = {} /\ refunded = {} /\ rewound = FALSE

-----------------------------------------------------------------------------
(* One channel                                                             *)

\* derive_status
Status(c) == IF c.proposed # NoOverride THEN "Overriding"
             ELSE IF c.errors # {} THEN "Errored" ELSE "Active"

Add(c, u) == [c EXCEPT !.uncommitted = @ \cup {u}]
Sign(c) == [c EXCEPT !.signed = @ \cup {c.uncommitted}]
Error(c, e) == [c EXCEPT !.errors = @ \cup {e}]

\* The errors that fence off fulfils (delivery failed, HTLC expired), and others
Errors == {"fence", "other"}

\* Make the updates U part of the last cross-signed state.
Fold(c, U) ==
    [c EXCEPT !.lcss = NextLcss(@, U), !.balance = NextBalance(@, U),
              !.uncommitted = {}, !.signed = {}]

-----------------------------------------------------------------------------
(* What the target tells the source.  ok is what a call returns.           *)

\* Mutant: an HTLC that has its answer is answered again.
AnswerAgain(p, u, ok) ==
    \/ p \notin src.lcss.incoming_htlcs /\ ok /\ src' = src
    \/ /\ p \in src.lcss.incoming_htlcs
       /\ src' = IF ok THEN Sign(Add(src, u)) ELSE Add(src, u)

\* send_local_fulfill, send_local_fail and send_local_fail_for_htlc (or _malformed_): u
\* answers HTLC p of the source.  The fold refuses a second answer.
Answer(p, u, ok) ==
    \/ p \notin src.lcss.incoming_htlcs /\ ok /\ src' = src
    \/ /\ p \in src.lcss.incoming_htlcs /\ LocalResolved(src.uncommitted, p)
       /\ ~ok /\ src' = src
    \/ /\ p \in src.lcss.incoming_htlcs /\ ~LocalResolved(src.uncommitted, p)
       /\ src' = IF ok THEN Sign(Add(src, u)) ELSE Add(src, u)

Unlinked(l, ids) == [i \in DOMAIN l \ ids |-> l[i]]

\* resolve_forward_fulfill and resolve_forward_fail, for HTLC id of the target
ResolveForwardFulfill(id, ok) ==
    \/ id \notin DOMAIN links /\ ok /\ UNCHANGED <<src, links>>
    \/ /\ id \in DOMAIN links /\ Answer(links[id], LocalFulfill(links[id]), ok)
       /\ links' = IF ok THEN Unlinked(links, {id}) ELSE links

ResolveForwardFail(id, ok) ==
    \/ id \notin DOMAIN links /\ ok /\ UNCHANGED <<src, links>>
    \/ /\ id \in DOMAIN links /\ Answer(links[id], LocalFail(links[id]), ok)
       /\ links' = IF ok THEN Unlinked(links, {id}) ELSE links

-----------------------------------------------------------------------------
(* What the source tells the target                                        *)

\* The limits on what the host offers; each amount is within those on one HTLC.
Fits(p) ==
    LET next == NextLcss(tgt.lcss, tgt.uncommitted) IN
    /\ Amount[p] <= NextBalance(tgt.balance, tgt.uncommitted).local
    /\ Cardinality(next.outgoing_htlcs) + 1 <= MaxAccepted
    /\ InFlight(next) + Amount[p] <= MaxInFlight

\* forward_link_for_incoming
LinksFor(l, p) == {i \in DOMAIN l : l[i] = p}

\* The HTLC is failed back.
Refuse(p, ok) == Answer(p, LocalFail(p), ok) /\ UNCHANGED <<tgt, links>>

\* The target did not take the HTLC: fail it back and delete its link among l.
FailBack(l, p, ok) ==
    /\ Answer(p, LocalFail(p), ok)
    /\ links' = IF ok /\ LinksFor(l, p) # {} THEN Unlinked(l, {Min(LinksFor(l, p))}) ELSE l

\* The HTLC that would forward p, and the links with the one create_json leaves for it
Hosted(p) == [id |-> NextLcss(tgt.lcss, tgt.uncommitted).local_updates + 1, pay |-> p]
Linked(h) == [i \in DOMAIN links \cup {h.id} |-> IF i \in DOMAIN links THEN links[i] ELSE h.pay]

\* channel_handle_htlc_add.  When the client is gone, the preimage is known or the
\* HTLC does not fit, the answer goes to a hook, and none waits for a hosted HTLC.
ChannelHandleHtlcAdd(p, ok) ==
    LET takes == Status(tgt) = "Active"
        fits == ~gone /\ p \notin preimages /\ Fits(p)
        h == Hosted(p)
    IN
    \/ ~takes /\ FailBack(links, p, ok) /\ tgt' = tgt
    \/ takes /\ ~fits /\ ok /\ UNCHANGED <<src, tgt, links>>
    \/ takes /\ fits /\ ok /\ tgt' = Sign(Add(tgt, LocalAdd(h))) /\ links' = Linked(h) /\ src' = src
    \/ takes /\ fits /\ tgt' = Error(Add(tgt, LocalAdd(h)), "fence") /\ FailBack(Linked(h), p, ok)

\* dispatch_committed_incoming_htlc
DispatchCommittedIncomingHtlc(p, ok) ==
    IF Cardinality(src.lcss.incoming_htlcs) > MaxAccepted \/ InFlight(src.lcss) > MaxInFlight
    THEN Refuse(p, ok)
    ELSE \/ onion[p] \in {"refused", "cheap"} /\ Refuse(p, ok)
         \/ onion[p] = "loop" /\ ~ok /\ UNCHANGED <<src, tgt, links>>
         \/ onion[p] \in {"plain", "cheap"} /\ ChannelHandleHtlcAdd(p, ok)

-----------------------------------------------------------------------------
(* The rounds of the loops, in any order.  An error ends the handler.      *)

\* History: this step stores an HTLC under the id of a link that it found.
Reuses == \E h \in LocalAdds(tgt'.uncommitted) \ LocalAdds(tgt.uncommitted) : h.id \in DOMAIN links

\* dispatch_committed_effects and recover_channel_htlcs of the source
DispatchRound ==
    \E p \in loop.dispatch, ok \in BOOLEAN :
       /\ DispatchCommittedIncomingHtlc(p, ok)
       /\ loop' = IF ok THEN [loop EXCEPT !.dispatch = @ \ {p}] ELSE Done
       /\ rewound' = (rewound \/ Reuses)
       /\ UNCHANGED <<preimages, envVars, paid, refunded>>

\* dispatch_committed_effects of the target: failures are passed on,
FailRound ==
    \E id \in loop.fail, ok \in BOOLEAN :
       /\ ResolveForwardFail(id, ok)
       /\ loop' = IF ok THEN [loop EXCEPT !.fail = @ \ {id}] ELSE Done
       /\ UNCHANGED <<tgt, preimages, envVars, history>>

\* ... and recover_outgoing_htlcs of the target: so are preimages that are known.
FulfillRound ==
    \E id \in loop.fulfill, ok \in BOOLEAN :
       /\ ResolveForwardFulfill(id, ok)
       /\ loop' = IF ok THEN [loop EXCEPT !.fulfill = @ \ {id}] ELSE Done
       /\ UNCHANGED <<tgt, preimages, envVars, history>>

-----------------------------------------------------------------------------
(* The clients                                                             *)

\* handle_update_add
SourceAdd(p) ==
    /\ Status(src) = "Active" /\ p \notin heard
    /\ heard' = heard \cup {p}
    /\ src' = IF Amount[p] > NextBalance(src.balance, src.uncommitted).remote
              THEN Error(src, "other") ELSE Add(src, RemoteAdd(p))
    /\ UNCHANGED <<tgt, links, preimages, loop, gone, onion, history>>

\* handle_active_state_update; if the confirming send fails nothing is dispatched.
SourceCommit ==
    /\ Status(src) = "Active" /\ src.uncommitted # {}
    /\ src' = Fold(src, src.uncommitted)
    /\ \/ loop' = [loop EXCEPT !.dispatch = src'.lcss.incoming_htlcs \ src.lcss.incoming_htlcs]
       \/ loop' = loop
    /\ refunded' = refunded \cup HtlcsOf(src.uncommitted, "local", "fail")
    /\ UNCHANGED <<tgt, links, preimages, envVars, paid, rewound>>

TargetCommit ==
    /\ Status(tgt) = "Active" /\ tgt.uncommitted # {}
    /\ tgt' = Fold(tgt, tgt.uncommitted)
    /\ \/ loop' = [loop EXCEPT !.fail = {h.id : h \in HtlcsOf(tgt.uncommitted, "remote", "fail")}]
       \/ loop' = loop
    /\ paid' = paid \cup {h.pay : h \in HtlcsOf(tgt.uncommitted, "remote", "fulfill")}
    /\ UNCHANGED <<src, links, preimages, envVars, refunded, rewound>>

\* The client of the target may answer HTLC h.
Answerable(h) ==
    /\ Status(tgt) \in {"Active", "Errored"}
    /\ h \in tgt.lcss.outgoing_htlcs /\ ~RemoteResolved(tgt.uncommitted, h)

\* handle_update_fulfill: settling a hosted HTLC is always in time.
TargetFulfill(h) ==
    /\ Answerable(h) /\ "fence" \notin tgt.errors
    /\ preimages' = preimages \cup {h.pay}
    /\ tgt' = Add(tgt, RemoteFulfill(h))
    /\ \E ok \in BOOLEAN : ResolveForwardFulfill(h.id, ok)
    /\ UNCHANGED <<loop, envVars, history>>

\* handle_update_fail and handle_update_fail_malformed
TargetFail(h) ==
    /\ Answerable(h)
    /\ tgt' = Add(tgt, RemoteFail(h))
    /\ UNCHANGED <<src, links, preimages, loop, envVars, history>>

\* handle_reply_preimages, from the client of the target
ReplyPreimages(p) ==
    /\ p \notin preimages /\ preimages' = preimages \cup {p}
    /\ UNCHANGED <<src, tgt, links, loop, envVars, history>>

\* An error of a client, or one that the host has with what it sends
ClientErrors ==
    /\ \/ src' = Error(src, "other") /\ tgt' = tgt
       \/ tgt' = Error(tgt, "other") /\ src' = src
    /\ UNCHANGED <<links, preimages, loop, envVars, history>>

\* handle_lcss with a state that the host has signed on top of its own
SourceAdopts ==
    \E U \in src.signed :
       /\ src' = Fold(src, U)
       /\ refunded' = refunded \cup HtlcsOf(U, "local", "fail")
       /\ rewound' = (rewound \/ \E u \in src.uncommitted \ U : u.side = "local")
       /\ UNCHANGED <<tgt, links, preimages, loop, envVars, paid>>

TargetAdopts ==
    \E U \in tgt.signed :
       /\ tgt' = Fold(tgt, U)
       /\ paid' = paid \cup {h.pay : h \in HtlcsOf(U, "remote", "fulfill")}
       /\ rewound' = (rewound \/ \E u \in tgt.uncommitted \ U : u.side = "local")
       /\ UNCHANGED <<src, links, preimages, loop, envVars, refunded>>

\* Mutant: links are not looked up.
UndispatchedOrNot == {p \in src.lcss.incoming_htlcs : ~LocalResolved(src.uncommitted, p)}

\* recover_channel_htlcs of the source leaves what is linked to the target to it.
Undispatched ==
    {p \in src.lcss.incoming_htlcs :
        ~LocalResolved(src.uncommitted, p) /\ LinksFor(links, p) = {}}

\* recover_outgoing_htlcs
Fulfillable ==
    {h \in tgt.lcss.outgoing_htlcs : ~RemoteResolved(tgt.uncommitted, h) /\ h.pay \in preimages}

\* handle_connect, handle_invoke and, for the source, recover_committed_htlcs at startup
SourceConnects ==
    /\ Status(src) = "Active"
    /\ loop' = [loop EXCEPT !.dispatch = Undispatched]
    /\ UNCHANGED <<src, tgt, links, preimages, envVars, history>>

\* For the target too; nothing is recovered if a pending channel update cannot be sent.
TargetConnects ==
    /\ gone' = FALSE
    /\ \/ Status(tgt) = "Active" /\ loop' = [loop EXCEPT !.fulfill = {h.id : h \in Fulfillable}]
       \/ loop' = loop
    /\ UNCHANGED <<src, tgt, links, preimages, onion, heard, history>>

\* handle_disconnect
TargetDisconnects ==
    /\ ~gone /\ gone' = TRUE
    /\ UNCHANGED <<src, tgt, links, preimages, loop, onion, heard, history>>

\* The plugin stops, between two rounds of a loop if need be, and starts.
Restart ==
    /\ gone \/ loop # Done
    /\ gone' = FALSE /\ loop' = Done
    /\ UNCHANGED <<src, tgt, links, preimages, onion, heard, history>>

-----------------------------------------------------------------------------
(* The operator and the watchdog                                           *)

\* propose_override with the balance that the host has; the error it writes if there
\* is no local one goes unnoticed among "other" errors.
Proposes(c) ==
    [c EXCEPT !.proposed = [local_updates |-> c.lcss.local_updates + 1,
                            remote_updates |-> c.lcss.remote_updates + 1,
                            local_balance |-> c.balance.local]]
CanPropose(c) ==
    /\ Status(c) \in {"Errored", "Overriding"}
    /\ c.lcss.local_updates < MaxUpdates /\ c.lcss.remote_updates < MaxUpdates

ProposeOverride ==
    /\ \/ CanPropose(src) /\ src' = Proposes(src) /\ tgt' = tgt
       \/ CanPropose(tgt) /\ tgt' = Proposes(tgt) /\ src' = src
    /\ UNCHANGED <<links, preimages, loop, envVars, history>>

\* The state of the override: no HTLCs
Overrides(c, capacity) ==
    [c EXCEPT !.lcss = [local_updates |-> c.proposed.local_updates,
                        remote_updates |-> c.proposed.remote_updates,
                        incoming_htlcs |-> {}, outgoing_htlcs |-> {}],
              !.balance = [local |-> c.proposed.local_balance,
                           remote |-> capacity - c.proposed.local_balance],
              !.uncommitted = {}, !.signed = {}]

\* handle_override_acceptance
Accepts(c, capacity) == [Overrides(c, capacity) EXCEPT !.errors = {}, !.proposed = NoOverride]

AcceptOverride ==
    /\ \/ Status(src) = "Overriding" /\ src' = Accepts(src, SourceFunds) /\ tgt' = tgt
       \/ Status(tgt) = "Overriding" /\ tgt' = Accepts(tgt, TargetFunds) /\ src' = src
    /\ UNCHANGED <<links, preimages, loop, envVars, history>>

\* handle_lcss with the override, which the client has accepted
IsAhead(c) ==
    /\ c.proposed.local_updates >= c.lcss.local_updates
    /\ c.proposed.remote_updates >= c.lcss.remote_updates
    /\ \/ c.proposed.local_updates # c.lcss.local_updates
       \/ c.proposed.remote_updates # c.lcss.remote_updates

AdoptOverride ==
    /\ \/ /\ src.proposed # NoOverride /\ IsAhead(src)
          /\ src' = Overrides(src, SourceFunds) /\ tgt' = tgt
       \/ /\ tgt.proposed # NoOverride /\ IsAhead(tgt)
          /\ tgt' = Overrides(tgt, TargetFunds) /\ src' = src
    /\ UNCHANGED <<links, preimages, loop, envVars, history>>

\* Mutant: another error, which handle_update_fulfill does not honour
CommitTimeoutOther(h) ==
    /\ Status(tgt) = "Active" /\ h \in LocalAdds(tgt.uncommitted) /\ h.id \in DOMAIN links
    /\ tgt' = Error(tgt, "other")
    /\ \E ok \in BOOLEAN : ResolveForwardFail(h.id, ok)
    /\ UNCHANGED <<preimages, loop, envVars, history>>

\* enforce_forward_deadlines on the target: an add not committed for 30 s.  The link
\* of a hosted HTLC has no upstream expiry, so that no other deadline concerns it.
CommitTimeout(h) ==
    /\ Status(tgt) = "Active" /\ h \in LocalAdds(tgt.uncommitted) /\ h.id \in DOMAIN links
    /\ tgt' = Error(tgt, "fence")
    /\ \E ok \in BOOLEAN : ResolveForwardFail(h.id, ok)
    /\ UNCHANGED <<preimages, loop, envVars, history>>

-----------------------------------------------------------------------------
\* The HTLCs that the client of the target could still claim
Live == tgt.lcss.outgoing_htlcs \cup LocalAdds(tgt.uncommitted)

\* A handler begins.
Handler ==
    \/ \E p \in Payments : SourceAdd(p)
    \/ \E p \in Replied : ReplyPreimages(p)
    \/ SourceCommit \/ SourceAdopts \/ SourceConnects
    \/ \E h \in Live : TargetFulfill(h) \/ TargetFail(h) \/ CommitTimeout(h)
    \/ TargetCommit \/ TargetAdopts \/ TargetConnects \/ TargetDisconnects
    \/ ClientErrors \/ ProposeOverride \/ AcceptOverride \/ AdoptOverride

Next == (loop = Done /\ Handler) \/ DispatchRound \/ FailRound \/ FulfillRound \/ Restart

Spec == Init /\ [][Next]_vars

-----------------------------------------------------------------------------
(* Properties                                                              *)

\* The source's client has HTLC p back, or is about to.
GivenBack(p) == p \in refunded \/ LocalFail(p) \in src.uncommitted

\* The host never stands between two clients with less than it started with: an
\* HTLC is failed back to the client of the source only if the client of the target
\* was not paid for it and can no longer be, because no HTLC forwards it or an error
\* that handle_update_fulfill honours is on record.  So it is in every interleaving of
\* the two channels, through refused deliveries, deadlines, repeated dispatch on
\* reconnects, stops between two HTLCs, overrides and changes of the fee, as long as
\* neither client shows an earlier state that leaves out updates the host has made and
\* no HTLC gets the id of a link that an override has left behind.
GivenBackIsUnpaid ==
    ~rewound => \A p \in Payments : GivenBack(p) =>
                   p \notin paid /\ (\A h \in Live : h.pay = p => "fence" \in tgt.errors)

\* Under the same condition an HTLC of the source is forwarded by at most one HTLC
\* that the client of the target could claim, however often recover_channel_htlcs
\* dispatches it again.
ForwardedByOne ==
    ~rewound => \A g, h \in Live : g.pay = h.pay => g = h

Conserved(l, b, capacity) ==
    /\ b.local >= 0 /\ b.remote >= 0
    /\ b.local + b.remote + InFlight(l) = capacity

\* The funds of each channel add up to its capacity, in the committed state and with
\* what is uncommitted, also when the other channel's handler wrote the update.
PairConserved ==
    /\ Conserved(src.lcss, src.balance, SourceFunds)
    /\ Conserved(NextLcss(src.lcss, src.uncommitted),
                 NextBalance(src.balance, src.uncommitted), SourceFunds)
    /\ Conserved(tgt.lcss, tgt.balance, TargetFunds)
    /\ Conserved(NextLcss(tgt.lcss, tgt.uncommitted),
                 NextBalance(tgt.balance, tgt.uncommitted), TargetFunds)
=============================================================================
