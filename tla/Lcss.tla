-------------------------------- MODULE Lcss --------------------------------
(***************************************************************************)
(* The last cross-signed state of one hosted channel, seen from the host,  *)
(* and the effect on it of a set of uncommitted updates (state.rs,         *)
(* wire/lcss.rs).                                                          *)
(*                                                                         *)
(* An HTLC the host offers to the client (an outgoing HTLC) forwards one   *)
(* upstream HTLC of a normal channel; its id is the one the host gave it.  *)
(* An HTLC the client offers (an incoming HTLC) is named by the payment it *)
(* makes.  Payment hash, preimage and amount belong to the payment.        *)
(*                                                                         *)
(* The code folds a Vec of updates in order.  The updates a handler lets   *)
(* into that Vec touch pairwise different HTLCs or add before they         *)
(* resolve, so that the order does not matter: the fold is stated here as  *)
(* a function of the SET of updates, and StateManager.tla checks the       *)
(* ordered fold of the code against it.                                    *)
(***************************************************************************)
EXTENDS Integers, FiniteSets, FiniteSetsExt

CONSTANTS
    Upstreams,   \* HTLCs that reach the host on normal channels, to be forwarded
    Payments,    \* HTLCs the client offers, to be paid out on normal channels
    Amount       \* the msat each of them carries

ASSUME AmountAssumption == Amount \in [Upstreams \cup Payments -> Nat]

\* UpdateAddHtlc of an HTLC the host offered.
Outgoing == [id : Nat, pay : Upstreams]

\* PendingUpdate tagged Local or Remote (UncommittedUpdate).
LocalAdd(h) == [side |-> "local", kind |-> "add", htlc |-> h]
RemoteFulfill(h) == [side |-> "remote", kind |-> "fulfill", htlc |-> h]
RemoteFail(h) == [side |-> "remote", kind |-> "fail", htlc |-> h]
RemoteAdd(p) == [side |-> "remote", kind |-> "add", htlc |-> p]
LocalFulfill(p) == [side |-> "local", kind |-> "fulfill", htlc |-> p]
LocalFail(p) == [side |-> "local", kind |-> "fail", htlc |-> p]

Update == [side : {"local"}, kind : {"add"}, htlc : Outgoing]
     \cup [side : {"remote"}, kind : {"fulfill", "fail"}, htlc : Outgoing]
     \cup [side : {"remote"}, kind : {"add"}, htlc : Payments]
     \cup [side : {"local"}, kind : {"fulfill", "fail"}, htlc : Payments]

\* The HTLCs the updates of one side and kind are about.
HtlcsOf(U, side, kind) == {u.htlc : u \in {x \in U : x.side = side /\ x.kind = kind}}

LocalAdds(U) == HtlcsOf(U, "local", "add")
RemoteAdds(U) == HtlcsOf(U, "remote", "add")

\* Mutants: a check for resolutions that looks for fulfils only.
RemoteFulfilled(U, h) == RemoteFulfill(h) \in U
LocalFulfilled(U, p) == LocalFulfill(p) \in U

\* has_uncommitted_remote_resolution and has_uncommitted_local_resolution
RemoteResolved(U, h) == RemoteFulfill(h) \in U \/ RemoteFail(h) \in U
LocalResolved(U, p) == LocalFulfill(p) \in U \/ LocalFail(p) \in U

\* What an update adds to the host's and to the client's balance.
LocalGain(u) ==
    CASE u.side = "local" /\ u.kind = "add" -> -Amount[u.htlc.pay]
      [] u.side = "local" /\ u.kind = "fulfill" -> Amount[u.htlc]
      [] u.side = "remote" /\ u.kind = "fail" -> Amount[u.htlc.pay]
      [] OTHER -> 0

RemoteGain(u) ==
    CASE u.side = "remote" /\ u.kind = "add" -> -Amount[u.htlc]
      [] u.side = "remote" /\ u.kind = "fulfill" -> Amount[u.htlc.pay]
      [] u.side = "local" /\ u.kind = "fail" -> Amount[u.htlc]
      [] OTHER -> 0

\* StateManager::lcss_next: balances,
NextBalance(b, U) == [local  |-> b.local + SumFunction([u \in U |-> LocalGain(u)]),
                      remote |-> b.remote + SumFunction([u \in U |-> RemoteGain(u)])]

\* Mutant: the host's counter does not count its uncommitted updates.
NextLcssUncounted(l, U) ==
    [local_updates  |-> l.local_updates,
     remote_updates |-> l.remote_updates + Cardinality({u \in U : u.side = "remote"}),
     incoming_htlcs |-> {p \in l.incoming_htlcs \cup RemoteAdds(U) : ~LocalResolved(U, p)},
     outgoing_htlcs |-> {h \in l.outgoing_htlcs \cup LocalAdds(U) : ~RemoteResolved(U, h)}]

\* ... update counters and HTLCs in flight.
NextLcss(l, U) ==
    [local_updates  |-> l.local_updates + Cardinality({u \in U : u.side = "local"}),
     remote_updates |-> l.remote_updates + Cardinality({u \in U : u.side = "remote"}),
     incoming_htlcs |-> {p \in l.incoming_htlcs \cup RemoteAdds(U) : ~LocalResolved(U, p)},
     outgoing_htlcs |-> {h \in l.outgoing_htlcs \cup LocalAdds(U) : ~RemoteResolved(U, h)}]

\* The msat held by the HTLCs in flight.
InFlight(l) == SumFunctionOnSet(Amount, l.incoming_htlcs)
             + SumFunction([h \in l.outgoing_htlcs |-> Amount[h.pay]])
=============================================================================
