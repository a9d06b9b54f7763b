---------------------------- MODULE StateManager ----------------------------
(***************************************************************************)
(* StateManager (state.rs): the ordered fold of a Vec of uncommitted       *)
(* updates into the next state, its error cases included, and reverse()    *)
(* (wire/lcss.rs), the same state as the peer sees it.                     *)
(*                                                                         *)
(* HTLCs of both directions are records here, kept in sequences because    *)
(* the hash both parties sign covers them in order.  Lcss.tla states the   *)
(* result of the fold for a set of updates; AgreesWithLcss ties the two.   *)
(***************************************************************************)
EXTENDS Lcss, Sequences, Folds, Functions

CONSTANTS
    LocalFunds,   \* the two balances of the state the run starts from
    RemoteFunds,
    MaxUpdates    \* bound: updates applied and pending, over both sides

ASSUME FundsAssumption ==
    /\ Upstreams \cap Payments = {}
    /\ LocalFunds \in Nat /\ RemoteFunds \in Nat /\ MaxUpdates \in Nat

VARIABLES
    current,      \* StateManager.lcss
    pending       \* StateManager.uncommitted

smVars == <<current, pending>>

Htlc(id, pay) == [id |-> id, pay |-> pay]

\* Where the updates of a side are in a Vec of updates, and how many they are.
Places(us, side) == {i \in DOMAIN us : us[i].side = side}
LocalCount(us) == Cardinality(Places(us, "local"))
RemoteCount(us) == Cardinality(Places(us, "remote"))
NextLocalUpdates(st, us) == st.local_updates + LocalCount(us)
NextRemoteUpdates(st, us) == st.remote_updates + RemoteCount(us)

\* The place of the first HTLC with an id in a list (position), 0 if there is none,
Place(list, id) ==
    LET I == {i \in 1..Len(list) : list[i].id = id}
    IN  IF I # {} THEN Min(I) ELSE 0

\* ... and the list without what is at a place (Vec::remove).
RemoveAt(list, pos) == SubSeq(list, 1, pos - 1) \o SubSeq(list, pos + 1, Len(list))

-----------------------------------------------------------------------------
(* lcss_next.  The accumulator is a state or the error that ended the fold. *)

Err(e) == [error |-> e]
Failed(acc) == "error" \in DOMAIN acc

\* Mutant: the sender is not debited.
FoldAddFree(st, bal, list, h) ==
    IF Amount[h.pay] > st[bal] THEN Err("NegativeBalance")
    ELSE [st EXCEPT ![list] = Append(@, h)]

\* An add moves its amount from the sender's balance into flight.
FoldAdd(st, bal, list, h) ==
    IF Amount[h.pay] > st[bal] THEN Err("NegativeBalance")
    ELSE [st EXCEPT ![bal] = @ - Amount[h.pay], ![list] = Append(@, h)]

\* Mutant: the HTLC is removed as Vec::swap_remove does, the last taking its place.
FoldResolveSwap(st, list, u, bal) ==
    LET pos == Place(st[list], u.htlc.id)
    IN  IF pos = 0 THEN Err("HtlcNotFound")
        ELSE [st EXCEPT ![bal] = @ + Amount[st[list][pos].pay],
                        ![list] = [i \in 1..(Len(@) - 1) |-> @[IF i = pos THEN Len(@) ELSE i]]]

\* A resolution removes the first HTLC with its id and credits one side.
FoldResolve(st, list, u, bal) ==
    LET pos == Place(st[list], u.htlc.id)
    IN  IF pos = 0 THEN Err("HtlcNotFound")
        ELSE IF u.kind = "fulfill" /\ st[list][pos].pay # u.htlc.pay THEN Err("WrongPreimage")
        ELSE [st EXCEPT ![bal] = @ + Amount[st[list][pos].pay],
                        ![list] = RemoveAt(@, pos)]

FoldUpdate(acc, u) ==
    IF Failed(acc) THEN acc ELSE
    CASE u.side = "local" /\ u.kind = "add" ->
             FoldAdd(acc, "local_balance", "outgoing_htlcs", u.htlc)
      [] u.side = "remote" /\ u.kind = "add" ->
             FoldAdd(acc, "remote_balance", "incoming_htlcs", u.htlc)
      [] u.side = "local" /\ u.kind = "fulfill" ->
             FoldResolve(acc, "incoming_htlcs", u, "local_balance")
      [] u.side = "remote" /\ u.kind = "fulfill" ->
             FoldResolve(acc, "outgoing_htlcs", u, "remote_balance")
      [] u.side = "local" /\ u.kind = "fail" ->
             FoldResolve(acc, "incoming_htlcs", u, "remote_balance")
      [] u.side = "remote" /\ u.kind = "fail" ->
             FoldResolve(acc, "outgoing_htlcs", u, "local_balance")

\* The updates folded in order, the one with the greatest index last.
Folded(st, us) ==
    MapThenFoldSet(LAMBDA u, acc : FoldUpdate(acc, u), st,
                   LAMBDA i : us[i], LAMBDA S : Max(S), DOMAIN us)

LcssNext(st, us) ==
    LET r == Folded(st, us)
    IN  IF Failed(r) THEN r
        ELSE [r EXCEPT !.local_updates = NextLocalUpdates(st, us),
                       !.remote_updates = NextRemoteUpdates(st, us)]

\* Mutant: the HTLC lists are not swapped.
ReverseBalances(st) ==
    [st EXCEPT !.local_balance = st.remote_balance, !.remote_balance = st.local_balance,
               !.local_updates = st.remote_updates, !.remote_updates = st.local_updates]

\* LastCrossSignedState::reverse
ReverseView(st) ==
    [local_balance |-> st.remote_balance, remote_balance |-> st.local_balance,
     local_updates |-> st.remote_updates, remote_updates |-> st.local_updates,
     incoming_htlcs |-> st.outgoing_htlcs, outgoing_htlcs |-> st.incoming_htlcs]

-----------------------------------------------------------------------------
(* The operations: push an update a handler of channel.rs would let in,    *)
(* commit, clear.                                                          *)

NextNow == LcssNext(current, pending)

Used == {pending[i].htlc.pay : i \in DOMAIN pending}
        \cup {h.pay : h \in Range(current.incoming_htlcs) \cup Range(current.outgoing_htlcs)}

\* HTLCs of the committed list that no pending update of that side resolves.
Resolvable(list, side) ==
    {h \in Range(current[list]) :
        \A i \in DOMAIN pending :
           ~(pending[i].side = side /\ pending[i].kind # "add" /\ pending[i].htlc.id = h.id)}

Admitted ==
    {[side |-> "local", kind |-> "add", htlc |-> Htlc(NextNow.local_updates + 1, u)] :
        u \in {x \in Upstreams \ Used : Amount[x] <= NextNow.local_balance}}
    \cup
    {[side |-> "remote", kind |-> "add", htlc |-> Htlc(NextNow.remote_updates + 1, p)] :
        p \in {x \in Payments \ Used : Amount[x] <= NextNow.remote_balance}}
    \cup
    {[side |-> "local", kind |-> k, htlc |-> h] :
        k \in {"fulfill", "fail"}, h \in Resolvable("incoming_htlcs", "local")}
    \cup
    {[side |-> "remote", kind |-> k, htlc |-> h] :
        k \in {"fulfill", "fail"}, h \in Resolvable("outgoing_htlcs", "remote")}

Init ==
    /\ current = [local_balance |-> LocalFunds, remote_balance |-> RemoteFunds,
                  local_updates |-> 0, remote_updates |-> 0,
                  incoming_htlcs |-> <<>>, outgoing_htlcs |-> <<>>]
    /\ pending = <<>>

\* add_local, add_remote
Push == /\ current.local_updates + current.remote_updates + Len(pending) < MaxUpdates
        /\ \E u \in Admitted : pending' = Append(pending, u)
        /\ UNCHANGED current

Commit == /\ pending # <<>> /\ ~Failed(NextNow)
          /\ current' = NextNow /\ pending' = <<>>

ClearUncommitted == /\ pending # <<>> /\ pending' = <<>>
                    /\ UNCHANGED current

Next == Push \/ Commit \/ ClearUncommitted

Spec == Init /\ [][Next]_smVars

-----------------------------------------------------------------------------
(* Properties                                                              *)

\* The update as Lcss.tla writes it: incoming HTLCs are named by payment.
AbstractUpdate(u) ==
    IF (u.side = "local") = (u.kind = "add") THEN u ELSE [u EXCEPT !.htlc = u.htlc.pay]

\* What the code's ordered fold computes is what Lcss.tla says of the set of
\* updates, and the fold never fails: whatever handlers have let into
\* uncommitted can be signed and committed.
AgreesWithLcss ==
    LET U == {AbstractUpdate(pending[i]) : i \in DOMAIN pending}
        l == [local_updates |-> current.local_updates,
              remote_updates |-> current.remote_updates,
              incoming_htlcs |-> {h.pay : h \in Range(current.incoming_htlcs)},
              outgoing_htlcs |-> Range(current.outgoing_htlcs)]
        b == [local |-> current.local_balance, remote |-> current.remote_balance]
        n == NextLcss(l, U)
    IN
    /\ ~Failed(NextNow)
    /\ NextBalance(b, U) = [local |-> NextNow.local_balance, remote |-> NextNow.remote_balance]
    /\ n.local_updates = NextNow.local_updates
    /\ n.remote_updates = NextNow.remote_updates
    /\ n.incoming_htlcs = {h.pay : h \in Range(NextNow.incoming_htlcs)}
    /\ n.outgoing_htlcs = Range(NextNow.outgoing_htlcs)

\* How many places of P come up to i, and the n-th place of P.
Rank(P, i) == Cardinality({j \in P : j <= i})
Nth(P, n) == CHOOSE i \in P : Rank(P, i) = n

\* The local updates of us in the places of S and the remote ones in the others,
\* each side in its own order.
Interleaved(us, S) ==
    [i \in DOMAIN us |->
        us[IF i \in S THEN Nth(Places(us, "local"), Rank(S, i))
           ELSE Nth(Places(us, "remote"), Rank(DOMAIN us \ S, i))]]

Interleavings ==
    {Interleaved(pending, S) : S \in kSubset(LocalCount(pending), DOMAIN pending)}

\* Host and client may learn of each other's updates in different orders.
\* Every order the fold accepts yields the same state, the order of the HTLCs
\* included, so that the two can sign the same hash.
OrderIrrelevant ==
    \A us \in Interleavings :
        LET n == LcssNext(current, us) IN Failed(n) \/ n = NextNow

\* An update and a Vec of them as the peer tags them.
Mirror(u) == [u EXCEPT !.side = IF @ = "local" THEN "remote" ELSE "local"]
Mirrored(us) == [i \in DOMAIN us |-> Mirror(us[i])]

\* The client runs the same fold on its own view: folding the mirrored updates
\* into the reversed state gives the reverse of what the host computes.
MirrorCommutes == LcssNext(ReverseView(current), Mirrored(pending)) = ReverseView(NextNow)
=============================================================================
