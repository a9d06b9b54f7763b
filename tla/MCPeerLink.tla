----------------------------- MODULE MCPeerLink -----------------------------
(* Small messages of every kind for PeerLink. *)
EXTENDS PeerLink

CONSTANTS
    LegacyKinds,  \* the kinds that legacy clients send
    MaxVaried     \* bound on the unusual fields of a message: [Kinds -> Nat]

MCHtlc == <<<<1, 0>>, 1, OverflowMax, <<0, 1>>, 1, <<1, 0>>, <<>>>>
MCInit(capacity, features) == <<1, 0, 1, capacity, 1, features>>

\* The values a field takes, the usual one first.
MCValues ==
    [u8 |-> <<0, Base - 1>>, one |-> <<1>>, u16 |-> <<1, Base^W16 - 1>>,
     u32 |-> <<1, Base^W32 - 1>>, u64 |-> <<1, Base^W64 - 1>>,
     u64o |-> <<1, 0, OverflowMax, OverflowMax + 1>>, bool |-> <<TRUE, FALSE>>,
     rgb |-> <<<<0, 1, 2>>>>, hash |-> <<<<1, 0>>, <<1, Base - 1>>>>,
     sig |-> <<<<1, 0>>, <<0, Base - 1>>>>, onion |-> <<<<1, 0>>, <<0, 1>>>>,
     varsize |-> <<<<>>, <<1>>, <<0, 0>>>>, utf8 |-> <<<<>>, <<1>>, <<Base - 1>>>>,
     png |-> <<<<>>, <<<<>>>>, <<<<1, 0>>>>>>, tlv |-> <<<<>>, <<1, 0>>>>,
     u16s |-> <<<<>>, <<1>>, <<1, 0>>>>,
     hashes |-> <<<<>>, <<<<1, 0>>>>, <<<<1, 0>>, <<0, 1>>>>>>,
     init |-> <<MCInit(1, <<>>), MCInit(2, <<>>), MCInit(1, <<1>>)>>,
     htlcs |-> <<<<>>, <<MCHtlc>>>>]

\* The messages of a kind with at most MaxVaried[k] unusual fields.
MCMessages(k) ==
    LET n == Len(Layout[k])
        usual == [i \in 1..n |-> MCValues[Layout[k][i]][1]]
        Vary(f) == {[f EXCEPT ![i] = MCValues[Layout[k][i]][j]] :
                       <<i, j>> \in {p \in (1..n) \X (1..4) : p[2] <= Len(MCValues[Layout[k][p[1]]])}}
        Varied[v \in 0..MaxVaried[k]] ==
            IF v = 0 THEN {usual} ELSE UNION {Vary(f) : f \in Varied[v - 1]}
    IN {[kind |-> k, fields |-> f] : f \in Varied[MaxVaried[k]]}

\* Two, one where there are many fields
MCMaxVaried == [k \in Kinds |-> IF Len(Layout[k]) > 7 THEN 1 ELSE 2]

MCAll == UNION {MCMessages(k) : k \in Kinds}

MCErrors == {[kind |-> "error", fields |-> <<<<1, 0>>, <<>>, s>>] : s \in BoundedSeq(TlvBytes, MaxTlv)}

\* A legacy client invokes with its chain's hash, which ends in zeros.
MCSays ==
    [Strict |-> MCAll \cup MCErrors,
     Legacy |-> {m \in MCAll : m.kind \in LegacyKinds /\
                    (m.kind = "invoke_hosted_channel" => m.fields[1] = <<0, 0>>)}
        \cup {[kind |-> "invoke_hosted_channel", fields |-> <<<<0, 0>>, r, s>>] :
                 r \in {<<>>, <<1>>, <<0, 0>>}, s \in {<<>>, <<1>>}}]

MCAnswers == {m \in MCMessages("last_cross_signed_state") : Len(m.fields[9]) = 1}
                \cup {m \in MCMessages("reply_preimages") : m.fields[1] = <<>>}
=============================================================================
