------------------------------- MODULE Onion -------------------------------
(***************************************************************************)
(* Onion packets (sphinx.rs): a payer wraps a payload for each hop, each   *)
(* hop peels its layer off and passes the rest on, and a failure comes     *)
(* back wrapped for the payer.  The host makes packets for direct payments *)
(* and peels those of its clients.                                         *)
(*                                                                         *)
(* Cryptography is ideal.  A byte under encryption is the set of the       *)
(* things XORed into it: exclusive or is symmetric difference, a zero byte *)
(* is {}, a keystream or an HMAC a sequence of atoms that name their key   *)
(* and data.  A public key is the set of the scalars that the generator is *)
(* multiplied by, so that ecdh gives both sides the same secret.  The size *)
(* of a packet is right: decoding an update_add_htlc sees to it.           *)
(***************************************************************************)
EXTENDS Codecs, FiniteSetsExt

CONSTANTS
    RoutingInfo,   \* ONION_ROUTING_INFO_SIZE (1300)
    HmacWidth,     \* bytes of an HMAC (32)
    FailureWidth,  \* bytes of a failure (256)
    SecretWidth,   \* bytes of a payment secret (32)
    Routes,        \* what payers send: sequences of payloads, a payload a sequence of
                   \* records [type, value, long], long: the type not in its shortest form
    Directs,       \* what the operator pays: [amount, cltv, secret], secret <<>> or bytes
    Hashes,        \* payment hashes
    Codes          \* failure codes, as bytes

ASSUME OnionAssumption ==
    {RoutingInfo, HmacWidth, FailureWidth, SecretWidth} \subseteq Nat \ {0}

-----------------------------------------------------------------------------
(* Payloads                                                                *)

\* read_bigsize and write_bigsize: as read_varint and write_varint
ReadBigsize(b) == ReadVarint(b)
WriteBigsize(v) == WriteVarint(v)

\* be_tu: a number in its shortest form, of at most max bytes
BeTu(v, max) == v # <<>> /\ Len(v) <= max /\ (Len(v) > 1 => v[1] # 0)

\* The records of a TLV payload, types strictly increasing.  The end of a value
\* is computed without overflow.
RECURSIVE ReadRecords(_, _)
ReadRecords(b, least) ==
    IF b = <<>> THEN Got(<<>>, b)
    ELSE Then(ReadBigsize(b), LAMBDA t, rest :
             IF t < least THEN Fail
             ELSE Then(ReadBigsize(rest), LAMBDA n, rest2 :
                  Then(ReadBytes(rest2, n), LAMBDA v, rest3 :
                  Then(ReadRecords(rest3, t + 1), LAMBDA more, none :
                       Got(<<[type |-> t, value |-> v]>> \o more, none)))))

RecordOk(r) ==
    CASE r.type = 2 -> BeTu(r.value, W64)
      [] r.type = 4 -> BeTu(r.value, W32)
      [] r.type = 6 -> Len(r.value) = W64
      [] r.type \in {8, 16, 18} -> TRUE
      [] OTHER -> r.type % 2 = 1   \* 10 and 12: blinded payloads are not supported

Unreadable == [ok |-> FALSE, scid |-> 0, amount |-> 0, cltv |-> 0, final |-> FALSE]

\* parse_tlv_payload
ParseTlvPayload(b, final) ==
    LET records == ReadRecords(b, 0)
        Of(t) == {r \in Range(records.value) : r.type = t}
        Field(t) == IF Of(t) = {} THEN 0 ELSE Number((CHOOSE r \in Of(t) : TRUE).value)
    IN IF /\ records.ok /\ \A r \in Range(records.value) : RecordOk(r)
          /\ Of(2) # {} /\ Of(4) # {} /\ (final \/ Of(6) # {})
       THEN [ok |-> TRUE, scid |-> Field(6), amount |-> Field(2), cltv |-> Field(4), final |-> final]
       ELSE Unreadable

\* The bytes of v without leading zeros; write_tlv_u64 keeps one for 0.
NonZeroBytes(v) == BigEndian(v, Cardinality({w \in 0..(W64 - 1) : v >= Base^w}))
WriteTlvU64(t, v) == WriteBigsize(t) \o LengthDelimited(IF v = 0 THEN <<0>> ELSE NonZeroBytes(v))

\* build_payload; a secret comes with the total amount.
BuildPayload(amount, cltv, scid, secret) ==
    WriteTlvU64(2, amount) \o WriteTlvU64(4, cltv)
    \o (IF scid = 0 THEN <<>> ELSE WriteBigsize(6) \o LengthDelimited(BigEndian(scid, W64)))
    \o (IF secret = <<>> THEN <<>>
        ELSE LET total == NonZeroBytes(amount)
             IN WriteBigsize(8) \o LengthDelimited(secret \o <<Len(total)>> \o total))

-----------------------------------------------------------------------------
(* Cells: bytes under encryption                                           *)

Plain(b) == [i \in 1..Len(b) |-> IF b[i] = 0 THEN {} ELSE {<<"byte", b[i]>>}]
Zeros(n) == [i \in 1..n |-> {}]

\* The bytes in cells that nothing hides
ByteOf(c) == IF c = {} THEN 0 ELSE (CHOOSE a \in c : TRUE)[2]
Bytes(s) == [i \in 1..Len(s) |-> ByteOf(s[i])]

\* xor_in_place, chacha20_stream, hmac_sha256
Xor(s, t) == [i \in 1..Len(s) |-> SymDiff(s[i], t[i])]
Stream(key, n) == [i \in 1..n |-> {<<"stream", key, i>>}]
Hmac(key, data) == [i \in 1..HmacWidth |-> {<<"hmac", key, data, i>>}]

\* derive_keys
Key(name, secret) == <<name, secret>>

\* ecdh, blinding_factor, blind_pubkey; the keys of a node and of a session
Ecdh(secret, public) == <<"ecdh", secret \cup public>>
BlindingFactor(public, secret) == <<"blind", public, secret>>
BlindPubkey(public, factor) == public \cup {factor}
NodeKey(i) == {<<"node", i>>}
SessionKey == {<<"session", 0>>}

-----------------------------------------------------------------------------
(* Packets                                                                 *)

\* The ephemeral key for hop i of a route to nodes 1, 2, ..., and its secret
EphemeralAt[i \in Nat] ==
    IF i <= 1 THEN SessionKey
    ELSE LET k == EphemeralAt[i - 1]
         IN BlindPubkey(k, BlindingFactor(k, Ecdh(k, NodeKey(i - 1))))
SecretAt(i) == Ecdh(EphemeralAt[i], NodeKey(i))

\* encoded_hop_data_len
HopDataLen(payload) == Len(WriteBigsize(Len(payload))) + Len(payload) + HmacWidth

\* Mutant: the filler comes from the start of the extended stream.
FillerAtStart(payloads) ==
    IF Len(payloads) < 2 THEN <<>>
    ELSE SubSeq(Stream(Key("rho", SecretAt(1)), 2 * RoutingInfo), 1, HopDataLen(payloads[1]))

\* What hop 1 will have shifted in at the end when hop 2 checks the HMAC
Filler(payloads) ==
    IF Len(payloads) < 2 THEN <<>>
    ELSE SubSeq(Stream(Key("rho", SecretAt(1)), 2 * RoutingInfo),
                RoutingInfo + 1, RoutingInfo + HopDataLen(payloads[1]))

\* create_payment_onion succeeds: one or two hops, no payload and no filler is too
\* large.
CanCreate(payloads) ==
    /\ Len(payloads) \in 1..2
    /\ \A i \in 1..Len(payloads) : HopDataLen(payloads[i]) <= RoutingInfo
    /\ Len(Filler(payloads)) <= RoutingInfo - HopDataLen(Last(payloads))

\* The routing info and HMAC for hop i, from the last hop to the first
RECURSIVE Layer(_, _, _)
Layer(payloads, hash, i) ==
    IF i > Len(payloads) THEN [info |-> Zeros(RoutingInfo), hmac |-> Zeros(HmacWidth)]
    ELSE LET next == Layer(payloads, hash, i + 1)
             data == Plain(WriteBigsize(Len(payloads[i])) \o payloads[i]) \o next.hmac
             shifted == data \o SubSeq(next.info, 1, RoutingInfo - Len(data))
             mixed == Xor(shifted, Stream(Key("rho", SecretAt(i)), RoutingInfo))
             filler == IF i = Len(payloads) THEN Filler(payloads) ELSE <<>>
             info == SubSeq(mixed, 1, RoutingInfo - Len(filler)) \o filler
         IN [info |-> info, hmac |-> Hmac(Key("mu", SecretAt(i)), <<info, hash>>)]

\* create_payment_onion
CreatePaymentOnion(payloads, hash, version) ==
    LET first == Layer(payloads, hash, 1)
    IN [version |-> version, ephemeral |-> SessionKey, info |-> first.info, hmac |-> first.hmac]

NoPacket == [version |-> 0, ephemeral |-> {}, info |-> <<>>, hmac |-> <<>>]

\* peel_onion by node i, for an HTLC with this payment hash: what the hop learns,
\* the packet for the next hop, the secret for failures
PeelOnion(i, onion, hash) ==
    LET secret == Ecdh(NodeKey(i), onion.ephemeral)
        open == Xor(onion.info \o Zeros(RoutingInfo), Stream(Key("rho", secret), 2 * RoutingInfo))
        length == ReadBigsize(Bytes(open))
        start == 2 * RoutingInfo - Len(length.rest)
        end == start + length.value
        nextHmac == SubSeq(open, end + 1, end + HmacWidth)
        final == nextHmac = Zeros(HmacWidth)
        fields == ParseTlvPayload(Bytes(SubSeq(open, start + 1, end)), final)
        factor == BlindingFactor(onion.ephemeral, secret)
    IN IF /\ onion.version = 0
          /\ Hmac(Key("mu", secret), <<onion.info, hash>>) = onion.hmac
          /\ length.ok /\ length.value >= 2
          /\ end + HmacWidth <= RoutingInfo
          /\ fields.ok
       THEN [fields |-> fields, secret |-> secret,
             next |-> IF final THEN NoPacket
                      ELSE [version |-> onion.version,
                            ephemeral |-> BlindPubkey(onion.ephemeral, factor),
                            info |-> SubSeq(open, end + HmacWidth + 1, end + HmacWidth + RoutingInfo),
                            hmac |-> nextHmac]]
       ELSE [fields |-> Unreadable, secret |-> secret, next |-> NoPacket]

\* Mutant: the length is left out.
WrapFailureBare(secret, failure) ==
    Xor(SubSeq(failure \o Zeros(FailureWidth), 1, FailureWidth), Stream(Key("um", secret), FailureWidth))

\* wrap_failure: a length, the failure, padding, all of it cut to FailureWidth
WrapFailure(secret, failure) ==
    Xor(SubSeq(Plain(BigEndian(Len(failure), W16)) \o failure \o Zeros(FailureWidth), 1, FailureWidth),
        Stream(Key("um", secret), FailureWidth))

-----------------------------------------------------------------------------
(* A payment on its way                                                    *)

VARIABLES
    route,    \* the payloads for the hops
    direct,   \* the direct payment that this is: at most one
    hash,     \* its payment hash
    packet,   \* the packet at hop at
    at,
    learnt,   \* what each hop so far has learnt by peeling,
    secrets,  \* ... and its secret for failures
    reply,    \* the failure on its way back at hop at, as cells, or NoReply
    failure,  \* the failure that the last hop wrapped
    told      \* what the payer reads of it, or NoReply

vars == <<route, direct, hash, packet, at, learnt, secrets, reply, failure, told>>

NoReply == <<>>

Init ==
    /\ route = <<>> /\ direct = <<>> /\ hash \in Hashes
    /\ packet = NoPacket /\ at = 0 /\ learnt = <<>> /\ secrets = <<>>
    /\ reply = NoReply /\ failure = NoReply /\ told = NoReply

\* The payload that a payer makes of records; only payers write a type in a longer
\* form than needed.
RecordBytes(r) ==
    (IF r.long THEN <<Base - 3>> \o BigEndian(r.type, W16) ELSE WriteBigsize(r.type))
    \o LengthDelimited(r.value)
PayloadBytes(records) == FlattenSeq([i \in 1..Len(records) |-> RecordBytes(records[i])])

\* A payer sends a payment to the end of a route.
Pay(r, version) ==
    LET payloads == [i \in 1..Len(r) |-> PayloadBytes(r[i])] IN
    /\ at = 0 /\ CanCreate(payloads)
    /\ route' = r /\ at' = 1
    /\ packet' = CreatePaymentOnion(payloads, hash, version)
    /\ UNCHANGED <<direct, hash, learnt, secrets, reply, failure, told>>

\* create_single_hop_onion, for send_direct_payment
PayDirectly(d) ==
    LET payload == BuildPayload(d.amount, d.cltv, 0, d.secret) IN
    /\ at = 0 /\ CanCreate(<<payload>>)
    /\ route' = <<<<>>>> /\ direct' = <<d>> /\ at' = 1
    /\ packet' = CreatePaymentOnion(<<payload>>, hash, 0)
    /\ UNCHANGED <<hash, learnt, secrets, reply, failure, told>>

\* Hop at peels, for an HTLC with hash h, and passes on what is left.
Peel(h) ==
    LET peeled == PeelOnion(at, packet, h) IN
    /\ packet # NoPacket /\ reply = NoReply
    /\ learnt' = Append(learnt, [fields |-> peeled.fields, hash |-> h, version |-> packet.version])
    /\ secrets' = Append(secrets, peeled.secret)
    /\ packet' = peeled.next
    /\ at' = IF peeled.next = NoPacket THEN at ELSE at + 1
    /\ UNCHANGED <<route, direct, hash, reply, failure, told>>

\* failure_onion_for_peer_htlc: the last hop that could read its payload refuses the
\* payment.
FailHtlc(code) ==
    /\ learnt # <<>> /\ Last(learnt).fields.ok /\ failure = NoReply
    /\ failure' = Plain(code)
    /\ reply' = WrapFailure(Last(secrets), Plain(code))
    /\ at' = Len(learnt) /\ packet' = NoPacket
    /\ UNCHANGED <<route, direct, hash, learnt, secrets, told>>

\* wrap_forward_failure: hop 1 wraps the failure of hop 2.
ForwardFailure ==
    /\ reply # NoReply /\ at = 2
    /\ reply' = WrapFailure(secrets[1], reply) /\ at' = 1
    /\ UNCHANGED <<route, direct, hash, packet, learnt, secrets, failure, told>>

\* One layer of a failure taken off by the payer, as it was put on, or NoReply
Unwrap(secret, cells) ==
    LET open == Xor(cells, Stream(Key("um", secret), Len(cells)))
        n == Number(Bytes(SubSeq(open, 1, W16)))
    IN IF W16 + n > Len(open) THEN NoReply ELSE SubSeq(open, W16 + 1, W16 + n)

\* The payer, who knows every secret, reads the failure.
ReadFailure ==
    /\ reply # NoReply /\ at = 1 /\ told = NoReply
    /\ told' = LET outer == Unwrap(SecretAt(1), reply)
               IN IF Len(learnt) = 2 /\ outer # NoReply THEN Unwrap(SecretAt(2), outer) ELSE outer
    /\ reply' = NoReply
    /\ UNCHANGED <<route, direct, hash, packet, at, learnt, secrets, failure>>

Next ==
    \/ \E r \in Routes, v \in 0..1 : Pay(r, v)
    \/ \E d \in Directs : PayDirectly(d)
    \/ \E h \in Hashes : Peel(h)
    \/ \E c \in Codes : FailHtlc(c)
    \/ ForwardFailure \/ ReadFailure

Spec == Init /\ [][Next]_vars

-----------------------------------------------------------------------------
(* Properties                                                              *)

\* What the payer means by the records of a payload: every type and number in its
\* shortest form, types in order, none that must be understood and is not, and the
\* fields that a hop of its kind needs.
Means(records, final) ==
    LET rs == Range(records)
        Shortest(r, max) == r.value = <<0>> \/ (Len(r.value) \in 1..max /\ r.value[1] # 0)
        Value(t) == Number((CHOOSE r \in rs : r.type = t).value)
        Has(t) == \E r \in rs : r.type = t
    IN IF /\ \A i \in 1..Len(records) : ~records[i].long /\ (i > 1 => records[i - 1].type < records[i].type)
          /\ \A r \in rs : r.type % 2 = 0 => r.type \in {2, 4, 6, 8, 16, 18}
          /\ Has(2) /\ Has(4) /\ (final \/ Has(6))
          /\ \A r \in rs : CASE r.type = 2 -> Shortest(r, W64)
                             [] r.type = 4 -> Shortest(r, W32)
                             [] r.type = 6 -> Len(r.value) = W64
                             [] OTHER -> TRUE
       THEN [ok |-> TRUE, scid |-> IF Has(6) THEN Value(6) ELSE 0, amount |-> Value(2),
             cltv |-> Value(4), final |-> final]
       ELSE Unreadable

\* What hop i is to learn when the HTLC that brings the packet has this hash
Meant(i, l) ==
    CASE l.hash # hash \/ l.version # 0 -> Unreadable
      [] direct # <<>> -> [ok |-> TRUE, scid |-> 0, amount |-> direct[1].amount,
                               cltv |-> direct[1].cltv, final |-> TRUE]
      [] OTHER -> Means(route[i], i = Len(route))

\* Whatever create_payment_onion wraps, peel_onion gives each hop the payload meant
\* for it and no other hop's, and tells the last hop and only the last one that it is
\* the last: shifting, the keystream's tail and the filler fit together for every
\* length of the two payloads, up to the largest that fit.  A packet that belongs to
\* another payment, or a payload that says something a hop must understand and does
\* not, is refused at the first hop it concerns, and no hop after it is reached.
HopsLearnTheirPayload ==
    /\ \A i \in 1..Len(learnt) : learnt[i].fields = Meant(i, learnt[i])
    /\ \A i \in 1..(Len(learnt) - 1) : learnt[i].fields.ok /\ ~learnt[i].fields.final

\* A failure that the payer's first hop wraps (failure_onion_for_peer_htlc) is the
\* failure the payer reads.
FailureReadable == told # NoReply /\ Len(learnt) = 1 => told = failure
=============================================================================
