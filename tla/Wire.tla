-------------------------------- MODULE Wire --------------------------------
(***************************************************************************)
(* The hosted-channel messages and their framing (wire/mod.rs,             *)
(* wire/lcss.rs).  A message is its kind and the sequence of its fields;   *)
(* the encode and decode methods of its struct write and read the fields   *)
(* in one order, which is the kind's layout.                               *)
(*                                                                         *)
(* A frame is a tag and the bytes after it: the body (Strict), or the body *)
(* behind a u16 length (Legacy).                                           *)
(***************************************************************************)
EXTENDS Codecs

-----------------------------------------------------------------------------
(* Layouts: the types of the fields                                        *)

InvokeHostedChannel == <<"hash", "varsize", "varsize">>
InitHostedChannel == <<"u64o", "u64o", "u16", "u64o", "u64o", "u16s">>
StateUpdate == <<"u32", "u32", "u32", "sig">>
StateOverride == <<"u32", "u64o", "u32", "u32", "sig">>
HostedChannelBranding == <<"rgb", "png", "utf8">>
AnnouncementSignature == <<"sig", "bool">>
ResizeChannel == <<"u64o", "sig">>
QueryPublicHostedChannels == <<"hash">>
ReplyPublicHostedChannelsEnd == <<"hash">>
QueryPreimages == <<"hashes">>
ReplyPreimages == <<"hashes">>
AskBrandingInfo == <<"hash">>
UpdateAddHtlc == <<"hash", "u64o", "u64o", "hash", "u32", "onion", "tlv">>
UpdateFulfillHtlc == <<"hash", "u64o", "hash", "tlv">>
UpdateFailHtlc == <<"hash", "u64o", "varsize", "tlv">>
UpdateFailMalformedHtlc == <<"hash", "u64o", "hash", "u16", "tlv">>
HcError == <<"hash", "varsize", "tlv">>
ChannelUpdate == <<"sig", "hash", "u64", "u32", "one", "u8", "u16", "u64o",
                   "u32", "u32", "u64o", "tlv">>

\* is_host, refund script, init, block day, balances, update counters, HTLCs and
\* signatures
LastCrossSignedState == <<"bool", "varsize", "init", "u32", "u64o", "u64o", "u32", "u32",
                          "htlcs", "htlcs", "sig", "sig">>

\* HostedMessage::tag; a channel_update has one tag for gossip and one for sync.
Tag ==
    [invoke_hosted_channel |-> 65535, init_hosted_channel |-> 65533,
     last_cross_signed_state |-> 65531, state_update |-> 65529, state_override |-> 65527,
     hosted_channel_branding |-> 65525, announcement_signature |-> 65523,
     resize_channel |-> 65521, query_public_hosted_channels |-> 65519,
     reply_public_hosted_channels_end |-> 65517, query_preimages |-> 65515,
     reply_preimages |-> 65513, ask_branding_info |-> 65511, update_add_htlc |-> 63505,
     update_fulfill_htlc |-> 63503, update_fail_htlc |-> 63501,
     update_fail_malformed_htlc |-> 63499, error |-> 63497,
     phc_channel_update_gossip |-> 64509, phc_channel_update_sync |-> 64507]

Kinds == DOMAIN Tag

Layout ==
    [invoke_hosted_channel |-> InvokeHostedChannel, init_hosted_channel |-> InitHostedChannel,
     last_cross_signed_state |-> LastCrossSignedState, state_update |-> StateUpdate,
     state_override |-> StateOverride, hosted_channel_branding |-> HostedChannelBranding,
     announcement_signature |-> AnnouncementSignature, resize_channel |-> ResizeChannel,
     query_public_hosted_channels |-> QueryPublicHostedChannels,
     reply_public_hosted_channels_end |-> ReplyPublicHostedChannelsEnd,
     query_preimages |-> QueryPreimages, reply_preimages |-> ReplyPreimages,
     ask_branding_info |-> AskBrandingInfo, update_add_htlc |-> UpdateAddHtlc,
     update_fulfill_htlc |-> UpdateFulfillHtlc, update_fail_htlc |-> UpdateFailHtlc,
     update_fail_malformed_htlc |-> UpdateFailMalformedHtlc, error |-> HcError,
     phc_channel_update_gossip |-> ChannelUpdate, phc_channel_update_sync |-> ChannelUpdate]

-----------------------------------------------------------------------------
(* Fields                                                                  *)

\* The bytes of a type that always takes as many.
Width == [u8 |-> 1, one |-> 1, u16 |-> W16, u32 |-> W32, u64 |-> W64, u64o |-> W64,
          bool |-> 1, rgb |-> 3, hash |-> HashWidth, sig |-> SigWidth, onion |-> OnionWidth]

\* std::str::from_utf8, of ASCII text: longer sequences are left out.
Utf8(d) == \A i \in 1..Len(d) : d[i] < Base \div 2

\* A type that stands for a list of another, and one that stands for a struct
ElementOf == [u16s |-> "u16", hashes |-> "hash", htlcs |-> "htlc"]
StructOf == [init |-> InitHostedChannel, htlc |-> UpdateAddHtlc]

\* The fields that encode writes; it returns an EncodeError for others.  A
\* png_icon is an Option, here a sequence of at most one blob.
RECURSIVE Encodable(_, _)
Encodable(t, v) ==
    CASE t = "u64o" -> v <= OverflowMax
      [] t = "onion" -> Len(v) = OnionWidth
      [] t = "varsize" -> FitsVarsize(v)
      [] t = "utf8" -> FitsVarsize(v) /\ Utf8(v)
      [] t = "png" -> v # <<>> => FitsVarsize(v[1])
      [] t \in DOMAIN ElementOf -> \A i \in 1..Len(v) : Encodable(ElementOf[t], v[i])
      [] t \in DOMAIN StructOf -> \A i \in 1..Len(v) : Encodable(StructOf[t][i], v[i])
      [] OTHER -> TRUE

\* A list is written behind its length, a struct inside another one behind its
\* length in bytes.
RECURSIVE WriteField(_, _)
WriteFields(layout, fields) ==
    FlattenSeq([i \in 1..Len(layout) |-> WriteField(layout[i], fields[i])])

WriteField(t, v) ==
    CASE t \in {"u8", "one", "u16", "u32", "u64", "u64o"} -> BigEndian(v, Width[t])
      [] t = "bool" -> <<IF v THEN 1 ELSE 0>>
      [] t \in {"hash", "sig", "onion", "rgb", "tlv"} -> v
      [] t \in {"varsize", "utf8"} -> Varsize(v)
      [] t = "png" -> IF v = <<>> THEN <<0>> ELSE <<1>> \o Varsize(v[1])
      [] t \in DOMAIN ElementOf ->
            BigEndian(Len(v), W16) \o FlattenSeq([i \in 1..Len(v) |-> WriteField(ElementOf[t], v[i])])
      [] t \in DOMAIN StructOf -> LengthDelimited(WriteFields(StructOf[t], v))

RECURSIVE ReadField(_, _)
RECURSIVE ReadFields(_, _)

\* The struct or list whose fields have the types of layout
ReadFields(layout, b) ==
    IF layout = <<>> THEN Got(<<>>, b)
    ELSE Then(ReadField(Head(layout), b), LAMBDA v, rest :
             Then(ReadFields(Tail(layout), rest), LAMBDA vs, rest2 : Got(<<v>> \o vs, rest2)))

\* ... and nothing after it
ReadWhole(layout, b) ==
    Then(ReadFields(layout, b), LAMBDA v, rest : IF rest = <<>> THEN Got(v, rest) ELSE Fail)

ReadField(t, b) ==
    CASE t \in {"u8", "u16", "u32", "u64"} -> ReadUint(b, Width[t])
      [] t = "one" -> Then(ReadUint(b, 1), LAMBDA v, rest : IF v = 1 THEN Got(v, rest) ELSE Fail)
      [] t = "u64o" -> ReadU64Overflow(b)
      [] t = "bool" -> ReadBool(b)
      [] t \in {"hash", "sig", "onion", "rgb"} -> ReadBytes(b, Width[t])
      [] t = "varsize" -> ReadVarsize(b)
      [] t = "utf8" -> Then(ReadVarsize(b), LAMBDA v, rest : IF Utf8(v) THEN Got(v, rest) ELSE Fail)
      [] t = "tlv" -> IF ValidateTlvStream(b) THEN Got(b, <<>>) ELSE Fail
      [] t = "png" -> Then(ReadBool(b), LAMBDA has, rest :
                          IF has THEN Then(ReadVarsize(rest), LAMBDA v, rest2 : Got(<<v>>, rest2))
                          ELSE Got(<<>>, rest))
      [] t \in DOMAIN ElementOf -> Then(ReadUint(b, W16), LAMBDA n, rest :
                                       ReadFields([i \in 1..n |-> ElementOf[t]], rest))
      [] t \in DOMAIN StructOf -> Then(ReadLengthDelimited(b), LAMBDA body, rest :
                                      Then(ReadWhole(StructOf[t], body), LAMBDA v, none : Got(v, rest)))

-----------------------------------------------------------------------------
(* Frames                                                                  *)

\* encode_body
Body(m) == WriteFields(Layout[m.kind], m.fields)

\* encode_with_encoding, and when it succeeds
Encode(m, encoding) ==
    [tag |-> Tag[m.kind], bytes |-> IF encoding = "Strict" THEN Body(m) ELSE Varsize(Body(m))]

CanEncode(m, encoding) ==
    /\ \A i \in 1..Len(m.fields) : Encodable(Layout[m.kind][i], m.fields[i])
    /\ encoding = "Legacy" => FitsVarsize(Body(m))

\* decode_with_tag, of the whole of b
DecodeBody(tag, b) ==
    IF \E k \in Kinds : Tag[k] = tag
    THEN LET k == CHOOSE x \in Kinds : Tag[x] = tag
         IN Then(ReadWhole(Layout[k], b), LAMBDA v, none : Got([kind |-> k, fields |-> v], none))
    ELSE Fail

\* HostedMessage::decode
DecodeStrict(f) == DecodeBody(f.tag, f.bytes)

DecodeLegacy(f) ==
    Then(ReadVarsize(f.bytes), LAMBDA body, rest :
        IF rest = <<>> THEN DecodeBody(f.tag, body) ELSE Fail)

\* decode_legacy_aware: strict first
DecodeLegacyAware(f) ==
    IF DecodeStrict(f).ok THEN [message |-> DecodeStrict(f), encoding |-> "Strict"]
    ELSE [message |-> DecodeLegacy(f), encoding |-> "Legacy"]

-----------------------------------------------------------------------------
(* What is signed of a last_cross_signed_state                             *)

\* reverse: the state as the other side sees it
ReverseLcss(l) ==
    [l EXCEPT !.fields = [@ EXCEPT ![1] = ~@, ![5] = l.fields[6], ![6] = l.fields[5],
                                   ![7] = l.fields[8], ![8] = l.fields[7],
                                   ![9] = l.fields[10], ![10] = l.fields[9],
                                   ![11] = l.fields[12], ![12] = l.fields[11]]]

\* Mutant: the counter of the other side's updates is left out.
SigMaterialUncounted(l) ==
    LET f == l.fields
        Bodies(hs) == FlattenSeq([i \in 1..Len(hs) |-> WriteFields(UpdateAddHtlc, hs[i])])
    IN f[2] \o LittleEndian(f[3][4], W64) \o LittleEndian(f[3][5], W64)
       \o LittleEndian(f[4], W32) \o LittleEndian(f[5], W64) \o LittleEndian(f[6], W64)
       \o LittleEndian(f[7], W32)
       \o Bodies(f[9]) \o Bodies(f[10]) \o <<IF f[1] THEN 1 ELSE 0>>

\* The bytes hosted_sig_hash hashes, to be signed by sign (over the reverse) and
\* checked by verify_remote_sig.
SigMaterial(l) ==
    LET f == l.fields
        Bodies(hs) == FlattenSeq([i \in 1..Len(hs) |-> WriteFields(UpdateAddHtlc, hs[i])])
    IN f[2] \o LittleEndian(f[3][4], W64) \o LittleEndian(f[3][5], W64)
       \o LittleEndian(f[4], W32) \o LittleEndian(f[5], W64) \o LittleEndian(f[6], W64)
       \o LittleEndian(f[7], W32) \o LittleEndian(f[8], W32)
       \o Bodies(f[9]) \o Bodies(f[10]) \o <<IF f[1] THEN 1 ELSE 0>>
=============================================================================
