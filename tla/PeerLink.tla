------------------------------ MODULE PeerLink ------------------------------
(***************************************************************************)
(* The messages between the host and one client as bytes (main.rs          *)
(* handle_custommsg, channel.rs send_message): a client frames all it      *)
(* sends in one way, the host learns that way from the first frame it      *)
(* decodes on a connection and answers in it, and forgets it with the      *)
(* connection, with the channel or when the plugin restarts.               *)
(*                                                                         *)
(* lightningd's events about one peer are handled in order.  The client is *)
(* external: it frames and decodes one way, strict or legacy, and may      *)
(* change it between connections (another version of the wallet).          *)
(***************************************************************************)
EXTENDS Wire

CONSTANTS
    Says,         \* what a client of each framing may send: [Framing -> messages]
    HostSays,     \* what the host may send,
    Answers,      \* ... and those of it that handlers answer with
    MaxInTransit, \* bound on the frames on their way, both directions together
    TlvBytes,     \* the bytes of the TLV streams that clients send,
    MaxTlv        \* ... and a bound on their length

Framing == {"Strict", "Legacy"}

VARIABLES
    connected,
    framing,    \* how the client frames its messages
    encoding,   \* peer_wire_encodings: what the host knows of it, or "none"
    toHost, toClient,  \* frames on their way, with the messages they were made of;
                       \* known: the host had heard the client when it sent this one
    got, told,  \* the message whose handler runs at the host and at the client
    heard       \* history: a message of this connection was decoded since the start

vars == <<connected, framing, encoding, toHost, toClient, got, told, heard>>

None == [kind |-> "none", fields |-> <<>>]

Init ==
    /\ connected = FALSE /\ framing \in Framing /\ encoding = "none"
    /\ toHost = <<>> /\ toClient = <<>>
    /\ got = None /\ told = None /\ heard = FALSE

\* The client connects, with either framing.
Connect(f) ==
    /\ ~connected /\ connected' = TRUE /\ framing' = f
    /\ UNCHANGED <<encoding, toHost, toClient, got, told, heard>>

\* Mutant: the framing outlives the connection.
DisconnectKeeps ==
    /\ connected /\ connected' = FALSE
    /\ toHost' = <<>> /\ toClient' = <<>>
    /\ UNCHANGED <<framing, encoding, got, told, heard>>

\* handle_disconnect
Disconnect ==
    /\ connected /\ connected' = FALSE
    /\ encoding' = "none" /\ heard' = FALSE
    /\ toHost' = <<>> /\ toClient' = <<>>
    /\ UNCHANGED <<framing, got, told>>

\* The plugin restarts under a lightningd that keeps the connection.
Restart ==
    /\ encoding # "none"
    /\ encoding' = "none" /\ heard' = FALSE /\ got' = None
    /\ UNCHANGED <<connected, framing, toHost, toClient, told>>

\* remove_channel forgets it too.
RemoveChannel ==
    /\ encoding # "none"
    /\ encoding' = "none" /\ heard' = FALSE
    /\ UNCHANGED <<connected, framing, toHost, toClient, got, told>>

\* What each side sends waits until the client is done with what it was told, and
\* what the client sends until the host's handler is done.
Room == Len(toHost) + Len(toClient) < MaxInTransit /\ told = None

ClientSends(m) ==
    /\ connected /\ Room /\ got = None
    /\ CanEncode(m, framing)
    /\ toHost' = Append(toHost, [sent |-> m, frame |-> Encode(m, framing)])
    /\ UNCHANGED <<connected, framing, encoding, toClient, got, told, heard>>

\* handle_custommsg: a frame that does not decode is dropped, one that does
\* tells the framing (note_peer_wire_encoding) and goes to its handler.
HostHears ==
    LET d == DecodeLegacyAware(Head(toHost).frame) IN
    /\ toHost # <<>> /\ got = None
    /\ toHost' = Tail(toHost)
    /\ \/ /\ ~d.message.ok
          /\ UNCHANGED <<encoding, got, heard>>
       \/ /\ d.message.ok
          /\ encoding' = d.encoding /\ heard' = TRUE
          /\ got' = d.message.value
    /\ UNCHANGED <<connected, framing, toClient, told>>

\* peer_wire_encoding
PeerWireEncoding == IF encoding = "none" THEN "Strict" ELSE encoding

\* send_message and send_channel_update; lightningd refuses a custommsg for a
\* peer that is gone.
HostSends(m) ==
    /\ connected /\ Room
    /\ CanEncode(m, PeerWireEncoding)
    /\ toClient' = Append(toClient, [sent |-> m, frame |-> Encode(m, PeerWireEncoding),
                                     known |-> heard])
    /\ UNCHANGED <<connected, framing, encoding, toHost, got, told, heard>>

\* The kinds that handle_custommsg has no handler for
Ignored == {"state_override", "init_hosted_channel", "hosted_channel_branding",
            "announcement_signature", "query_public_hosted_channels",
            "reply_public_hosted_channels_end", "phc_channel_update_gossip",
            "phc_channel_update_sync"}

\* The handler of a message answers it; other messages (hooks, timers, commands)
\* wait until no handler runs.
HostAnswers(m) == got # None /\ got.kind \notin Ignored /\ HostSends(m)
HostStarts(m) == got = None /\ HostSends(m)

HandlerEnds ==
    /\ got # None /\ got' = None
    /\ UNCHANGED <<connected, framing, encoding, toHost, toClient, told, heard>>

\* The client decodes a frame by its own framing.  What it makes of one that was
\* sent before the host knew its framing is its own affair.
ClientHears ==
    LET f == Head(toClient)
        m == IF framing = "Strict" THEN DecodeStrict(f.frame) ELSE DecodeLegacy(f.frame)
    IN /\ toClient # <<>> /\ told = None
       /\ toClient' = Tail(toClient)
       /\ told' = IF f.known /\ m.ok THEN m.value ELSE told
       /\ UNCHANGED <<connected, framing, encoding, toHost, got, heard>>

ClientEnds ==
    /\ told # None /\ told' = None
    /\ UNCHANGED <<connected, framing, encoding, toHost, toClient, got, heard>>

Next ==
    \/ \E f \in Framing : Connect(f) \/ \E m \in Says[f] : framing = f /\ ClientSends(m)
    \/ Disconnect \/ Restart \/ RemoveChannel \/ HostHears \/ HandlerEnds \/ ClientHears \/ ClientEnds
    \/ \E m \in Answers : HostAnswers(m)
    \/ \E m \in HostSays : HostStarts(m)

Spec == Init /\ [][Next]_vars

-----------------------------------------------------------------------------
(* Properties                                                              *)

\* The TLV streams of records of types that increase and that are odd or from
\* 2^32 on, every number in its shortest form.
Optional == {n \in 0..(Base^W64 - 1) : n % 2 = 1 \/ n >= HighRange}
Types == {n \in Optional : Range(WriteVarint(n)) \subseteq TlvBytes}

StreamsFrom[least \in Nat, len \in Nat] ==
    {<<>>} \cup
    UNION {LET tag == WriteVarint(t) IN
           UNION {LET r == tag \o LengthDelimited(v)
                  IN IF Len(r) > len THEN {} ELSE {r \o s : s \in StreamsFrom[t + 1, len - Len(r)]}
                  : v \in IF Len(tag) < len THEN BoundedSeq(TlvBytes, len - Len(tag) - 1) ELSE {}}
           : t \in {x \in Types : x >= least}}

CanonicalStreams == StreamsFrom[0, MaxTlv]

\* The last field is a TLV stream that a canonical writer does not make of optional
\* records.
Malformed(m) == Last(Layout[m.kind]) = "tlv" /\ Last(m.fields) \notin CanonicalStreams

AllMessages == Says["Strict"] \cup Says["Legacy"]

Sent(link) == [i \in 1..Len(link) |-> link[i].sent]

Link == INSTANCE TypedLink WITH
    Messages <- AllMessages, Refused <- Malformed, None <- None,
    up <- Sent(toHost), down <- Sent(SelectSeq(toClient, LAMBDA f : f.known)),
    got <- got, told <- told

\* Bytes implement messages.  What encode_with_encoding writes in either framing,
\* decode_legacy_aware reads as the very message that was sent, whichever framing
\* the client turns out to use; a message is refused if and only if its TLV stream
\* (validate_tlv_stream) says something that must be understood, is out of order
\* or is not in its shortest form.  And once the host has heard a client on a
\* connection, the client can decode all it is sent, over reconnects with another
\* framing, restarts of the plugin and removals of the channel: handle_disconnect
\* forgets the old framing before it can garble an answer.
CarriesMessages == Link!Spec

\* decode_legacy_aware: "Decode strict `tag || body` framing or legacy
\* `tag || u16_len || body` framing".  Whatever the host hands to a handler is what
\* the client sent.
HeardAsSent == [][got' # got /\ got' # None => got' = Head(toHost).sent]_vars

\* What the signature of a state is to fix: who is host, the refund script,
\* capacity and first balance, day, balances, counters and HTLCs.
Signed(l) == <<l.fields[1], l.fields[2], l.fields[3][4], l.fields[3][5], SubSeq(l.fields, 4, 10)>>

\* Two last_cross_signed_states with equally many HTLCs and equally long refund
\* scripts have the same bytes signed (hosted_sig_hash of the reverse) only if they
\* agree on all that the sides owe each other, also after a trip over the wire:
\* no field of one can pass for a field of the other.
SignatureFixesState ==
    got.kind = "last_cross_signed_state" =>
       \A k \in {m \in Says["Strict"] : m.kind = got.kind} :
          /\ \A j \in {2, 9, 10} : Len(k.fields[j]) = Len(got.fields[j])
          /\ SigMaterial(ReverseLcss(k)) = SigMaterial(ReverseLcss(got))
          => Signed(k) = Signed(got)
=============================================================================
