------------------------------- MODULE Codecs -------------------------------
(***************************************************************************)
(* The byte codecs of the wire messages (wire/codecs.rs).  A buffer is a   *)
(* sequence of bytes, a byte a digit of Base (256), and u16, u32 and u64   *)
(* take W16, W32 and W64 bytes (2, 4 and 8), so that small instances have  *)
(* every boundary of the real ones: the three prefixes of a varint are the *)
(* three highest bytes, and uint64overflow is the lower half of a u64.     *)
(*                                                                         *)
(* A reader returns what it read and the rest of the buffer, or Fail (every *)
(* DecodeError).                                                           *)
(***************************************************************************)
EXTENDS Naturals, Sequences, SequencesExt

CONSTANTS Base, W16, W32, W64,
          HashWidth,   \* bytes of a hash, a preimage or a channel id (32)
          SigWidth,    \* bytes of a signature (64)
          OnionWidth   \* ONION_ROUTING_PACKET_SIZE (1366)

ASSUME CodecAssumption ==
    /\ Base \in Nat \ 0..4 /\ 0 < W16 /\ W16 < W32 /\ W32 < W64
    /\ W16 \in Nat /\ W32 \in Nat /\ W64 \in Nat
    /\ {HashWidth, SigWidth, OnionWidth} \subseteq Nat \ {0}

Byte == 0..(Base - 1)

OverflowMax == Base^W64 \div 2 - 1   \* UINT64_OVERFLOW_MAX
HighRange == Base^W32                \* TLV_TYPE_HIGH_RANGE

-----------------------------------------------------------------------------
(* Numbers                                                                 *)

\* put_u8, put_u16, put_u32 and put_u64, and the little-endian ones
BigEndian(v, w) == [i \in 1..w |-> (v \div Base^(w - i)) % Base]
LittleEndian(v, w) == Reverse(BigEndian(v, w))

\* get_u8, get_u16, get_u32 and get_u64
RECURSIVE Number(_)
Number(b) == IF b = <<>> THEN 0 ELSE Number(Front(b)) * Base + Last(b)

Got(v, rest) == [ok |-> TRUE, value |-> v, rest |-> rest]
Fail == [ok |-> FALSE, value |-> 0, rest |-> <<>>]

\* The reader that goes on where r stopped.
Then(r, Reader(_, _)) == IF r.ok THEN Reader(r.value, r.rest) ELSE Fail

\* read_bytes, read_32, read_signature
ReadBytes(b, n) ==
    IF Len(b) < n THEN Fail ELSE Got(SubSeq(b, 1, n), SubSeq(b, n + 1, Len(b)))

\* read_u8, read_u16, read_u32, read_u64
ReadUint(b, w) == Then(ReadBytes(b, w), LAMBDA v, rest : Got(Number(v), rest))

ReadU64Overflow(b) ==
    Then(ReadUint(b, W64), LAMBDA v, rest : IF v > OverflowMax THEN Fail ELSE Got(v, rest))

ReadBool(b) == Then(ReadUint(b, 1), LAMBDA v, rest : Got(v # 0, rest))

\* write_varsize and read_varsize; a longer blob is VarsizeTooLarge
Varsize(d) == BigEndian(Len(d), W16) \o d
FitsVarsize(d) == Len(d) < Base^W16
ReadVarsize(b) == Then(ReadUint(b, W16), LAMBDA n, rest : ReadBytes(rest, n))

-----------------------------------------------------------------------------
(* Varints, length-delimited bodies, TLV streams                           *)

WriteVarint(v) ==
    IF v < Base - 3 THEN <<v>>
    ELSE IF v < Base^W16 THEN <<Base - 3>> \o BigEndian(v, W16)
    ELSE IF v < Base^W32 THEN <<Base - 2>> \o BigEndian(v, W32)
    ELSE <<Base - 1>> \o BigEndian(v, W64)

\* The long forms: a value that fits a shorter one is refused.
ReadLong(b, w, least) ==
    Then(ReadUint(b, w), LAMBDA v, rest : IF v < least THEN Fail ELSE Got(v, rest))

ReadVarint(b) ==
    Then(ReadUint(b, 1), LAMBDA p, rest :
        CASE p = Base - 1 -> ReadLong(rest, W64, HighRange)
          [] p = Base - 2 -> ReadLong(rest, W32, Base^W16)
          [] p = Base - 3 -> ReadLong(rest, W16, Base - 3)
          [] OTHER -> Got(p, rest))

LengthDelimited(d) == WriteVarint(Len(d)) \o d
ReadLengthDelimited(b) == Then(ReadVarint(b), LAMBDA n, rest : ReadBytes(rest, n))

\* validate_tlv_stream: types increase, each even one below 2^32 is unknown.
RECURSIVE ValidTlvFrom(_, _)
ValidTlvFrom(b, least) ==
    b = <<>> \/
    LET tag == ReadVarint(b)
        value == ReadLengthDelimited(tag.rest)
    IN /\ tag.ok /\ value.ok
       /\ tag.value >= least
       /\ tag.value >= HighRange \/ tag.value % 2 = 1
       /\ ValidTlvFrom(value.rest, tag.value + 1)

ValidateTlvStream(b) == ValidTlvFrom(b, 0)
=============================================================================
