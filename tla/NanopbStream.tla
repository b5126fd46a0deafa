---------------------------- MODULE NanopbStream ----------------------------
(***************************************************************************)
(* The wire format of nanopb 0.3.9.3: what pb_decode.c reads from a buffer *)
(* and what pb_encode.c writes into one, below the level of messages.      *)
(*                                                                         *)
(* An input stream is the sequence of the bytes it has left.  A reading    *)
(* operator returns what it read and the bytes left after it, those also   *)
(* when it fails.  An integer of up to 64 bits is the set of its one bits. *)
(***************************************************************************)
EXTENDS Integers, SequencesExt

Bits(n) == {k \in 0..30 : (n \div 2^k) % 2 = 1}
ByteBits == [b \in 0..255 |-> Bits(b)]

\* As a number; what does not fit 30 bits counts as 2^30, beyond every length in use.
Number(bits) ==
  IF bits \subseteq 0..29 THEN MapThenSumSet(LAMBDA k : 2^k, bits) ELSE 2^30

ShiftLeft(bits, n) == {k + n : k \in bits}
ShiftRight(bits, n) == {k - n : k \in {b \in bits : b >= n}}
Low(bits, width) == bits \cap (0..width-1)

\* A width-bit integer in two's complement as a 64-bit one.
SignExtended(bits, width) == IF width - 1 \in bits THEN bits \union (width..63) ELSE bits

Drop(stream, n) == SubSeq(stream, n + 1, Len(stream))

Value(v, rest) == [ok |-> TRUE, value |-> v, rest |-> rest]
Failed(rest) == [ok |-> FALSE, rest |-> rest]

-----------------------------------------------------------------------------
(* Input. *)

pb_read(stream, n) ==
  IF Len(stream) < n THEN Failed(stream) ELSE Value(SubSeq(stream, 1, n), Drop(stream, n))

\* Where the varint at the beginning of the stream ends, 0 if the stream ends first.
VarintEnd(stream) ==
  LET ends == {k \in DOMAIN stream : stream[k] < 128} IN IF ends = {} THEN 0 ELSE Min(ends)

\* Seven bits of each byte, the lowest first.
VarintBits(bytes) ==
  UNION {ShiftLeft(ByteBits[bytes[k] % 128], 7 * (k - 1)) : k \in DOMAIN bytes}

\* At most ten bytes, of which 64 bits are used.
pb_decode_varint(stream) ==
  LET n == VarintEnd(stream) IN
  IF n \in 1..10 THEN Value(Low(VarintBits(SubSeq(stream, 1, n)), 64), Drop(stream, n))
  ELSE Failed(Drop(stream, 10))

\* 32 bits.  More than five bytes are taken if the further ones are zeros or the sign of a
\* negative 64-bit value; five must not hold more than 32 bits.
pb_decode_varint32(stream) ==
  LET n == VarintEnd(stream)
      last == IF n = 0 THEN Len(stream) ELSE n
      value == Low(VarintBits(SubSeq(stream, 1, IF last < 5 THEN last ELSE 5)), 32)
      Sign(k) == IF k < 10 THEN 255 ELSE 1
      Overflows(k) == stream[k] % 128 # 0 /\ ~(31 \in value /\ stream[k] = Sign(k))
      bad == {k \in 6..last : Overflows(k)}
  IN  IF bad # {} THEN Failed(Drop(stream, Min(bad)))
      ELSE IF n = 0 THEN Failed(<<>>)
      ELSE IF n = 5 /\ stream[5] >= 16 THEN Failed(Drop(stream, 5))
      ELSE Value(value, Drop(stream, n))

\* eof tells the end of the message, of the stream or at a tag of 0, from an error.
pb_decode_tag(stream) ==
  LET r == pb_decode_varint32(stream) IN
  IF ~r.ok THEN [ok |-> FALSE, eof |-> stream = <<>>, rest |-> r.rest]
  ELSE IF r.value = {} THEN [ok |-> FALSE, eof |-> TRUE, rest |-> r.rest]
  ELSE [ok |-> TRUE, eof |-> FALSE, rest |-> r.rest,
        tag |-> Number(ShiftRight(r.value, 3)), wire |-> Number(Low(r.value, 3))]

WT_VARINT == 0
WT_64BIT  == 1
WT_STRING == 2
WT_32BIT  == 5

pb_skip_varint(stream) ==
  IF VarintEnd(stream) = 0 THEN Failed(<<>>) ELSE Value({}, Drop(stream, VarintEnd(stream)))

\* A length and as many bytes: what pb_skip_string() passes over, and the substream between
\* pb_make_string_substream() and pb_close_string_substream().
LengthDelimited(stream) ==
  LET length == pb_decode_varint32(stream) IN
  IF ~length.ok THEN length ELSE pb_read(length.rest, Number(length.value))

pb_skip_field(stream, wire) ==
  CASE wire = WT_VARINT -> pb_skip_varint(stream)
    [] wire = WT_64BIT  -> pb_read(stream, 8)
    [] wire = WT_STRING -> LengthDelimited(stream)
    [] wire = WT_32BIT  -> pb_read(stream, 4)
    [] OTHER            -> Failed(stream)

\* The bytes of one scalar, a varint of at most ten.
read_raw_value(stream, wire) ==
  CASE wire = WT_VARINT -> IF VarintEnd(stream) \in 1..10 THEN pb_read(stream, VarintEnd(stream))
                           ELSE Failed(Drop(stream, 10))
    [] wire = WT_64BIT  -> pb_read(stream, 8)
    [] wire = WT_32BIT  -> pb_read(stream, 4)
    [] OTHER            -> Failed(stream)

UnZigZag(bits) ==
  IF 0 \in bits THEN (0..63) \ ShiftRight(bits, 1) ELSE ShiftRight(bits, 1)
pb_decode_svarint(stream) ==
  LET r == pb_decode_varint(stream) IN IF r.ok THEN Value(UnZigZag(r.value), r.rest) ELSE r

\* Little endian.
FixedBits(bytes) == UNION {ShiftLeft(ByteBits[bytes[k]], 8 * (k - 1)) : k \in DOMAIN bytes}
pb_decode_fixed(stream, width) ==
  LET r == pb_read(stream, width) IN IF r.ok THEN Value(FixedBits(r.value), r.rest) ELSE r
pb_decode_fixed32(stream) == pb_decode_fixed(stream, 4)
pb_decode_fixed64(stream) == pb_decode_fixed(stream, 8)

-----------------------------------------------------------------------------
(* Output. *)

\* bytes in a buffer of max bytes: pb_write() refuses the first write that would not fit.
pb_write(max, bytes) == [ok |-> Len(bytes) <= max, bytes |-> bytes]

Group(bits, n, width) == Number(Low(ShiftRight(bits, n * width), width))

pb_encode_varint(bits) ==
  LET n == IF bits = {} THEN 1 ELSE Max(bits) \div 7 + 1 IN
  [k \in 1..n |-> Group(bits, k - 1, 7) + IF k < n THEN 128 ELSE 0]

DoubledOnly(bits) == pb_encode_varint(Low(ShiftLeft(bits, 1), 64))   \* a mutant
pb_encode_svarint(bits) ==
  LET doubled == Low(ShiftLeft(bits, 1), 64) IN
  pb_encode_varint(IF 63 \in bits THEN (0..63) \ doubled ELSE doubled)

pb_encode_fixed32(bits) == [k \in 1..4 |-> Group(bits, k - 1, 8)]
pb_encode_fixed64(bits) == [k \in 1..8 |-> Group(bits, k - 1, 8)]

pb_encode_tag(wire, number) == pb_encode_varint(ShiftLeft(Bits(number), 3) \union Bits(wire))

pb_encode_string(bytes) == pb_encode_varint(Bits(Len(bytes))) \o bytes
=============================================================================
