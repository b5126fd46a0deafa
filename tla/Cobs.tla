-------------------------------- MODULE Cobs --------------------------------
(***************************************************************************)
(* Consistent Overhead Byte Stuffing of cobs-c 0.5.0: COBS, which packets  *)
(* are framed with, and its reduced form COBS/R.  A call returns the bytes *)
(* it wrote and whether its status is OK.                                  *)
(***************************************************************************)
EXTENDS Integers, SequencesExt

Octet == 0..255

COBS_ENCODE_DST_BUF_LEN_MAX(src_len) == src_len + (src_len + 253) \div 254
COBS_DECODE_DST_BUF_LEN_MAX(src_len) == IF src_len = 0 THEN 0 ELSE src_len - 1
COBSR_DECODE_DST_BUF_LEN_MAX(src_len) == src_len

-----------------------------------------------------------------------------
(* Encoding. *)

LongBlock == 254

Including(s, first, end) == SubSeq(s, first, Min({end, Len(s)})) \* a mutant: with the zero
Block(s, first, end) == SubSeq(s, first, end - 1)

\* Where the block that begins at first ends: a zero ends it and is not part of the next, 254
\* bytes with more behind them end it too, and the end of the source ends the last one.
BlockEnd(s, first) ==
  Min({k \in first..Len(s) : s[k] = 0} \union {Len(s) + 1, first + LongBlock})
NextBlock(s, first) ==
  LET end == BlockEnd(s, first) IN IF end = first + LongBlock THEN end ELSE end + 1

Coded(block) == <<Len(block) + 1>> \o block

\* COBS/R: a last byte that is not less than the code of its block takes the code's place.
ReducedIfOneLess(block) ==                                       \* a mutant
  IF block # <<>> /\ Last(block) >= Len(block) THEN <<Last(block)>> \o Front(block)
  ELSE Coded(block)
Reduced(block) ==
  IF block # <<>> /\ Last(block) > Len(block) THEN <<Last(block)>> \o Front(block)
  ELSE Coded(block)

\* What is written from each position on at which a block may begin.
StuffedFrom(s, reduced) ==
  LET from[first \in 1..Len(s) + 1] ==
        LET end == BlockEnd(s, first)
            block == Block(s, first, end)
        IN  IF end # Len(s) + 1 THEN Coded(block) \o from[NextBlock(s, first)]
            ELSE IF reduced THEN Reduced(block)
            ELSE Coded(block)
  IN  from
Stuffed(s) == StuffedFrom(s, FALSE)[1]

\* Where it does not fit, part of it is written, which is left out here.
cobs_encode(dst_buf_len, s) ==
  LET out == Stuffed(s) IN
  IF Len(out) <= dst_buf_len THEN [ok |-> TRUE, out |-> out] ELSE [ok |-> FALSE, out |-> <<>>]

\* The room is checked before the last block is reduced.
cobsr_encode(dst_buf_len, s) ==
  IF Len(Stuffed(s)) > dst_buf_len THEN [ok |-> FALSE, out |-> <<>>]
  ELSE [ok |-> TRUE, out |-> StuffedFrom(s, TRUE)[1]]

-----------------------------------------------------------------------------
(* Decoding. *)

NoZero(code) == <<>>                                             \* a mutant
ZeroBehind(code) == IF code = LongBlock + 1 THEN <<>> ELSE <<0>>

Reading(ok, out, missing) == [ok |-> ok, out |-> out, missing |-> missing]

\* A code, as many bytes as it announces less one, and a zero if a block follows.  Zeros are
\* not expected; one in the place of a code ends the decoding.  missing is the last code if
\* it announces more bytes than there are.
Read(s, at, code, next, bytes, rest) ==
  IF at > Len(s) THEN Reading(TRUE, <<>>, <<>>)
  ELSE IF code = 0 THEN Reading(FALSE, <<>>, <<>>)
  ELSE IF next > Len(s)
       THEN Reading(0 \notin Range(bytes), bytes, IF Len(bytes) < code - 1 THEN <<code>> ELSE <<>>)
  ELSE Reading(0 \notin Range(bytes) /\ rest.ok, bytes \o ZeroBehind(code) \o rest.out,
               rest.missing)

\* What is read from each position on at which a code may be.
UnstuffedFrom(s) ==
  LET from[at \in 1..Len(s) + 1] ==
        Read(s, at, s[at], at + s[at], SubSeq(s, at + 1, Min({at + s[at] - 1, Len(s)})),
             from[at + s[at]])
  IN  from
Unstuffed(s) == UnstuffedFrom(s)[1]

\* What does not fit is cut off.
Bounded(dst_buf_len, ok, out) ==
  [ok |-> ok /\ Len(out) <= dst_buf_len, out |-> SubSeq(out, 1, Min({Len(out), dst_buf_len}))]

cobs_decode(dst_buf_len, s) ==
  LET r == Unstuffed(s) IN Bounded(dst_buf_len, r.ok /\ r.missing = <<>>, r.out)

cobsr_decode(dst_buf_len, s) ==
  LET r == Unstuffed(s) IN Bounded(dst_buf_len, r.ok, r.out \o r.missing)

-----------------------------------------------------------------------------
\* In buffers of the sizes cobs.h and cobsr.h ask for, a source comes back as it was, is
\* encoded without a zero, and COBS/R is never the longer one.
RoundTrips(s) ==
  LET room == COBS_ENCODE_DST_BUF_LEN_MAX(Len(s))
      e == cobs_encode(room, s)
      r == cobsr_encode(room, s)
  IN  /\ e.ok /\ r.ok /\ Len(r.out) <= Len(e.out)
      /\ 0 \notin Range(e.out) \union Range(r.out)
      /\ cobs_decode(COBS_DECODE_DST_BUF_LEN_MAX(Len(e.out)), e.out) = [ok |-> TRUE, out |-> s]
      /\ cobsr_decode(COBSR_DECODE_DST_BUF_LEN_MAX(Len(r.out)), r.out) = [ok |-> TRUE, out |-> s]
=============================================================================
