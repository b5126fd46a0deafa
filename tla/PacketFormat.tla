---------------------------- MODULE PacketFormat ----------------------------
(***************************************************************************)
(* A Packet and its checksum: the flags and size of packetserial.proto and *)
(* its .options, calculate_crc(), and the bytes the wire format of         *)
(* Protocol Buffers makes of a Packet.  A CRC is the set of its one bits.  *)
(***************************************************************************)
EXTENDS Integers, SequencesExt

CONSTANT DATA_MAX   \* sizeof(Packet.data.bytes)

\* send() fills all of data but one byte, and takes at least one.  Up to 117 bytes of data
\* the length before a marshalled Packet takes one byte; packetserial.options has 16.
ASSUME DataMaxAssumption == DATA_MAX \in 2..117

-----------------------------------------------------------------------------
(* CRC-8, polynomial x^8 + x^2 + x + 1. *)

Bit == 0..7
BitsOf == [byte \in 0..255 |-> {k \in Bit : (byte \div 2^k) % 2 = 1}]
ByteOf(bits) ==
  LET weight(k) == IF k \in bits THEN 2^k ELSE 0 IN
  weight(0) + weight(1) + weight(2) + weight(3) + weight(4) + weight(5) + weight(6) + weight(7)

Xor(a, b) == {k \in Bit : ~(k \in a <=> k \in b)}

\* To the left; the highest bit, if it is set, comes back as 0x07.
ShiftBit(d) ==
  LET shifted == {k \in Bit : k - 1 \in d} IN
  IF 7 \in d THEN Xor(shifted, {0, 1, 2}) ELSE shifted
Remainder ==
  [d \in SUBSET Bit |->
     LET after[k \in 0..8] == IF k = 0 THEN d ELSE ShiftBit(after[k-1]) IN after[8]]

Crc8(crc, byte) == Remainder[Xor(crc, BitsOf[byte])]

checksum(data) ==                                                \* a mutant
  LET after[k \in 0..Len(data)] == IF k = 0 THEN 0 ELSE (after[k-1] + data[k]) % 256
  IN  BitsOf[after[Len(data)]]
calculate_crc(data) ==
  LET after[k \in 0..Len(data)] == IF k = 0 THEN {} ELSE Crc8(after[k-1], data[k])
  IN  after[Len(data)]

-----------------------------------------------------------------------------
(* The Packet message: data = 1, sequence_number = 2, crc = 3, flag = 4. *)

FlagNames == <<"FIRST", "CONTINUE", "LAST", "FIRSTLAST">>
Flags == {FlagNames[k] : k \in 1..4}
FlagValue(flag) == (CHOOSE k \in 1..4 : FlagNames[k] = flag) - 1

\* The largest marshalled Packet as the generator computes it: beside tags and the length it
\* counts five bytes for a uint32, also where int_size narrows the field, and one for the flag.
OneBytePerVarint == DATA_MAX + 8            \* a mutant
Packet_size == DATA_MAX + 16

\* A Packet in the wire format, its crc that of its data, behind its length.  Bytes have tag
\* and wire type 2, numbers wire type 0; a number from 128 on takes two bytes.
Varint(n) == IF n < 128 THEN <<n>> ELSE <<128 + (n % 128), n \div 128>>
Body(packet) ==
  <<10, Len(packet.data)>> \o packet.data
    \o <<16>> \o Varint(packet.sequence_number)
    \o <<24>> \o Varint(ByteOf(calculate_crc(packet.data)))
    \o <<32, FlagValue(packet.flag)>>
Wire(packet) == <<Len(Body(packet))>> \o Body(packet)
=============================================================================
