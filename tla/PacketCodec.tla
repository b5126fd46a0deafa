----------------------------- MODULE PacketCodec -----------------------------
(***************************************************************************)
(* The messages this library marshals itself, as nanopb makes them: the    *)
(* Packet of send(), its way back in process(), and the pulse of           *)
(* PacketDAO.c.  Fields describes them as Messages does.                   *)
(***************************************************************************)
EXTENDS ProtoBuffCodec, PacketFormat

\* The Packet send() builds, its crc that of its data.
PacketMessage(packet) ==
  1 :> <<packet.data>> @@ 2 :> <<Bits(packet.sequence_number)>>
    @@ 3 :> <<calculate_crc(packet.data)>> @@ 4 :> <<Bits(FlagValue(packet.flag))>>

MarshalledPacket(packet) == marshal("Packet", PacketMessage(packet), Packet_size, TRUE)

\* explicit_unmarshal() of a buffer with packet_parser() as its callback, up to the packet
\* that ProtoBuff.decode() finds.  A flag beyond FIRSTLAST is none of the two it tests for,
\* like CONTINUE.
UnmarshalledPacket(stream, noPacket) ==
  LET body == _unmarshal(stream, TRUE)
      r == pb_decode("Packet", body.value, Zeroed("Packet"))
      flag == Number(r.value[4][1])
  IN  IF ~body.ok THEN noPacket
      ELSE IF ~r.ok THEN noPacket
      ELSE [data |-> r.value[1][1],
            flag |-> IF flag < 4 THEN FlagNames[flag + 1] ELSE "CONTINUE"]

-----------------------------------------------------------------------------
MESSAGE_SIZE == 300
PULSE == 6                 \* NeoPixelMsg_Pattern_PULSE

Color(green, red, blue) == 1 :> <<Bits(green)>> @@ 2 :> <<Bits(red)>> @@ 3 :> <<Bits(blue)>>

\* The optional end_color and delay are not set, the brightness is 0.
NeoPixel(start_color, pattern) ==
  1 :> <<start_color>> @@ 2 :> <<>> @@ 3 :> <<Bits(0)>> @@ 4 :> <<Bits(pattern)>> @@ 5 :> <<>>

PulseMessage ==
  [Zeroed("UnionMessage") EXCEPT ![7] = <<NeoPixel(Color(229, 42, 62), PULSE)>>]

MarshalledPulse == marshal("UnionMessage", PulseMessage, MESSAGE_SIZE, TRUE)
=============================================================================
