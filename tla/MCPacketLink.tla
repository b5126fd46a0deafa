---------------------------- MODULE MCPacketLink ----------------------------
(***************************************************************************)
(* TLC instance of PacketLink with Framing and PacketCodec: three bytes of *)
(* data in a packet, so that a message takes one, two or three packets.    *)
(***************************************************************************)
EXTENDS PacketLink, TLC

CONSTANT Residue
Types == INSTANCE Messages
Codec == INSTANCE PacketCodec WITH Fields <- [Packet |-> Types!Packet_fields(DATA_MAX)]
Marshalled(packet) == Codec!MarshalledPacket(packet)
Unmarshalled(stream) == Codec!UnmarshalledPacket(stream, NoPacket)
Frames == INSTANCE Framing

MCByte == 0..255

\* Zeros, which COBS must hide, at either end and across the packets of a message; a size
\* that is a multiple of the chunk size, of which send() drops the end.
MCMessage ==
  {<<0>>, <<5, 0, 7>>, <<0, 2, 3, 0>>, <<1, 2, 3, 4, 5, 6>>, <<1, 2, 0, 0, 0, 6, 7, 8>>}

\* The packets these messages can become, their frames and what the frames decode to; @@
\* has TLC tabulate these functions instead of evaluating them at every use.
Part(m, from, n) == SubSeq(m, from, IF from + n - 1 < Len(m) THEN from + n - 1 ELSE Len(m))
MCPacket ==
  [data : {Part(m, k, n) : m \in MCMessage, k \in {1, 4, 7}, n \in 0..DATA_MAX},
   sequence_number : 0..2, flag : {"FIRST", "CONTINUE", "LAST", "FIRSTLAST"}]
FrameTable == <<>> @@ [packet \in MCPacket |-> Frames!Stuffing(packet).out]
DecodeTable == <<>> @@ [frame \in {FrameTable[p] : p \in MCPacket} |-> Frames!DecodeFrame(frame)]

\* Bodies that start with a LET are leaves for TLC's coverage, which otherwise follows every
\* path of calls through the codec.
MCEncode(packet) == LET frames == FrameTable IN frames[packet]
MCDecode(frame) ==
  LET table == DecodeTable IN
  IF frame \in DOMAIN table THEN table[frame] ELSE Frames!DecodeFrame(frame)
=============================================================================
