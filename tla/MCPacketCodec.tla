---------------------------- MODULE MCPacketCodec ----------------------------
(***************************************************************************)
(* TLC instance of PacketFrames with nanopb's own Packet of PacketCodec.   *)
(***************************************************************************)
EXTENDS PacketFrames, PacketCodec, Messages

CONSTANTS
  MaxLen,      \* every sequence of ByteValue up to this length is data
  NoPacket

MCFields == ApplicationFields @@ [Packet |-> Packet_fields(DATA_MAX)]

\* Behind MaxLen the last byte is repeated, up to DATA_MAX bytes.  TLC evaluates a definition of
\* a constant value once, but what a .cfg puts in the place of a constant at every use: hence
\* two names.
AllData ==
  UNION {[1..n -> ByteValue] : n \in 0..MaxLen} \union
  {[k \in 1..n |-> data[IF k < MaxLen THEN k ELSE MaxLen]] :
     data \in [1..MaxLen -> ByteValue], n \in MaxLen..DATA_MAX}
MCData == AllData

\* Bodies that start with a LET are leaves for TLC's coverage, which otherwise follows every
\* path of calls through the codec.
MCMarshalled(p) == LET r == MarshalledPacket(p) IN r
MCUnmarshalled(stream) == LET p == UnmarshalledPacket(stream, NoPacket) IN p
MCPulse == LET r == MarshalledPulse IN r
=============================================================================
