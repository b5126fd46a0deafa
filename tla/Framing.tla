------------------------------- MODULE Framing -------------------------------
(***************************************************************************)
(* From a marshalled Packet to the bytes of its frame and back, as send()  *)
(* and process() do it.  What nanopb makes of a Packet is a parameter:     *)
(* PacketCodec has nanopb's own, which the instances put in its place.     *)
(***************************************************************************)
EXTENDS Cobs, PacketFormat

CONSTANTS
  Residue,          \* what the stack may hold where decoded_data_array is not written
  Marshalled(_),    \* marshal() of a packet into Packet_size bytes: its result and bytes
  Unmarshalled(_)   \* the packet packet_parser() finds in a buffer

\* The bytes send() passes to tx_handler for a packet, delimiter included.
Stuffing(packet) == cobs_encode(Packet_size + 1, Marshalled(packet).bytes)
WithoutDelimiter(packet) == Stuffing(packet).out                 \* a mutant
EncodePacket(packet) == Stuffing(packet).out \o <<0>>

\* The packets process(), which does not look at the status of the decoding, may see in a
\* frame: decoded_data_array has as many bytes as the
\* frame, cobs_decode() writes fewer, the rest is whatever was on the stack.
DecodeFrame(frame) ==
  LET written == cobs_decode(Len(frame), frame).out IN
  {Unmarshalled(written \o tail) : tail \in [1..Len(frame) - Len(written) -> Residue]}
=============================================================================
