-------------------------- MODULE MCPacketSerialRx --------------------------
(***************************************************************************)
(* TLC instance of PacketSerialRx: five bytes of rx_buffer, three of       *)
(* packet_buffer, and a stand-in codec that has frames of every kind.      *)
(***************************************************************************)
EXTENDS PacketSerialRx

CONSTANTS MaxChunk   \* longest chunk the driver delivers

MCByte == 0..2

\* Single bytes and DMA-like chunks, also with a delimiter inside.
MCChunk == UNION {[1..n -> MCByte] : n \in 1..MaxChunk}

\* Frames that decode to data of each flag, one that never decodes, and one whose
\* fate depends on the uninitialised last byte of decoded_data_array.
MCDecode(frame) ==
  CASE frame = <<1>>       -> {[data |-> <<1>>, flag |-> "CONTINUE"]}
    [] frame = <<2>>       -> {[data |-> <<2>>, flag |-> "LAST"]}
    [] frame = <<1, 2>>    -> {[data |-> <<0, 1>>, flag |-> "FIRST"]}
    [] frame = <<2, 1>>    -> {[data |-> <<1, 2>>, flag |-> "FIRSTLAST"]}
    [] frame = <<2, 2, 1>> -> {[data |-> <<>>, flag |-> "LAST"]}
    [] frame = <<1, 1>>    -> {[data |-> <<2>>, flag |-> "CONTINUE"], NoPacket}
    [] OTHER               -> {NoPacket}

\* Whether a message type has a handler is up to the application.
MCUnmarshal(buf) == BOOLEAN
=============================================================================
