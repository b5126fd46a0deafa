------------------------------ MODULE MCDevice ------------------------------
(***************************************************************************)
(* TLC instance of Device, with the frames of MCPacketSerialRx.            *)
(***************************************************************************)
EXTENDS Device

MCByte == 0..2

MCDecode(frame) ==
  CASE frame = <<1>>    -> {[data |-> <<1>>, flag |-> "CONTINUE"]}
    [] frame = <<2>>    -> {[data |-> <<2>>, flag |-> "LAST"]}
    [] frame = <<2, 1>> -> {[data |-> <<1, 2>>, flag |-> "FIRSTLAST"]}
    [] frame = <<1, 2>> -> {[data |-> <<2>>, flag |-> "FIRST"], NoPacket}
    [] OTHER            -> {NoPacket}

MCUnmarshal(buf) == BOOLEAN
MCChunk == {<<0>>, <<1>>, <<2>>, <<2, 0>>, <<2, 1>>, <<1, 2, 0>>}
=============================================================================
