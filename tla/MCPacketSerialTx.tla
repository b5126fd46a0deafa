-------------------------- MODULE MCPacketSerialTx --------------------------
(***************************************************************************)
(* TLC instance of PacketSerialTx with chunks of three bytes.              *)
(***************************************************************************)
EXTENDS PacketSerialTx

CONSTANTS MaxSize   \* largest payload

\* Every small payload, and the (size_t)-1 of a failed marshal().
MCSize == 0..MaxSize \union {SIZE_MOD - 1}

\* Payloads an application can really have.
MCPayloadSize == 0..MaxSize
=============================================================================
