------------------------------- MODULE Device -------------------------------
(***************************************************************************)
(* The receive half of a device whose UART interrupt calls process() while *)
(* the main program may be anywhere inside reset_packet_buffer() or        *)
(* reset_rx_buffer().  Both are an assignment followed by a memset(); the  *)
(* interrupt can come between the two and between any two bytes of the     *)
(* memset().  process() itself runs to completion.                         *)
(***************************************************************************)
EXTENDS PacketSerialRx

VARIABLES
  pc,           \* "idle", or the buffer the main program's memset() is clearing
  cleared,      \* bytes that memset() has cleared
  torn,         \* history: a packet of the present message came during reset_packet_buffer()
  torn_payload  \* history: that was so for the last message handed over

mainVars == <<pc, cleared, torn, torn_payload>>
deviceVars == <<vars, mainVars>>

DeviceInit ==
  /\ Init
  /\ pc = "idle" /\ cleared = 0
  /\ torn = FALSE /\ torn_payload = FALSE

-----------------------------------------------------------------------------
(* The main program. *)

ClearOnly ==                          \* a mutant: packet_buffer_offset = packet_buffer is missing
  /\ pc = "idle"
  /\ pc' = "packet_buffer"
  /\ cleared' = 0
  /\ torn' = FALSE
  /\ assembled' = <<>>
  /\ UNCHANGED <<packet_buffer, packet_buffer_offset, torn_payload, rxVars, upVars, rx_handler,
                 retval, overrun>>

\* packet_buffer_offset = packet_buffer
RewindPackets ==
  /\ pc = "idle"
  /\ pc' = "packet_buffer"
  /\ cleared' = 0
  /\ torn' = FALSE
  /\ packet_buffer_offset' = 0
  /\ assembled' = <<>>
  /\ UNCHANGED <<packet_buffer, torn_payload, rxVars, upVars, rx_handler, retval, overrun>>

\* rx_buffer_remaining = Packet_size + 1.  As in PacketSerialRx the application resets
\* rx_buffer between frames only.
ReturnRoom ==
  /\ pc = "idle" /\ p_rx_buffer = 0
  /\ pc' = "rx_buffer"
  /\ cleared' = 0
  /\ rx_buffer_remaining' = RX_SIZE
  /\ leaked' = 0
  /\ UNCHANGED <<rx_buffer, p_rx_buffer, arrived, packetVars, upVars, rx_handler, retval,
                 overrun, torn, torn_payload>>

ClearPacketByte ==
  /\ pc = "packet_buffer" /\ cleared < PACKET_BUFFER_SIZE
  /\ packet_buffer' = [packet_buffer EXCEPT ![cleared] = 0]
  /\ cleared' = cleared + 1
  /\ UNCHANGED <<pc, torn, torn_payload, packet_buffer_offset, assembled, rxVars, upVars, rx_handler,
                 retval, overrun>>

ClearRxByte ==
  /\ pc = "rx_buffer" /\ cleared < RX_SIZE
  /\ rx_buffer' = [rx_buffer EXCEPT ![cleared] = 0]
  /\ cleared' = cleared + 1
  /\ UNCHANGED <<pc, torn, torn_payload, p_rx_buffer, rx_buffer_remaining, arrived, leaked, packetVars,
                 upVars, rx_handler, retval, overrun>>

ResetReturns ==
  /\ \/ pc = "packet_buffer" /\ cleared = PACKET_BUFFER_SIZE
     \/ pc = "rx_buffer" /\ cleared = RX_SIZE
  /\ pc' = "idle"
  /\ cleared' = 0
  /\ UNCHANGED <<torn, torn_payload, vars>>

-----------------------------------------------------------------------------
(* The interrupt. *)

NoPacketParsed(buffer) == RejectChunk(buffer) \/ StoreChunk(buffer) \/ BadFrame(buffer)

Resetting == pc = "packet_buffer"

PacketParsed(buffer, packet) ==
  /\ GoodFrame(buffer, packet) \/ UnhandledMessage(buffer, packet)
  /\ IF EndsMessage(packet)
     THEN torn' = FALSE /\ torn_payload' = (torn \/ Resetting)
     ELSE torn' = (torn \/ Resetting) /\ UNCHANGED torn_payload

\* process(), as in PacketSerialRx.
Interrupt(buffer) ==
  /\ ~overrun
  /\ PeerRespectsSize(buffer)
  /\ \/ NoPacketParsed(buffer) /\ UNCHANGED <<torn, torn_payload>>
     \/ /\ CompletesFrame(buffer)
        /\ \E packet \in DecodedPackets(buffer) : PacketParsed(buffer, packet)
  /\ UNCHANGED <<pc, cleared>>

DeviceNext ==
  \/ RewindPackets \/ ClearPacketByte
  \/ ReturnRoom \/ ClearRxByte
  \/ ResetReturns
  \/ \E buffer \in Chunk : Interrupt(buffer)

DeviceSpec == DeviceInit /\ [][DeviceNext]_deviceVars

-----------------------------------------------------------------------------
\* NoOverrun and RoomAccounted of PacketSerialRx hold here too: the two statements of
\* reset_rx_buffer() may be torn apart without harm to the room it gives back.

\* What strlen() finds in rx_buffer is a beginning of the frame received last, never bytes of
\* two frames: the memset() of reset_rx_buffer() can cut a frame that arrives meanwhile,
\* and a cut frame is all it can cause.
FramePrefix ==
  \A j \in 0..p_rx_buffer-1 :
    (\A i \in 0..j : arrived[i+1] # 0 /\ rx_buffer[i] # 0) => rx_buffer[j] = arrived[j+1]

\* A reset_packet_buffer() interrupted by a packet can spoil the message that packet belongs
\* to, with zeros for its data or with residue behind it; no other, earlier or later.
ExactUnlessTorn ==
  /\ ~torn_payload => PayloadExact
  /\ ~torn /\ ~Resetting => PacketBufferFaithful
=============================================================================
