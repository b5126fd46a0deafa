---------------------------- MODULE Device_proofs ----------------------------
(***************************************************************************)
(* Proofs about process() interrupting the two resets at any point, for    *)
(* every size of the two buffers, every codec and every sequence of        *)
(* chunks.                                                                 *)
(***************************************************************************)
EXTENDS Device, PacketSerialRx_proofs

(***************************************************************************)
(* The inductive invariant.  While reset_packet_buffer() is at work and no *)
(* packet has come, the offset is back and the bytes behind the memset()   *)
(* are zero; that is what makes the buffer faithful when it returns.       *)
(***************************************************************************)
ClearedBehind ==
  Resetting /\ ~torn =>
    /\ packet_buffer_offset = 0 /\ assembled = <<>>
    /\ \A k \in 0..PACKET_BUFFER_SIZE-1 : k < cleared => packet_buffer[k] = 0

MainTypeOK == cleared \in Nat /\ torn \in BOOLEAN /\ torn_payload \in BOOLEAN

FrameInv == Len(arrived) = p_rx_buffer /\ FramePrefix

DeviceInv == Bounded /\ MainTypeOK /\ FrameInv /\ ClearedBehind /\ ExactUnlessTorn

\* The static initialisers satisfy the invariant.
LEMMA DeviceInitInv == DeviceInit => DeviceInv
<1> SUFFICES ASSUME DeviceInit PROVE DeviceInv
  OBVIOUS
<1>1. Inv
  BY InitInv DEF DeviceInit
<1>2. FrameInv
  BY DEF DeviceInit, Init, FrameInv, FramePrefix
<1>3. MainTypeOK /\ ClearedBehind
  BY DEF DeviceInit, MainTypeOK, ClearedBehind, Resetting
<1>4. ExactUnlessTorn
  BY <1>1 DEF Inv, ExactUnlessTorn
<1> QED
  BY <1>1, <1>2, <1>3, <1>4 DEF Inv, DeviceInv

-----------------------------------------------------------------------------
(* The main program. *)

\* reset_packet_buffer() one step at a time touches nothing of the frame being received.
LEMMA ResetPacketsInv ==
  ASSUME DeviceInv, RewindPackets \/ ClearPacketByte
  PROVE  DeviceInv'
<1>1. UNCHANGED <<rxVars, upVars, rx_handler, retval, overrun, torn_payload>>
  BY DEF RewindPackets, ClearPacketByte
<1>2. CASE RewindPackets
  <2>1. /\ packet_buffer_offset' = 0 /\ assembled' = <<>> /\ packet_buffer' = packet_buffer
        /\ cleared' = 0 /\ torn' = FALSE /\ Resetting'
    BY <1>2 DEF RewindPackets, Resetting
  <2>2. TypeOK'
    BY <1>1, <2>1, SizeAssumption DEF rxVars, upVars, DeviceInv, Bounded, TypeOK
  <2>3. NoOverrun' /\ RoomAccounted' /\ FrameInv'
    BY <1>1 DEF rxVars, DeviceInv, Bounded, NoOverrun, RoomAccounted, FrameInv, FramePrefix
  <2>4. MainTypeOK' /\ ClearedBehind'
    <3>1. MainTypeOK'
      BY <1>1, <2>1 DEF DeviceInv, MainTypeOK
    <3>2. \A k \in 0..PACKET_BUFFER_SIZE-1 : ~(k < 0)
      BY SizeAssumption
    <3> QED
      BY <2>1, <3>1, <3>2 DEF ClearedBehind
  <2>5. ExactUnlessTorn'
    BY <1>1, <2>1 DEF upVars, DeviceInv, ExactUnlessTorn, PayloadExact, ZeroPadded
  <2> QED
    BY <2>2, <2>3, <2>4, <2>5 DEF DeviceInv, Bounded
<1>3. CASE ClearPacketByte
  <2>1. /\ packet_buffer' = [packet_buffer EXCEPT ![cleared] = 0]
        /\ cleared' = cleared + 1 /\ pc' = pc /\ torn' = torn /\ Resetting
        /\ UNCHANGED <<packet_buffer_offset, assembled>>
        /\ cleared \in Nat
    BY <1>3 DEF ClearPacketByte, Resetting, DeviceInv, MainTypeOK
  <2>2. TypeOK'
    <3>1. packet_buffer' \in [0..PACKET_BUFFER_SIZE-1 -> Byte]
      BY <2>1, ByteAssumption DEF DeviceInv, Bounded, TypeOK
    <3> QED
      BY <1>1, <2>1, <3>1 DEF rxVars, upVars, DeviceInv, Bounded, TypeOK
  <2>3. NoOverrun' /\ RoomAccounted' /\ FrameInv'
    BY <1>1 DEF rxVars, DeviceInv, Bounded, NoOverrun, RoomAccounted, FrameInv, FramePrefix
  <2>4. MainTypeOK'
    BY <1>1, <2>1 DEF DeviceInv, MainTypeOK
  <2>5. ClearedBehind'
    <3> SUFFICES ASSUME ~torn,
                        NEW k \in 0..PACKET_BUFFER_SIZE-1, k < cleared + 1
                 PROVE  packet_buffer'[k] = 0
      BY <2>1 DEF DeviceInv, ClearedBehind
    <3>1. packet_buffer \in [0..PACKET_BUFFER_SIZE-1 -> Byte] /\ PACKET_BUFFER_SIZE \in Nat
      BY SizeAssumption DEF DeviceInv, Bounded, TypeOK
    <3>2. CASE k = cleared
      BY <2>1, <3>1, <3>2
    <3>3. CASE k < cleared
      BY <2>1, <3>1, <3>3 DEF DeviceInv, ClearedBehind
    <3> QED
      BY <2>1, <3>1, <3>2, <3>3
  <2>6. ExactUnlessTorn'
    BY <1>1, <2>1 DEF upVars, DeviceInv, ExactUnlessTorn, PayloadExact, ZeroPadded, Resetting
  <2> QED
    BY <2>2, <2>3, <2>4, <2>5, <2>6 DEF DeviceInv, Bounded
<1> QED
  BY <1>2, <1>3

\* reset_rx_buffer() one step at a time can cut the frame being received, not spoil it.
LEMMA ResetRxInv ==
  ASSUME DeviceInv, ReturnRoom \/ ClearRxByte
  PROVE  DeviceInv'
<1>1. /\ UNCHANGED <<packetVars, upVars, rx_handler, retval, overrun, torn, torn_payload>>
      /\ UNCHANGED <<p_rx_buffer, arrived>>
      /\ Resetting' = FALSE
      /\ ~Resetting
  BY DEF ReturnRoom, ClearRxByte, Resetting
<1>2. CASE ReturnRoom
  <2>1. /\ rx_buffer' = rx_buffer /\ p_rx_buffer = 0 /\ rx_buffer_remaining' = RX_SIZE
        /\ leaked' = 0 /\ cleared' = 0
    BY <1>2 DEF ReturnRoom
  <2>2. TypeOK' /\ RoomAccounted'
    BY <1>1, <2>1, SizeAssumption
       DEF packetVars, upVars, DeviceInv, Bounded, TypeOK, RoomAccounted
  <2>3. FrameInv'
    BY <1>1, <2>1 DEF DeviceInv, FrameInv, FramePrefix
  <2>4. MainTypeOK'
    BY <1>1, <2>1 DEF DeviceInv, MainTypeOK
  <2> QED
    BY <1>1, <2>2, <2>3, <2>4
       DEF packetVars, upVars, DeviceInv, Bounded, NoOverrun, ClearedBehind, ExactUnlessTorn,
           PayloadExact, PacketBufferFaithful, ZeroPadded
<1>3. CASE ClearRxByte
  <2>1. /\ rx_buffer' = [rx_buffer EXCEPT ![cleared] = 0]
        /\ cleared' = cleared + 1 /\ cleared \in Nat
        /\ UNCHANGED <<rx_buffer_remaining, leaked>>
        /\ rx_buffer \in [0..RX_SIZE-1 -> Byte]
    BY <1>3 DEF ClearRxByte, DeviceInv, MainTypeOK, Bounded, TypeOK
  <2>2. TypeOK' /\ RoomAccounted'
    <3>1. rx_buffer' \in [0..RX_SIZE-1 -> Byte]
      BY <2>1, ByteAssumption
    <3> QED
      BY <1>1, <2>1, <3>1 DEF packetVars, upVars, DeviceInv, Bounded, TypeOK, RoomAccounted
  <2>3. FrameInv'
    <3> SUFFICES ASSUME NEW j \in 0..p_rx_buffer-1,
                        \A i \in 0..j : arrived[i+1] # 0 /\ rx_buffer'[i] # 0
                 PROVE  rx_buffer'[j] = arrived[j+1]
      BY <1>1 DEF DeviceInv, FrameInv, FramePrefix
    <3>1. p_rx_buffer \in Nat /\ RX_SIZE \in Nat /\ p_rx_buffer <= RX_SIZE
      BY SizeAssumption DEF DeviceInv, Bounded, TypeOK
    <3>2. \A i \in 0..j : i \in 0..RX_SIZE-1
      BY <3>1
    <3>3. \A i \in 0..j : i # cleared
      BY <2>1, <3>2
    <3>4. \A i \in 0..j : rx_buffer'[i] = rx_buffer[i]
      BY <2>1, <3>2, <3>3
    <3>5. j \in 0..j
      BY <3>1
    <3>6. \A i \in 0..j : arrived[i+1] # 0 /\ rx_buffer[i] # 0
      BY <3>4
    <3>7. rx_buffer[j] = arrived[j+1]
      BY <3>6 DEF DeviceInv, FrameInv, FramePrefix
    <3> QED
      BY <3>4, <3>5, <3>7
  <2>4. MainTypeOK'
    BY <1>1, <2>1 DEF DeviceInv, MainTypeOK
  <2> QED
    BY <1>1, <2>2, <2>3, <2>4
       DEF packetVars, upVars, DeviceInv, Bounded, NoOverrun, ClearedBehind, ExactUnlessTorn,
           PayloadExact, PacketBufferFaithful, ZeroPadded
<1> QED
  BY <1>2, <1>3

\* When reset_packet_buffer() returns and no packet came, packet_buffer is zero throughout.
LEMMA ResetReturnsInv ==
  ASSUME DeviceInv, ResetReturns
  PROVE  DeviceInv'
<1>1. UNCHANGED vars /\ cleared' = 0 /\ UNCHANGED <<torn, torn_payload>> /\ ~Resetting'
  BY DEF ResetReturns, Resetting
<1>2. Bounded' /\ FrameInv' /\ MainTypeOK' /\ ClearedBehind'
  BY <1>1 DEF vars, rxVars, packetVars, upVars, DeviceInv, Bounded, TypeOK, NoOverrun,
              RoomAccounted, FrameInv, FramePrefix, MainTypeOK, ClearedBehind
<1>3. ~torn => PacketBufferFaithful
  <2>1. CASE Resetting
    <3> SUFFICES ASSUME ~torn PROVE PacketBufferFaithful
      OBVIOUS
    <3>1. cleared = PACKET_BUFFER_SIZE
      BY <2>1 DEF ResetReturns, Resetting
    <3>2. /\ packet_buffer_offset = 0 /\ assembled = <<>>
          /\ \A k \in 0..PACKET_BUFFER_SIZE-1 : k < cleared => packet_buffer[k] = 0
      BY <2>1 DEF DeviceInv, ClearedBehind
    <3>3. DOMAIN packet_buffer = 0..PACKET_BUFFER_SIZE-1
      BY DEF DeviceInv, Bounded, TypeOK
    <3> QED
      BY <3>1, <3>2, <3>3, SizeAssumption DEF PacketBufferFaithful, ZeroPadded
  <2>2. CASE ~Resetting
    BY <2>2 DEF DeviceInv, ExactUnlessTorn
  <2> QED
    BY <2>1, <2>2
<1>4. ExactUnlessTorn'
  BY <1>1, <1>3 DEF vars, packetVars, upVars, DeviceInv, ExactUnlessTorn, PayloadExact,
                    PacketBufferFaithful, ZeroPadded
<1> QED
  BY <1>2, <1>4 DEF DeviceInv
-----------------------------------------------------------------------------
(* The interrupt. *)

\* A chunk without delimiter is appended to the frame, cut or not.
LEMMA ChunkStoredInv ==
  ASSUME DeviceInv, NEW buffer \in Chunk, StoreChunk(buffer),
         UNCHANGED mainVars
  PROVE  DeviceInv'
<1>1. /\ buffer \in Seq(Byte) /\ Len(buffer) \in Nat \ {0}
      /\ ChunkFits(buffer)
      /\ Stored(buffer) \in [0..RX_SIZE-1 -> Byte]
      /\ RemainingAfter(buffer) \in 0..RX_SIZE
  BY ChunkStored DEF DeviceInv, StoreChunk
<1>2. /\ rx_buffer \in [0..RX_SIZE-1 -> Byte] /\ RX_SIZE \in Nat
      /\ p_rx_buffer \in Nat /\ rx_buffer_remaining \in Nat /\ leaked \in Nat
      /\ p_rx_buffer + rx_buffer_remaining + leaked = RX_SIZE
      /\ p_rx_buffer + Len(buffer) <= RX_SIZE
      /\ arrived \in Seq(Byte) /\ Len(arrived) = p_rx_buffer
  BY <1>1, SizeAssumption
     DEF DeviceInv, Bounded, TypeOK, RoomAccounted, FrameInv, ChunkFits
<1>3. /\ rx_buffer' = Stored(buffer)
      /\ p_rx_buffer' = p_rx_buffer + Len(buffer)
      /\ rx_buffer_remaining' = rx_buffer_remaining - Len(buffer)
      /\ arrived' = arrived \o buffer
      /\ leaked' = leaked
      /\ retval' = TRUE
      /\ overrun' = FALSE
      /\ UNCHANGED <<packetVars, upVars, rx_handler>>
  BY <1>1 DEF StoreChunk, RemainingAfter
<1>4. arrived' \in Seq(Byte) /\ Len(arrived') = p_rx_buffer'
  BY <1>1, <1>2, <1>3, ConcatFacts
<1>5. TypeOK'
  <2>1. p_rx_buffer' \in 0..RX_SIZE /\ rx_buffer_remaining' \in 0..RX_SIZE
    BY <1>1, <1>2, <1>3 DEF RemainingAfter
  <2> QED
    BY <1>1, <1>3, <1>4, <2>1 DEF packetVars, upVars, DeviceInv, Bounded, TypeOK
<1>6. NoOverrun' /\ RoomAccounted'
  <2>1. (p_rx_buffer + Len(buffer)) + (rx_buffer_remaining - Len(buffer)) + leaked = RX_SIZE
    BY SMTT(30), <1>1, <1>2
  <2> QED
    BY <1>3, <2>1 DEF NoOverrun, RoomAccounted
<1>7. FramePrefix'
  <2>0. /\ \A k \in 0..p_rx_buffer-1 : Stored(buffer)[k] = rx_buffer[k]
        /\ \A k \in 0..Len(buffer)-1 :
             (\A i \in 1..k : buffer[i] # 0) => Stored(buffer)[p_rx_buffer + k] = buffer[k + 1]
    <3>1. /\ rx_buffer \in [0..RX_SIZE-1 -> Byte] /\ RX_SIZE \in Nat /\ p_rx_buffer \in Nat
          /\ buffer \in Seq(Byte) /\ p_rx_buffer + Len(buffer) <= RX_SIZE
      BY <1>1, <1>2
    <3> QED
      BY ZenonT(30), <3>1, StrNCpyFacts DEF Stored
  <2>1. ASSUME NEW j \in 0..p_rx_buffer'-1,
               \A i \in 0..j : arrived'[i+1] # 0 /\ rx_buffer'[i] # 0
        PROVE  rx_buffer'[j] = arrived'[j+1]
    <3>1. CASE j < p_rx_buffer
      <4>1. \A i \in 0..j : rx_buffer'[i] = rx_buffer[i]
        BY <1>2, <1>3, <2>0, <3>1
      <4>2. \A i \in 0..j : arrived'[i+1] = arrived[i+1]
        BY <1>1, <1>2, <1>3, <3>1
      <4>3. j \in 0..p_rx_buffer-1 /\ j \in 0..j
        BY <1>2, <3>1
      <4>4. \A i \in 0..j : arrived[i+1] # 0 /\ rx_buffer[i] # 0
        BY <2>1, <4>1, <4>2
      <4>5. rx_buffer[j] = arrived[j+1]
        BY <4>3, <4>4 DEF DeviceInv, FrameInv, FramePrefix
      <4> QED
        BY <4>1, <4>2, <4>3, <4>5
    <3>2. CASE j >= p_rx_buffer
      <4> DEFINE d == j - p_rx_buffer
      <4>1. d \in 0..Len(buffer)-1 /\ j = p_rx_buffer + d
        BY <1>1, <1>2, <1>3, <3>2
      <4>2. \A i \in 1..d+1 : arrived'[p_rx_buffer + i] = buffer[i]
        <5>1. d + 1 <= Len(buffer) /\ d \in Nat /\ Len(buffer) \in Nat
          BY <1>1, <4>1
        <5>2. \A i \in 1..d+1 : i \in 1..Len(buffer)
          BY <5>1
        <5>3. \A i \in 1..Len(buffer) : arrived'[p_rx_buffer + i] = buffer[i]
          <6>1. /\ buffer \in Seq(Byte) /\ arrived \in Seq(Byte)
                /\ Len(arrived) = p_rx_buffer /\ arrived' = arrived \o buffer
            BY <1>1, <1>2, <1>3
          <6> QED
            BY <6>1
        <5> QED
          BY <5>2, <5>3
      <4>3. ASSUME NEW i \in 1..d PROVE buffer[i] # 0
        <5>1. p_rx_buffer + i - 1 \in 0..j /\ i \in 1..d+1
          BY <1>2, <4>1
        <5>2. arrived'[(p_rx_buffer + i - 1) + 1] # 0
          BY <5>1, <2>1
        <5>3. (p_rx_buffer + i - 1) + 1 = p_rx_buffer + i
          BY <1>2, <4>1
        <5> QED
          BY <5>1, <5>2, <5>3, <4>2
      <4>4. Stored(buffer)[p_rx_buffer + d] = buffer[d + 1]
        BY <2>0, <4>1, <4>3
      <4>5. arrived'[p_rx_buffer + (d + 1)] = buffer[d + 1]
        BY <1>1, <4>1, <4>2
      <4>6. j + 1 = p_rx_buffer + (d + 1)
        BY <1>2, <4>1
      <4> QED
        BY <1>3, <4>1, <4>4, <4>5, <4>6
    <3> QED
      BY <1>2, <3>1, <3>2
  <2> QED
    BY <2>1 DEF FramePrefix
<1>8. MainTypeOK' /\ ClearedBehind' /\ ExactUnlessTorn'
  BY <1>3 DEF mainVars, packetVars, upVars, DeviceInv, MainTypeOK, ClearedBehind, Resetting,
              ExactUnlessTorn, PayloadExact, PacketBufferFaithful, ZeroPadded
<1> QED
  BY <1>4, <1>5, <1>6, <1>7, <1>8 DEF DeviceInv, Bounded, FrameInv

\* A refused chunk and a frame that does not decode leave packet_buffer alone.
LEMMA NothingParsedInv ==
  ASSUME DeviceInv, NEW buffer \in Chunk, RejectChunk(buffer) \/ BadFrame(buffer),
         UNCHANGED mainVars
  PROVE  DeviceInv'
<1>1. UNCHANGED <<packetVars, upVars, overrun>>
  BY DEF RejectChunk, BadFrame
<1>2. MainTypeOK' /\ ClearedBehind' /\ ExactUnlessTorn'
  BY <1>1 DEF mainVars, packetVars, upVars, DeviceInv, MainTypeOK, ClearedBehind, Resetting,
              ExactUnlessTorn, PayloadExact, PacketBufferFaithful, ZeroPadded
<1>3. CASE RejectChunk(buffer)
  <2>1. UNCHANGED <<rxVars, rx_handler>> /\ retval' = FALSE
    BY <1>3 DEF RejectChunk
  <2>2. Bounded' /\ FrameInv'
    BY <1>1, <2>1 DEF rxVars, packetVars, upVars, DeviceInv, Bounded, TypeOK, NoOverrun,
                      RoomAccounted, FrameInv, FramePrefix
  <2> QED
    BY <1>2, <2>2 DEF DeviceInv
<1>4. CASE BadFrame(buffer)
  <2>1. /\ rx_buffer' \in [0..RX_SIZE-1 -> Byte]
        /\ p_rx_buffer' \in 0..RX_SIZE
        /\ rx_buffer_remaining' \in 0..RX_SIZE
        /\ rx_handler' \in Handler \union {NULL}
        /\ retval' \in BOOLEAN
        /\ arrived' \in Seq(Byte)
        /\ leaked' \in Nat
        /\ RoomAccounted'
    BY <1>4, FrameEndInv DEF BadFrame, CompletesFrame, DeviceInv
  <2>2. Bounded'
    BY <1>1, <2>1 DEF packetVars, upVars, DeviceInv, Bounded, TypeOK, NoOverrun
  <2>3. FrameInv'
    BY <1>4 DEF BadFrame, StartNextFrame, FrameInv, FramePrefix
  <2> QED
    BY <1>2, <2>2, <2>3 DEF DeviceInv
<1> QED
  BY <1>3, <1>4

\* Where a packet that fits is written, and what it makes of the offset and the data so far.
LEMMA PacketStored ==
  ASSUME TypeOK, NEW packet \in Packet, PacketFits(packet)
  PROVE  /\ packet.data \in Seq(Byte)
         /\ Extended(packet) \in [0..PACKET_BUFFER_SIZE-1 -> Byte]
         /\ assembled \o packet.data \in Seq(Byte)
         /\ packet_buffer_offset + Len(packet.data) \in 0..PACKET_BUFFER_SIZE
<1>1. /\ packet.data \in Seq(Byte) /\ Len(packet.data) \in Nat
      /\ \A i \in 1..Len(packet.data) : packet.data[i] \in Byte
      /\ PACKET_BUFFER_SIZE \in Nat /\ packet_buffer_offset \in Nat
      /\ packet_buffer \in [0..PACKET_BUFFER_SIZE-1 -> Byte]
  BY SizeAssumption DEF TypeOK, Packet
<1>2. Extended(packet) \in [0..PACKET_BUFFER_SIZE-1 -> Byte]
  BY <1>1 DEF Extended, MemCpy
<1>3. packet_buffer_offset + Len(packet.data) \in 0..PACKET_BUFFER_SIZE
  BY <1>1 DEF PacketFits
<1> QED
  BY <1>1, <1>2, <1>3, ConcatFacts DEF TypeOK

\* A packet spoils the message it belongs to only if reset_packet_buffer() is at work, and
\* then marks it.
LEMMA PacketParsedInv ==
  ASSUME DeviceInv, NEW buffer \in Chunk, PeerRespectsSize(buffer), CompletesFrame(buffer),
         NEW packet \in DecodedPackets(buffer), PacketParsed(buffer, packet),
         UNCHANGED <<pc, cleared>>
  PROVE  DeviceInv'
<1>1. packet \in Packet /\ PacketFits(packet)
  BY PacketDecoded DEF PeerRespectsSize, DeviceInv
<1>2. PICK ok \in BOOLEAN : packet_parser(packet, ok)
  BY DEF PacketParsed, GoodFrame, UnhandledMessage
<1>3. /\ StartNextFrame /\ (RxSuccess \/ RxFailure(buffer))
      /\ overrun' = FALSE
  BY <1>1 DEF PacketParsed, GoodFrame, UnhandledMessage
<1>4. /\ rx_buffer' \in [0..RX_SIZE-1 -> Byte]
      /\ p_rx_buffer' \in 0..RX_SIZE
      /\ rx_buffer_remaining' \in 0..RX_SIZE
      /\ rx_handler' \in Handler \union {NULL}
      /\ retval' \in BOOLEAN
      /\ arrived' \in Seq(Byte)
      /\ leaked' \in Nat
      /\ RoomAccounted'
  BY <1>3, FrameEndInv DEF CompletesFrame, DeviceInv
<1>5. FrameInv'
  BY <1>3 DEF StartNextFrame, FrameInv, FramePrefix
<1>6. /\ packet.data \in Seq(Byte)
      /\ Extended(packet) \in [0..PACKET_BUFFER_SIZE-1 -> Byte]
      /\ assembled \o packet.data \in Seq(Byte)
      /\ packet_buffer_offset + Len(packet.data) \in 0..PACKET_BUFFER_SIZE
  BY <1>1, PacketStored DEF DeviceInv, Bounded
<1>7. ~torn /\ ~Resetting =>
        /\ ZeroPadded(Extended(packet), assembled \o packet.data)
        /\ packet_buffer_offset + Len(packet.data) = Len(assembled \o packet.data)
  BY <1>1, PacketExtends DEF DeviceInv, Bounded, ExactUnlessTorn
<1>8. Resetting' = Resetting
  BY DEF Resetting
<1>9. CASE KeepPacket(packet)
  <2>1. /\ packet_buffer' = Extended(packet)
        /\ packet_buffer_offset' = packet_buffer_offset + Len(packet.data)
        /\ assembled' = assembled \o packet.data
        /\ UNCHANGED upVars
        /\ torn' = (torn \/ Resetting) /\ UNCHANGED torn_payload
    BY <1>9 DEF KeepPacket, PacketParsed
  <2>2. TypeOK'
    BY <1>3, <1>4, <1>6, <2>1 DEF upVars, DeviceInv, Bounded, TypeOK
  <2>3. MainTypeOK'
    BY <2>1 DEF DeviceInv, MainTypeOK
  <2>4. ClearedBehind'
    BY <2>1, <1>8 DEF ClearedBehind
  <2>5. ExactUnlessTorn'
    <3>1. ~torn_payload' => PayloadExact'
      BY <2>1 DEF upVars, DeviceInv, ExactUnlessTorn, PayloadExact, ZeroPadded
    <3>2. ~torn' /\ ~Resetting' => PacketBufferFaithful'
      BY <1>7, <1>8, <2>1 DEF PacketBufferFaithful
    <3> QED
      BY <3>1, <3>2 DEF ExactUnlessTorn
  <2> QED
    BY <1>3, <1>4, <1>5, <2>2, <2>3, <2>4, <2>5 DEF DeviceInv, Bounded, NoOverrun
<1>10. CASE HandOver(packet, ok) /\ ClearPacketBuffer
  <2>1. /\ packet_buffer' = Zeroed(PACKET_BUFFER_SIZE)
        /\ packet_buffer_offset' = 0 /\ assembled' = <<>>
        /\ payload' = Extended(packet)
        /\ message' = assembled \o packet.data
        /\ torn' = FALSE /\ torn_payload' = (torn \/ Resetting)
    BY <1>10 DEF HandOver, ClearPacketBuffer, PacketParsed
  <2>2. /\ Zeroed(PACKET_BUFFER_SIZE) \in [0..PACKET_BUFFER_SIZE-1 -> Byte]
        /\ ZeroPadded(Zeroed(PACKET_BUFFER_SIZE), <<>>)
        /\ 0 \in 0..PACKET_BUFFER_SIZE
    BY ZeroedFacts, SizeAssumption
  <2>3. TypeOK'
    <3>1. /\ packet_buffer' \in [0..PACKET_BUFFER_SIZE-1 -> Byte]
          /\ packet_buffer_offset' \in 0..PACKET_BUFFER_SIZE
          /\ assembled' \in Seq(Byte)
          /\ payload' \in [0..PACKET_BUFFER_SIZE-1 -> Byte]
          /\ message' \in Seq(Byte)
      BY <1>6, <2>1, <2>2
    <3> QED
      BY <1>3, <1>4, <3>1 DEF TypeOK
  <2>4. MainTypeOK'
    BY <2>1 DEF DeviceInv, MainTypeOK
  <2>5. ClearedBehind'
    BY <2>1 DEF ClearedBehind, Zeroed
  <2>6. ExactUnlessTorn'
    <3>1. ~torn_payload' => PayloadExact'
      BY <1>7, <2>1 DEF PayloadExact
    <3>2. PacketBufferFaithful'
      BY <2>1, <2>2 DEF PacketBufferFaithful
    <3> QED
      BY <3>1, <3>2 DEF ExactUnlessTorn
  <2> QED
    BY <1>3, <1>4, <1>5, <2>3, <2>4, <2>5, <2>6 DEF DeviceInv, Bounded, NoOverrun
<1> QED
  BY <1>2, <1>9, <1>10 DEF packet_parser

\* Every step of the main program and of the interrupt preserves the invariant.
LEMMA DeviceNextInv == DeviceInv /\ [DeviceNext]_deviceVars => DeviceInv'
<1> SUFFICES ASSUME DeviceInv, [DeviceNext]_deviceVars PROVE DeviceInv'
  OBVIOUS
<1>1. CASE RewindPackets \/ ClearPacketByte
  BY <1>1, ResetPacketsInv
<1>2. CASE ReturnRoom \/ ClearRxByte
  BY <1>2, ResetRxInv
<1>3. CASE ResetReturns
  BY <1>3, ResetReturnsInv
<1>4. ASSUME NEW buffer \in Chunk, Interrupt(buffer) PROVE DeviceInv'
  <2>1. CASE NoPacketParsed(buffer) /\ UNCHANGED <<torn, torn_payload>>
    <3>1. UNCHANGED mainVars
      BY <1>4, <2>1 DEF Interrupt, mainVars
    <3> QED
      BY <2>1, <3>1, ChunkStoredInv, NothingParsedInv DEF NoPacketParsed
  <2>2. CASE /\ CompletesFrame(buffer)
             /\ \E packet \in DecodedPackets(buffer) : PacketParsed(buffer, packet)
    BY <1>4, <2>2, PacketParsedInv DEF Interrupt
  <2> QED
    BY <1>4, <2>1, <2>2 DEF Interrupt
<1>5. CASE UNCHANGED deviceVars
  BY <1>5 DEF deviceVars, mainVars, vars, rxVars, packetVars, upVars, DeviceInv, Bounded, TypeOK,
              NoOverrun, RoomAccounted, FrameInv, FramePrefix, MainTypeOK, ClearedBehind, Resetting,
              ExactUnlessTorn, PayloadExact, PacketBufferFaithful, ZeroPadded
<1> QED
  BY <1>1, <1>2, <1>3, <1>4, <1>5 DEF DeviceNext

-----------------------------------------------------------------------------
\* Every reachable state of the device satisfies the invariant.
LEMMA DeviceInvHolds == DeviceSpec => []DeviceInv
<1>1. DeviceInit => DeviceInv
  BY DeviceInitInv
<1>2. DeviceInv /\ [DeviceNext]_deviceVars => DeviceInv'
  BY DeviceNextInv
<1> QED
  BY <1>1, <1>2, PTL DEF DeviceSpec

\* Whatever chunk interrupts a reset, at whatever byte of its memset(), no strncpy or memcpy
\* of process() leaves its array.
THEOREM DeviceNoOverrun == DeviceSpec => []NoOverrun
<1>1. DeviceInv => NoOverrun
  BY DEF DeviceInv, Bounded
<1> QED
  BY <1>1, DeviceInvHolds, PTL

\* An interrupt inside reset_rx_buffer() neither loses nor doubles room in rx_buffer.
THEOREM DeviceRoomAccounted == DeviceSpec => []RoomAccounted
<1>1. DeviceInv => RoomAccounted
  BY DEF DeviceInv, Bounded
<1> QED
  BY <1>1, DeviceInvHolds, PTL

\* reset_rx_buffer() can cut the frame that arrives meanwhile, never mix it with another.
THEOREM DeviceFramePrefix == DeviceSpec => []FramePrefix
<1>1. DeviceInv => FramePrefix
  BY DEF DeviceInv, FrameInv
<1> QED
  BY <1>1, DeviceInvHolds, PTL

\* An interrupted reset_packet_buffer() spoils at most the message whose packet interrupted it.
THEOREM DeviceExactUnlessTorn == DeviceSpec => []ExactUnlessTorn
<1>1. DeviceInv => ExactUnlessTorn
  BY DEF DeviceInv
<1> QED
  BY <1>1, DeviceInvHolds, PTL
=============================================================================
