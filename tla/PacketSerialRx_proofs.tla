------------------------ MODULE PacketSerialRx_proofs ------------------------
(***************************************************************************)
(* Proofs about the receive half of PacketSerial.c, for every size of the  *)
(* two buffers, every codec and every sequence of chunks.                  *)
(***************************************************************************)
EXTENDS PacketSerialRx, WellFoundedInduction, TLAPS

-----------------------------------------------------------------------------
(* The C string functions. *)

\* strncpy keeps the array an array of chars and leaves what precedes dst + off alone;
\* it copies each byte of src that no NUL of src precedes.
LEMMA StrNCpyFacts ==
  ASSUME NEW n \in Nat, NEW dst \in [0..n-1 -> Byte], NEW off \in Nat,
         NEW src \in Seq(Byte), off + Len(src) <= n
  PROVE  /\ StrNCpy(dst, off, src) \in [0..n-1 -> Byte]
         /\ \A k \in 0..off-1 : StrNCpy(dst, off, src)[k] = dst[k]
         /\ \A j \in 0..Len(src)-1 :
              (\A i \in 1..j : src[i] # 0) => StrNCpy(dst, off, src)[off + j] = src[j + 1]
         /\ Len(src) > 0 /\ src[Len(src)] = 0 => StrNCpy(dst, off, src)[off + Len(src) - 1] = 0
<1> DEFINE r == StrNCpy(dst, off, src)
<1>1. /\ Len(src) \in Nat
      /\ \A i \in 1..Len(src) : src[i] \in Byte
  OBVIOUS
<1>2. r \in [0..n-1 -> Byte]
  BY <1>1, ByteAssumption DEF StrNCpy
<1>3. \A k \in 0..off-1 : r[k] = dst[k]
  BY <1>1 DEF StrNCpy
<1>4. ASSUME NEW j \in 0..Len(src)-1, \A i \in 1..j : src[i] # 0
      PROVE  r[off + j] = src[j + 1]
  <2>1. off + j \in 0..n-1 /\ ~(off + j < off \/ off + j >= off + Len(src))
    BY <1>1
  <2>2. (off + j) - off = j
    BY <1>1
  <2> QED
    BY <2>1, <2>2, <1>4 DEF StrNCpy
<1>5. ASSUME Len(src) > 0, src[Len(src)] = 0
      PROVE  r[off + Len(src) - 1] = 0
  <2> DEFINE k == off + Len(src) - 1
  <2>1. k \in 0..n-1 /\ ~(k < off \/ k >= off + Len(src)) /\ k - off + 1 = Len(src)
    BY <1>1, <1>5
  <2> QED
    BY <2>1, <1>5 DEF StrNCpy
<1> QED
  BY <1>2, <1>3, <1>4, <1>5

\* The length of a concatenation.
LEMMA ConcatFacts ==
  ASSUME NEW s \in Seq(Byte), NEW t \in Seq(Byte)
  PROVE  s \o t \in Seq(Byte) /\ Len(s \o t) = Len(s) + Len(t)
OBVIOUS

\* memcpy behind the part of a zero padded buffer that is in use extends that part.
LEMMA MemCpyFacts ==
  ASSUME NEW n \in Nat, NEW dst \in [0..n-1 -> Byte], NEW s \in Seq(Byte),
         NEW t \in Seq(Byte), ZeroPadded(dst, s), Len(s) + Len(t) <= n
  PROVE  /\ MemCpy(dst, Len(s), t) \in [0..n-1 -> Byte]
         /\ ZeroPadded(MemCpy(dst, Len(s), t), s \o t)
<1> DEFINE r == MemCpy(dst, Len(s), t)
<1>1. /\ Len(s) \in Nat /\ Len(t) \in Nat
      /\ \A i \in 1..Len(t) : t[i] \in Byte
  OBVIOUS
<1>2. r \in [0..n-1 -> Byte]
  BY <1>1 DEF MemCpy
<1>3. ASSUME NEW k \in 0..n-1
      PROVE  r[k] = IF k < Len(s \o t) THEN (s \o t)[k + 1] ELSE 0
  <2>1. Len(s \o t) = Len(s) + Len(t)
    OBVIOUS
  <2>2. CASE k < Len(s)
    <3>1. r[k] = dst[k] /\ dst[k] = s[k + 1]
      BY <1>1, <2>2 DEF MemCpy, ZeroPadded
    <3>2. (s \o t)[k + 1] = s[k + 1]
      BY <1>1, <2>2
    <3> QED
      BY <1>1, <2>1, <2>2, <3>1, <3>2
  <2>3. CASE k >= Len(s) /\ k < Len(s) + Len(t)
    <3>1. r[k] = t[k - Len(s) + 1]
      BY <1>1, <2>3 DEF MemCpy
    <3>2. (s \o t)[k + 1] = t[k + 1 - Len(s)]
      BY <1>1, <2>3
    <3>3. k - Len(s) + 1 = k + 1 - Len(s)
      BY <1>1
    <3> QED
      BY <2>1, <2>3, <3>1, <3>2, <3>3
  <2>4. CASE k >= Len(s) + Len(t)
    <3>1. r[k] = dst[k] /\ dst[k] = 0
      BY <1>1, <2>4 DEF MemCpy, ZeroPadded
    <3> QED
      BY <1>1, <2>1, <2>4, <3>1
  <2> QED
    BY <1>1, <2>2, <2>3, <2>4
<1> QED
  BY <1>2, <1>3 DEF ZeroPadded

\* strlen is defined on an array that holds a NUL, and finds the first one.
LEMMA StrLenFacts ==
  ASSUME NEW n \in Nat, NEW buf \in [0..n-1 -> Byte], NEW z \in 0..n-1, buf[z] = 0
  PROVE  IsStrLen(StrLen(buf), buf)
<1> DEFINE T == {k \in 0..n-1 : buf[k] = 0}
           R == OpToRel(<, Nat)
<1>1. T \subseteq Nat /\ T # {}
  OBVIOUS
<1>2. IsWellFoundedOn(R, Nat)
  BY NatLessThanWellFounded
<1>3. PICK m \in T : \A y \in T : ~(<<y, m>> \in R)
  BY <1>1, <1>2, WFMin
<1>4. \A k \in 0..m-1 : buf[k] # 0
  <2> SUFFICES ASSUME NEW k \in 0..m-1, buf[k] = 0 PROVE FALSE
    OBVIOUS
  <2>1. k \in T /\ k < m /\ m \in Nat
    BY <1>1
  <2>2. <<k, m>> \in R
    BY <2>1, <1>1 DEF OpToRel
  <2> QED
    BY <2>1, <2>2, <1>3
<1>5. IsStrLen(m, buf)
  BY <1>4 DEF IsStrLen
<1> QED
  BY <1>5 DEF StrLen

-----------------------------------------------------------------------------
(* The inductive invariant.  The offsets are within bounds only because no  *)
(* byte of rx_buffer's budget is forgotten (RoomAccounted).                 *)

Bounded == TypeOK /\ NoOverrun /\ RoomAccounted
Inv == Bounded /\ RxBufferFaithful /\ PacketBufferFaithful /\ PayloadExact

\* A chunk that passes process()'s size check fits behind p_rx_buffer, so rx_buffer is
\* still an array of chars after the strncpy.
LEMMA ChunkStored ==
  ASSUME Bounded, NEW buffer \in Chunk, Accepts(buffer)
  PROVE  /\ buffer \in Seq(Byte) /\ Len(buffer) \in Nat \ {0}
         /\ ChunkFits(buffer)
         /\ Stored(buffer) \in [0..RX_SIZE-1 -> Byte]
         /\ RemainingAfter(buffer) \in 0..RX_SIZE
<1>1. buffer \in Seq(Byte) /\ Len(buffer) \in Nat \ {0}
  BY ChunkAssumption
<1>2. p_rx_buffer + Len(buffer) <= RX_SIZE
  BY <1>1, SizeAssumption DEF Bounded, TypeOK, RoomAccounted, Accepts
<1>3. Stored(buffer) \in [0..RX_SIZE-1 -> Byte]
  <2>1. rx_buffer \in [0..RX_SIZE-1 -> Byte] /\ p_rx_buffer \in Nat /\ RX_SIZE \in Nat
    BY SizeAssumption DEF Bounded, TypeOK
  <2> QED
    BY <1>1, <1>2, <2>1, StrNCpyFacts DEF Stored
<1> QED
  BY <1>1, <1>2, <1>3, SizeAssumption
     DEF ChunkFits, RemainingAfter, Accepts, Bounded, TypeOK

\* What strlen delimits is a frame, so a frame that decodes yields a Packet.
LEMMA PacketDecoded ==
  ASSUME Bounded, NEW buffer \in Chunk, CompletesFrame(buffer)
  PROVE  /\ FrameOf(buffer) \in Frame
         /\ DecodedPackets(buffer) \subseteq Packet
<1> DEFINE S == Stored(buffer)
           z == p_rx_buffer + Len(buffer) - 1
<1>1. /\ buffer \in Seq(Byte) /\ Len(buffer) \in Nat \ {0}
      /\ p_rx_buffer + Len(buffer) <= RX_SIZE
      /\ S \in [0..RX_SIZE-1 -> Byte]
      /\ p_rx_buffer \in Nat /\ RX_SIZE \in Nat
      /\ rx_buffer \in [0..RX_SIZE-1 -> Byte]
  BY ChunkStored, SizeAssumption DEF CompletesFrame, ChunkFits, Bounded, TypeOK
<1>2. z \in 0..RX_SIZE-1
  BY <1>1
<1>3. S[z] = 0
  BY <1>1, StrNCpyFacts DEF CompletesFrame, EndsFrame, Stored
<1>4. IsStrLen(StrLen(S), S)
  BY <1>1, <1>2, <1>3, StrLenFacts
<1>5. StrLen(S) \in 0..RX_SIZE-1
  BY <1>1, <1>4 DEF IsStrLen
<1>6. Prefix(S, StrLen(S)) \in [1..StrLen(S) -> Byte]
  BY <1>1, <1>5 DEF Prefix
<1>7. FrameOf(buffer) \in Frame
  BY <1>5, <1>6 DEF FrameOf, Frame
<1> QED
  BY <1>7, DecodeAssumption DEF DecodedPackets

\* A packet that fits leaves packet_buffer zero padded with its data appended.
LEMMA PacketExtends ==
  ASSUME TypeOK, PacketBufferFaithful, NEW packet \in Packet, PacketFits(packet)
  PROVE  /\ packet.data \in Seq(Byte)
         /\ Extended(packet) \in [0..PACKET_BUFFER_SIZE-1 -> Byte]
         /\ ZeroPadded(Extended(packet), assembled \o packet.data)
         /\ assembled \o packet.data \in Seq(Byte)
         /\ packet_buffer_offset + Len(packet.data) \in 0..PACKET_BUFFER_SIZE
         /\ packet_buffer_offset + Len(packet.data) = Len(assembled \o packet.data)
<1>1. /\ packet.data \in Seq(Byte) /\ Len(packet.data) \in Nat
      /\ assembled \in Seq(Byte) /\ Len(assembled) = packet_buffer_offset
      /\ PACKET_BUFFER_SIZE \in Nat
      /\ packet_buffer \in [0..PACKET_BUFFER_SIZE-1 -> Byte]
      /\ ZeroPadded(packet_buffer, assembled)
      /\ Len(assembled) + Len(packet.data) <= PACKET_BUFFER_SIZE
  BY SizeAssumption DEF TypeOK, PacketBufferFaithful, Packet, PacketFits
<1>2. /\ Extended(packet) \in [0..PACKET_BUFFER_SIZE-1 -> Byte]
      /\ ZeroPadded(Extended(packet), assembled \o packet.data)
  BY <1>1, MemCpyFacts DEF Extended
<1>3. /\ assembled \o packet.data \in Seq(Byte)
      /\ Len(assembled \o packet.data) = Len(assembled) + Len(packet.data)
  BY <1>1, ConcatFacts
<1>4. packet_buffer_offset + Len(packet.data) \in 0..PACKET_BUFFER_SIZE
  BY <1>1
<1> QED
  BY <1>1, <1>2, <1>3, <1>4

\* A zeroed buffer is zero padded with nothing in front.
LEMMA ZeroedFacts ==
  ASSUME NEW n \in Nat
  PROVE  Zeroed(n) \in [0..n-1 -> Byte] /\ ZeroPadded(Zeroed(n), <<>>)
BY ByteAssumption DEF Zeroed, ZeroPadded

\* The static initialisers satisfy the invariant.
LEMMA InitInv == Init => Inv
<1> SUFFICES ASSUME Init PROVE Inv
  OBVIOUS
<1>1. /\ Zeroed(RX_SIZE) \in [0..RX_SIZE-1 -> Byte]
      /\ Zeroed(PACKET_BUFFER_SIZE) \in [0..PACKET_BUFFER_SIZE-1 -> Byte]
      /\ ZeroPadded(Zeroed(PACKET_BUFFER_SIZE), <<>>)
  BY ZeroedFacts, SizeAssumption
<1>2. TypeOK
  BY <1>1, SizeAssumption DEF Init, TypeOK
<1>3. NoOverrun /\ RoomAccounted
  BY SizeAssumption DEF Init, NoOverrun, RoomAccounted
<1>4. RxBufferFaithful
  BY DEF Init, RxBufferFaithful
<1>5. PacketBufferFaithful /\ PayloadExact
  BY <1>1 DEF Init, PacketBufferFaithful, PayloadExact
<1> QED
  BY <1>2, <1>3, <1>4, <1>5 DEF Inv, Bounded

\* packet_parser keeps packet_buffer and the payload faithful, whatever it returns.
LEMMA PacketParserInv ==
  ASSUME Inv, NEW packet \in Packet, PacketFits(packet), NEW ok \in BOOLEAN,
         packet_parser(packet, ok)
  PROVE  /\ packet_buffer' \in [0..PACKET_BUFFER_SIZE-1 -> Byte]
         /\ packet_buffer_offset' \in 0..PACKET_BUFFER_SIZE
         /\ assembled' \in Seq(Byte)
         /\ payload' \in [0..PACKET_BUFFER_SIZE-1 -> Byte]
         /\ message' \in Seq(Byte)
         /\ PacketBufferFaithful'
         /\ PayloadExact'
<1>1. /\ packet.data \in Seq(Byte)
      /\ Extended(packet) \in [0..PACKET_BUFFER_SIZE-1 -> Byte]
      /\ ZeroPadded(Extended(packet), assembled \o packet.data)
      /\ assembled \o packet.data \in Seq(Byte)
      /\ packet_buffer_offset + Len(packet.data) \in 0..PACKET_BUFFER_SIZE
      /\ packet_buffer_offset + Len(packet.data) = Len(assembled \o packet.data)
  BY PacketExtends DEF Inv, Bounded
<1>2. CASE KeepPacket(packet)
  BY <1>1, <1>2
     DEF KeepPacket, upVars, Inv, Bounded, TypeOK, PacketBufferFaithful, PayloadExact
<1>3. CASE HandOver(packet, ok) /\ ClearPacketBuffer
  <2>1. /\ Zeroed(PACKET_BUFFER_SIZE) \in [0..PACKET_BUFFER_SIZE-1 -> Byte]
        /\ ZeroPadded(Zeroed(PACKET_BUFFER_SIZE), <<>>)
        /\ 0 \in 0..PACKET_BUFFER_SIZE
    BY ZeroedFacts, SizeAssumption
  <2> QED
    BY <1>1, <1>3, <2>1
       DEF HandOver, ClearPacketBuffer, PacketBufferFaithful, PayloadExact
<1> QED
  BY <1>2, <1>3 DEF packet_parser

\* The delimiter branch keeps the budget of rx_buffer accounted for.
LEMMA FrameEndInv ==
  ASSUME Bounded, NEW buffer \in Chunk, Accepts(buffer),
         StartNextFrame, RxSuccess \/ RxFailure(buffer)
  PROVE  /\ rx_buffer' \in [0..RX_SIZE-1 -> Byte]
         /\ p_rx_buffer' \in 0..RX_SIZE
         /\ rx_buffer_remaining' \in 0..RX_SIZE
         /\ rx_handler' \in Handler \union {NULL}
         /\ retval' \in BOOLEAN
         /\ arrived' \in Seq(Byte)
         /\ leaked' \in Nat
         /\ RoomAccounted'
         /\ RxBufferFaithful'
<1>1. /\ Len(buffer) \in Nat
      /\ Stored(buffer) \in [0..RX_SIZE-1 -> Byte]
      /\ RemainingAfter(buffer) \in 0..RX_SIZE
      /\ Zeroed(RX_SIZE) \in [0..RX_SIZE-1 -> Byte]
      /\ RX_SIZE \in Nat
      /\ p_rx_buffer \in Nat /\ leaked \in Nat /\ rx_buffer_remaining \in Nat
      /\ p_rx_buffer + rx_buffer_remaining + leaked = RX_SIZE
  <2>1. /\ Len(buffer) \in Nat
        /\ Stored(buffer) \in [0..RX_SIZE-1 -> Byte]
        /\ RemainingAfter(buffer) \in 0..RX_SIZE
    BY ChunkStored
  <2>2. RX_SIZE \in Nat /\ Zeroed(RX_SIZE) \in [0..RX_SIZE-1 -> Byte]
    BY ZeroedFacts, SizeAssumption
  <2> QED
    BY <2>1, <2>2 DEF Bounded, TypeOK, RoomAccounted
<1>2. /\ p_rx_buffer' = 0 /\ arrived' = <<>> /\ rx_handler' = rx_handler
      /\ p_rx_buffer' \in 0..RX_SIZE
      /\ arrived' \in Seq(Byte)
      /\ rx_handler' \in Handler \union {NULL}
  BY <1>1 DEF StartNextFrame, Bounded, TypeOK
<1>3. RxBufferFaithful'
  BY <1>2 DEF RxBufferFaithful
<1>4. CASE RxSuccess
  <2>1. leaked' \in Nat /\ RoomAccounted'
    BY <1>1, <1>2, <1>4 DEF RxSuccess, RoomAccounted
  <2>2. rx_buffer_remaining' \in 0..RX_SIZE
    BY <1>1, <1>4 DEF RxSuccess
  <2> QED
    BY <1>1, <1>2, <1>3, <1>4, <2>1, <2>2 DEF RxSuccess
<1>5. CASE RxFailure(buffer)
  <2>1. leaked' \in Nat /\ RoomAccounted'
    BY <1>1, <1>2, <1>5 DEF RxFailure, RoomAccounted, RemainingAfter
  <2> QED
    BY <1>1, <1>2, <1>3, <1>5, <2>1 DEF RxFailure
<1> QED
  BY <1>4, <1>5

\* A chunk without delimiter is appended to the frame being received.
LEMMA StoreChunkInv ==
  ASSUME Inv, NEW buffer \in Chunk, StoreChunk(buffer)
  PROVE  Inv'
<1>1. /\ buffer \in Seq(Byte) /\ Len(buffer) \in Nat \ {0}
      /\ ChunkFits(buffer)
      /\ Stored(buffer) \in [0..RX_SIZE-1 -> Byte]
      /\ RemainingAfter(buffer) \in 0..RX_SIZE
  BY ChunkStored DEF Inv, StoreChunk
<1>2. /\ rx_buffer \in [0..RX_SIZE-1 -> Byte] /\ RX_SIZE \in Nat
      /\ p_rx_buffer \in Nat /\ rx_buffer_remaining \in Nat /\ leaked \in Nat
      /\ p_rx_buffer + rx_buffer_remaining + leaked = RX_SIZE
      /\ p_rx_buffer + Len(buffer) <= RX_SIZE
      /\ arrived \in Seq(Byte) /\ Len(arrived) = p_rx_buffer
  BY <1>1, SizeAssumption
     DEF Inv, Bounded, TypeOK, RoomAccounted, RxBufferFaithful, ChunkFits
<1>3. /\ rx_buffer' = Stored(buffer)
      /\ p_rx_buffer' = p_rx_buffer + Len(buffer)
      /\ rx_buffer_remaining' = rx_buffer_remaining - Len(buffer)
      /\ arrived' = arrived \o buffer
      /\ leaked' = leaked
      /\ retval' = TRUE
      /\ overrun' = FALSE
      /\ UNCHANGED <<packet_buffer, packet_buffer_offset, assembled, payload, message, rx_handler>>
  BY <1>1 DEF StoreChunk, RemainingAfter, packetVars, upVars
<1>4. arrived' \in Seq(Byte) /\ Len(arrived') = p_rx_buffer'
  BY <1>1, <1>2, <1>3, ConcatFacts
<1>5. TypeOK'
  <2>1. p_rx_buffer' \in 0..RX_SIZE /\ rx_buffer_remaining' \in 0..RX_SIZE
    BY <1>1, <1>2, <1>3 DEF RemainingAfter
  <2> QED
    BY <1>1, <1>3, <1>4, <2>1 DEF Inv, Bounded, TypeOK
<1>6. NoOverrun' /\ RoomAccounted'
  <2>1. NoOverrun'
    BY <1>3 DEF NoOverrun
  <2>2. Len(buffer) \in Nat
    BY <1>1
  <2>3. (p_rx_buffer + Len(buffer)) + (rx_buffer_remaining - Len(buffer)) + leaked = RX_SIZE
    BY <1>2, <2>2
  <2>4. RoomAccounted'
    BY <1>3, <2>3 DEF RoomAccounted
  <2> QED
    BY <2>1, <2>4
<1>7. RxBufferFaithful'
  <2>0. /\ \A k \in 0..p_rx_buffer-1 : Stored(buffer)[k] = rx_buffer[k]
        /\ \A k \in 0..Len(buffer)-1 :
             (\A i \in 1..k : buffer[i] # 0) => Stored(buffer)[p_rx_buffer + k] = buffer[k + 1]
    <3>1. /\ rx_buffer \in [0..RX_SIZE-1 -> Byte] /\ RX_SIZE \in Nat /\ p_rx_buffer \in Nat
          /\ buffer \in Seq(Byte) /\ p_rx_buffer + Len(buffer) <= RX_SIZE
      BY <1>1, <1>2
    <3> QED
      BY <3>1, StrNCpyFacts DEF Stored
  <2>1. ASSUME NEW j \in 0..p_rx_buffer'-1, \A i \in 1..j : arrived'[i] # 0
        PROVE  rx_buffer'[j] = arrived'[j + 1]
    <3>1. CASE j < p_rx_buffer
      <4>1. rx_buffer'[j] = rx_buffer[j]
        BY <1>2, <1>3, <2>0, <3>1
      <4>2. \A i \in 1..j+1 : arrived'[i] = arrived[i]
        BY <1>1, <1>2, <1>3, <3>1
      <4>3. \A i \in 1..j : arrived[i] # 0
        BY <2>1, <4>2, <1>2, <3>1
      <4> QED
        BY <4>1, <4>2, <4>3, <1>2, <3>1 DEF Inv, RxBufferFaithful
    <3>2. CASE j >= p_rx_buffer
      <4> DEFINE d == j - p_rx_buffer
      <4>1. d \in 0..Len(buffer)-1 /\ j = p_rx_buffer + d
        BY <1>1, <1>2, <1>3, <3>2
      <4>2. \A i \in 1..d+1 : arrived'[p_rx_buffer + i] = buffer[i]
        BY SMTT(30), <1>1, <1>2, <1>3, <4>1
      <4>3. \A i \in 1..d : buffer[i] # 0
        <5> SUFFICES ASSUME NEW i \in 1..d PROVE buffer[i] # 0
          OBVIOUS
        <5>1. p_rx_buffer + i \in 1..j /\ i \in 1..d+1
          BY <1>2, <4>1
        <5> QED
          BY <5>1, <2>1, <4>2
      <4>4. Stored(buffer)[p_rx_buffer + d] = buffer[d + 1]
        BY <2>0, <4>1, <4>3
      <4>5. arrived'[p_rx_buffer + (d + 1)] = buffer[d + 1]
        BY <1>1, <4>1, <4>2
      <4>6. j + 1 = p_rx_buffer + (d + 1)
        BY <1>2, <4>1
      <4> QED
        BY <1>3, <4>1, <4>4, <4>5, <4>6
    <3> QED
      BY <1>2, <3>1, <3>2
  <2> QED
    BY <1>4, <2>1 DEF RxBufferFaithful
<1>8. PacketBufferFaithful' /\ PayloadExact'
  BY <1>3 DEF Inv, PacketBufferFaithful, PayloadExact
<1> QED
  BY <1>5, <1>6, <1>7, <1>8 DEF Inv, Bounded

\* A frame that does not decode changes nothing of the message being assembled.
LEMMA BadFrameInv ==
  ASSUME Inv, NEW buffer \in Chunk, BadFrame(buffer)
  PROVE  Inv'
<1>1. /\ rx_buffer' \in [0..RX_SIZE-1 -> Byte]
      /\ p_rx_buffer' \in 0..RX_SIZE
      /\ rx_buffer_remaining' \in 0..RX_SIZE
      /\ rx_handler' \in Handler \union {NULL}
      /\ retval' \in BOOLEAN
      /\ arrived' \in Seq(Byte)
      /\ leaked' \in Nat
      /\ RoomAccounted'
      /\ RxBufferFaithful'
  BY FrameEndInv DEF BadFrame, CompletesFrame, Inv
<1>2. /\ UNCHANGED <<packet_buffer, packet_buffer_offset, assembled>>
      /\ UNCHANGED <<payload, message, overrun>>
  BY DEF BadFrame, packetVars, upVars
<1>3. TypeOK'
  BY <1>1, <1>2 DEF Inv, Bounded, TypeOK
<1>4. NoOverrun' /\ PacketBufferFaithful' /\ PayloadExact'
  BY <1>2 DEF Inv, Bounded, NoOverrun, PacketBufferFaithful, PayloadExact
<1> QED
  BY <1>1, <1>3, <1>4 DEF Inv, Bounded

\* A frame whose packet has room in packet_buffer, handled or not.
LEMMA PacketInv ==
  ASSUME Inv, NEW buffer \in Chunk, Accepts(buffer), NEW packet \in Packet, PacketFits(packet),
         GoodFrame(buffer, packet) \/ UnhandledMessage(buffer, packet)
  PROVE  Inv'
<1>1. PICK ok \in BOOLEAN : packet_parser(packet, ok)
  BY DEF GoodFrame, UnhandledMessage
<1>2. /\ packet_buffer' \in [0..PACKET_BUFFER_SIZE-1 -> Byte]
      /\ packet_buffer_offset' \in 0..PACKET_BUFFER_SIZE
      /\ assembled' \in Seq(Byte)
      /\ payload' \in [0..PACKET_BUFFER_SIZE-1 -> Byte]
      /\ message' \in Seq(Byte)
      /\ PacketBufferFaithful'
      /\ PayloadExact'
  BY <1>1, PacketParserInv
<1>3. StartNextFrame /\ (RxSuccess \/ RxFailure(buffer))
  BY DEF GoodFrame, UnhandledMessage
<1>4. /\ rx_buffer' \in [0..RX_SIZE-1 -> Byte]
      /\ p_rx_buffer' \in 0..RX_SIZE
      /\ rx_buffer_remaining' \in 0..RX_SIZE
      /\ rx_handler' \in Handler \union {NULL}
      /\ retval' \in BOOLEAN
      /\ arrived' \in Seq(Byte)
      /\ leaked' \in Nat
      /\ RoomAccounted'
      /\ RxBufferFaithful'
  BY <1>3, FrameEndInv DEF Inv
<1>5. overrun' = FALSE
  BY DEF GoodFrame, UnhandledMessage
<1>6. TypeOK' /\ NoOverrun'
  BY <1>2, <1>4, <1>5 DEF TypeOK, NoOverrun
<1> QED
  BY <1>2, <1>4, <1>6 DEF Inv, Bounded

\* A frame that decodes, from a peer that respects packet_buffer's size.
LEMMA ParseFrameInv ==
  ASSUME Inv, NEW buffer \in Chunk, PeerRespectsSize(buffer), ParseFrame(buffer)
  PROVE  Inv'
<1>1. CompletesFrame(buffer) /\ Accepts(buffer)
  BY DEF ParseFrame, CompletesFrame
<1>2. PICK packet \in DecodedPackets(buffer) :
        GoodFrame(buffer, packet) \/ UnhandledMessage(buffer, packet)
  BY DEF ParseFrame
<1>3. packet \in Packet /\ PacketFits(packet)
  BY <1>1, PacketDecoded DEF PeerRespectsSize, Inv
<1> QED
  BY <1>1, <1>2, <1>3, PacketInv

\* Every step of the receiver preserves the invariant.
LEMMA NextInv == Inv /\ [Next]_vars => Inv'
<1> SUFFICES ASSUME Inv, [Next]_vars PROVE Inv'
  OBVIOUS
<1>1. ASSUME NEW buffer \in Chunk, PeerRespectsSize(buffer), process(buffer) PROVE Inv'
  <2>1. CASE RejectChunk(buffer)
    BY <2>1 DEF RejectChunk, rxVars, packetVars, upVars, Inv, Bounded, TypeOK, NoOverrun,
                RoomAccounted, RxBufferFaithful, PacketBufferFaithful, PayloadExact
  <2>2. CASE StoreChunk(buffer)
    BY <2>2, StoreChunkInv
  <2>3. CASE BadFrame(buffer)
    BY <2>3, BadFrameInv
  <2>4. CASE ParseFrame(buffer)
    BY <1>1, <2>4, ParseFrameInv
  <2> QED
    BY <1>1, <2>1, <2>2, <2>3, <2>4 DEF process
<1>2. CASE ResetBetweenFrames
  <2>1. /\ p_rx_buffer' = 0 /\ p_rx_buffer = 0 /\ leaked' = 0
        /\ rx_buffer' = Zeroed(RX_SIZE) /\ rx_buffer_remaining' = RX_SIZE
        /\ UNCHANGED <<arrived, packet_buffer, packet_buffer_offset, assembled>>
        /\ UNCHANGED <<payload, message, rx_handler, retval, overrun>>
    BY <1>2 DEF ResetBetweenFrames, reset_rx_buffer, packetVars, upVars
  <2>2. RX_SIZE \in Nat /\ Zeroed(RX_SIZE) \in [0..RX_SIZE-1 -> Byte]
    BY ZeroedFacts, SizeAssumption
  <2>3. TypeOK'
    BY <2>1, <2>2 DEF Inv, Bounded, TypeOK
  <2>4. NoOverrun' /\ RoomAccounted'
    BY <2>1, <2>2 DEF Inv, Bounded, NoOverrun, RoomAccounted
  <2>5. RxBufferFaithful'
    BY <2>1 DEF Inv, RxBufferFaithful
  <2>6. PacketBufferFaithful' /\ PayloadExact'
    BY <2>1 DEF Inv, PacketBufferFaithful, PayloadExact
  <2> QED
    BY <2>3, <2>4, <2>5, <2>6 DEF Inv, Bounded
<1>3. CASE reset_packet_buffer
  <2>1. /\ packet_buffer' = Zeroed(PACKET_BUFFER_SIZE) /\ packet_buffer_offset' = 0
        /\ assembled' = <<>>
        /\ UNCHANGED <<rx_buffer, p_rx_buffer, rx_buffer_remaining, arrived, leaked>>
        /\ UNCHANGED <<payload, message, rx_handler, retval, overrun>>
    BY <1>3 DEF reset_packet_buffer, ClearPacketBuffer, rxVars, upVars
  <2>2. /\ Zeroed(PACKET_BUFFER_SIZE) \in [0..PACKET_BUFFER_SIZE-1 -> Byte]
        /\ ZeroPadded(Zeroed(PACKET_BUFFER_SIZE), <<>>)
        /\ 0 \in 0..PACKET_BUFFER_SIZE
    BY ZeroedFacts, SizeAssumption
  <2>3. TypeOK'
    BY <2>1, <2>2 DEF Inv, Bounded, TypeOK
  <2>4. NoOverrun' /\ RoomAccounted' /\ RxBufferFaithful' /\ PayloadExact'
    BY <2>1 DEF Inv, Bounded, NoOverrun, RoomAccounted, RxBufferFaithful, PayloadExact
  <2>5. PacketBufferFaithful'
    BY <2>1, <2>2 DEF PacketBufferFaithful
  <2> QED
    BY <2>3, <2>4, <2>5 DEF Inv, Bounded
<1>4. ASSUME NEW h \in Handler \union {NULL}, register_rx_handler(h) PROVE Inv'
  BY <1>4 DEF register_rx_handler, rxVars, packetVars, upVars, Inv, Bounded, TypeOK, NoOverrun,
              RoomAccounted, RxBufferFaithful, PacketBufferFaithful, PayloadExact
<1>5. CASE UNCHANGED vars
  BY <1>5 DEF vars, rxVars, packetVars, upVars, Inv, Bounded, TypeOK, NoOverrun,
              RoomAccounted, RxBufferFaithful, PacketBufferFaithful, PayloadExact
<1> QED
  BY <1>1, <1>2, <1>3, <1>4, <1>5 DEF Next, Configure

-----------------------------------------------------------------------------
\* Every reachable state of the receiver satisfies the invariant.
LEMMA InvHolds == Spec => []Inv
<1>1. Init => Inv
  BY InitInv
<1>2. Inv /\ [Next]_vars => Inv'
  BY NextInv
<1> QED
  BY <1>1, <1>2, PTL DEF Spec

\* The offsets into rx_buffer and packet_buffer stay in range, and rx_buffer_remaining
\* never becomes negative, for every buffer size and codec.
THEOREM RxTypeCorrect == Spec => []TypeOK
<1>1. Inv => TypeOK
  BY DEF Inv, Bounded
<1> QED
  BY <1>1, InvHolds, PTL

\* process() and packet_parser() never write outside their arrays as long as the peer's
\* messages fit packet_buffer and rx_buffer is reset between frames only.
THEOREM RxNoOverrun == Spec => []NoOverrun
<1>1. Inv => NoOverrun
  BY DEF Inv, Bounded
<1> QED
  BY <1>1, InvHolds, PTL

\* The bytes of rx_buffer's budget are free, part of the frame being received, or lost to
\* frames that failed since the last reset; process() never counts one twice.
THEOREM RxRoomAccounted == Spec => []RoomAccounted
<1>1. Inv => RoomAccounted
  BY DEF Inv, Bounded
<1> QED
  BY <1>1, InvHolds, PTL

\* The unfinished frame in rx_buffer is what arrived since the last delimiter.
THEOREM RxFrameFaithful == Spec => []RxBufferFaithful
<1>1. Inv => RxBufferFaithful
  BY DEF Inv
<1> QED
  BY <1>1, InvHolds, PTL

\* packet_buffer holds the data of the message's packets so far and nothing else.
THEOREM RxPacketBufferFaithful == Spec => []PacketBufferFaithful
<1>1. Inv => PacketBufferFaithful
  BY DEF Inv
<1> QED
  BY <1>1, InvHolds, PTL

\* rx_handler and unmarshal get exactly the data of one message, zero padded.
THEOREM RxPayloadExact == Spec => []PayloadExact
<1>1. Inv => PayloadExact
  BY DEF Inv
<1> QED
  BY <1>1, InvHolds, PTL
=============================================================================
