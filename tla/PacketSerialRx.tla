--------------------------- MODULE PacketSerialRx ---------------------------
(***************************************************************************)
(* The receive half of src/src/PacketSerial.c: process() collects the      *)
(* bytes of a COBS frame in rx_buffer until the delimiter arrives, decodes *)
(* the frame into a Packet, and packet_parser() collects the data of the   *)
(* packets in packet_buffer until one is flagged LAST or FIRSTLAST; then   *)
(* the whole packet_buffer goes to rx_handler or, without one, to          *)
(* ProtoBuff.unmarshal.                                                    *)
(*                                                                         *)
(* C arrays are functions on 0..size-1 and the two pointers into them are  *)
(* offsets.  What COBS and nanopb make of a frame, and what the registered *)
(* message handlers make of a payload, are parameters.                     *)
(***************************************************************************)
EXTENDS Integers, Sequences

CONSTANTS
  RX_SIZE,              \* sizeof(rx_buffer) = Packet_size + 1
  PACKET_BUFFER_SIZE,   \* sizeof(packet_buffer)
  Byte,                 \* the values of a char, the delimiter 0 among them
  Chunk,                \* what the UART driver may pass to one process() call
  NoPacket,             \* a frame that does not decode
  Decode(_),            \* frame -> the possible results of cobs_decode + pb_decode
  Unmarshal(_),         \* payload -> the possible results of ProtoBuff.unmarshal
  Handler,              \* functions an application may register as rx_handler
  NULL

\* Packet.Flag of packetserial.proto, and the part of a Packet the receiver reads.
Flag == {"FIRST", "CONTINUE", "LAST", "FIRSTLAST"}
Packet == [data : Seq(Byte), flag : Flag]

\* Everything strlen can find in rx_buffer: at most RX_SIZE - 1 bytes.
Frame == UNION {[1..n -> Byte] : n \in 0..RX_SIZE-1}

ASSUME SizeAssumption == RX_SIZE \in Nat \ {0} /\ PACKET_BUFFER_SIZE \in Nat \ {0}
ASSUME ByteAssumption == Byte \subseteq Nat /\ 0 \in Byte
ASSUME ChunkAssumption == Chunk \subseteq Seq(Byte) \ {<<>>}
ASSUME DecodeAssumption == \A frame \in Frame : Decode(frame) \subseteq Packet \union {NoPacket}
ASSUME HandlerAssumption == NULL \notin Handler

VARIABLES
  rx_buffer, p_rx_buffer, rx_buffer_remaining,
  packet_buffer, packet_buffer_offset,
  rx_handler,
  retval,      \* what the last process() call returned
  payload,     \* what rx_handler or unmarshal was last given
  overrun,     \* a write left its array: from here on C promises nothing
  arrived,     \* history: bytes stored since the last delimiter
  leaked,      \* history: bytes of failed frames since rx_buffer was last reset
  assembled,   \* history: data received since packet_buffer was last reset
  message      \* history: all the data the last payload should hold

rxVars == <<rx_buffer, p_rx_buffer, rx_buffer_remaining, arrived, leaked>>
packetVars == <<packet_buffer, packet_buffer_offset, assembled>>
upVars == <<payload, message>>
vars == <<rxVars, packetVars, upVars, rx_handler, retval, overrun>>

Zeroed(size) == [k \in 0..size-1 |-> 0]

-----------------------------------------------------------------------------
(***************************************************************************)
(* The C library calls the receiver relies on.                             *)
(***************************************************************************)

\* strncpy(dst + off, src, Len(src)): copies up to and including the first NUL
\* of src and pads the rest of the Len(src) bytes with NULs.
StrNCpy(dst, off, src) ==
  [k \in DOMAIN dst |->
     IF k < off \/ k >= off + Len(src) THEN dst[k]
     ELSE IF \E j \in 1..k-off : src[j] = 0 THEN 0
     ELSE src[k - off + 1]]

\* memcpy(dst + off, src, Len(src))
MemCpy(dst, off, src) ==
  [k \in DOMAIN dst |->
     IF k < off \/ k >= off + Len(src) THEN dst[k] ELSE src[k - off + 1]]

\* n = strlen(buf)
IsStrLen(n, buf) ==
  /\ n \in DOMAIN buf
  /\ buf[n] = 0
  /\ \A k \in 0..n-1 : buf[k] # 0

StrLen(buf) == CHOOSE n \in DOMAIN buf : IsStrLen(n, buf)

\* The first n chars of buf: what cobs_decode is given.
Prefix(buf, n) == [k \in 1..n |-> buf[k-1]]

-----------------------------------------------------------------------------
Init ==
  /\ rx_buffer = Zeroed(RX_SIZE)
  /\ p_rx_buffer = 0
  /\ rx_buffer_remaining = RX_SIZE
  /\ packet_buffer = Zeroed(PACKET_BUFFER_SIZE)
  /\ packet_buffer_offset = 0
  /\ rx_handler = NULL
  /\ retval = TRUE
  /\ payload = Zeroed(PACKET_BUFFER_SIZE)
  /\ overrun = FALSE
  /\ arrived = <<>>
  /\ leaked = 0
  /\ assembled = <<>>
  /\ message = <<>>

-----------------------------------------------------------------------------
(***************************************************************************)
(* packet_parser(): the effect of one decoded packet on packet_buffer.     *)
(***************************************************************************)

RewindPacketBuffer ==      \* a mutant: the memset is missing
  /\ packet_buffer_offset' = 0
  /\ assembled' = <<>>
  /\ UNCHANGED packet_buffer

\* The body of reset_packet_buffer().
ClearPacketBuffer ==
  /\ packet_buffer' = Zeroed(PACKET_BUFFER_SIZE)
  /\ packet_buffer_offset' = 0
  /\ assembled' = <<>>

PacketFits(packet) ==
  packet_buffer_offset + Len(packet.data) <= PACKET_BUFFER_SIZE

\* packet_buffer after the memcpy of packet_parser, which checks no bound.
ExtendedAtStart(packet) == MemCpy(packet_buffer, 0, packet.data)   \* a mutant
Extended(packet) == MemCpy(packet_buffer, packet_buffer_offset, packet.data)

EndsMessage(packet) == packet.flag \in {"LAST", "FIRSTLAST"}

KeepPacket(packet) ==
  /\ ~EndsMessage(packet)
  /\ packet_buffer' = Extended(packet)
  /\ packet_buffer_offset' = packet_buffer_offset + Len(packet.data)
  /\ assembled' = assembled \o packet.data
  /\ UNCHANGED upVars

\* rx_handler's own result is ignored, unmarshal's is not (ok).
HandOver(packet, ok) ==
  /\ EndsMessage(packet)
  /\ IF rx_handler # NULL THEN ok ELSE ok \in Unmarshal(Extended(packet))
  /\ payload' = Extended(packet)
  /\ message' = assembled \o packet.data

\* The end of a message empties packet_buffer, whatever becomes of the payload.
packet_parser(packet, ok) ==
  \/ KeepPacket(packet) /\ ok
  \/ HandOver(packet, ok) /\ ClearPacketBuffer

-----------------------------------------------------------------------------
(***************************************************************************)
(* process(buffer, size), one action per way through it.  Its one check is *)
(* against rx_buffer_remaining; that the chunk also fits behind            *)
(* p_rx_buffer, and the packet behind packet_buffer_offset, is not tested: *)
(* the write is clipped here and overrun is set.                           *)
(***************************************************************************)

\* The early return: nothing is stored and nothing is reset.
RejectChunk(buffer) ==
  /\ Len(buffer) > rx_buffer_remaining
  /\ retval' = FALSE
  /\ UNCHANGED <<rxVars, packetVars, upVars, rx_handler, overrun>>

AcceptsOneTooMany(buffer) == Len(buffer) <= rx_buffer_remaining + 1   \* a mutant
Accepts(buffer) == Len(buffer) <= rx_buffer_remaining

ChunkFits(buffer) == p_rx_buffer + Len(buffer) <= RX_SIZE
EndsFrame(buffer) == buffer[Len(buffer)] = 0

\* rx_buffer after the strncpy.
StoredAtStart(buffer) == StrNCpy(rx_buffer, 0, buffer)   \* a mutant
Stored(buffer) == StrNCpy(rx_buffer, p_rx_buffer, buffer)

RemainingKept(buffer) == rx_buffer_remaining   \* a mutant
RemainingAfter(buffer) == rx_buffer_remaining - Len(buffer)

StoreChunk(buffer) ==
  /\ Accepts(buffer)
  /\ ChunkFits(buffer) => ~EndsFrame(buffer)
  /\ rx_buffer' = Stored(buffer)
  /\ p_rx_buffer' = p_rx_buffer + Len(buffer)
  /\ rx_buffer_remaining' = RemainingAfter(buffer)
  /\ arrived' = arrived \o buffer
  /\ retval' = TRUE
  /\ overrun' = ~ChunkFits(buffer)
  /\ UNCHANGED <<packetVars, upVars, rx_handler, leaked>>

CompletesFrame(buffer) == Accepts(buffer) /\ ChunkFits(buffer) /\ EndsFrame(buffer)

\* The frame that a chunk ending in the delimiter completes.
FrameOf(buffer) == Prefix(Stored(buffer), StrLen(Stored(buffer)))

\* return_val is true: reset_rx_buffer().
RxSuccess ==
  /\ rx_buffer' = Zeroed(RX_SIZE)
  /\ rx_buffer_remaining' = RX_SIZE
  /\ leaked' = 0
  /\ retval' = TRUE

\* return_val is false: rx_buffer_remaining stays lowered.
RxFailure(buffer) ==
  /\ rx_buffer' = Stored(buffer)
  /\ rx_buffer_remaining' = RemainingAfter(buffer)
  /\ leaked' = leaked + p_rx_buffer + Len(buffer)
  /\ retval' = FALSE

StayBehindFrame ==       \* a mutant: the assignment is missing
  /\ p_rx_buffer' = p_rx_buffer
  /\ arrived' = <<>>
  /\ UNCHANGED rx_handler

\* p_rx_buffer = rx_buffer ends the delimiter branch either way.
StartNextFrame ==
  /\ p_rx_buffer' = 0
  /\ arrived' = <<>>
  /\ UNCHANGED rx_handler

BadFrame(buffer) ==
  /\ CompletesFrame(buffer)
  /\ NoPacket \in Decode(FrameOf(buffer))
  /\ RxFailure(buffer)
  /\ StartNextFrame
  /\ UNCHANGED <<packetVars, upVars, overrun>>

GoodFrame(buffer, packet) ==
  /\ packet_parser(packet, TRUE)
  /\ RxSuccess
  /\ StartNextFrame
  /\ overrun' = ~PacketFits(packet)

UnhandledMessage(buffer, packet) ==
  /\ packet_parser(packet, FALSE)
  /\ RxFailure(buffer)
  /\ StartNextFrame
  /\ overrun' = ~PacketFits(packet)

DecodedPackets(buffer) == Decode(FrameOf(buffer)) \ {NoPacket}

ParseFrame(buffer) ==
  /\ CompletesFrame(buffer)
  /\ \E packet \in DecodedPackets(buffer) :
       GoodFrame(buffer, packet) \/ UnhandledMessage(buffer, packet)

process(buffer) ==
  /\ ~overrun
  /\ \/ RejectChunk(buffer)
     \/ StoreChunk(buffer)
     \/ BadFrame(buffer)
     \/ ParseFrame(buffer)

-----------------------------------------------------------------------------
(***************************************************************************)
(* The other entry points of the receive half.                             *)
(***************************************************************************)

\* Does not touch p_rx_buffer: bytes already collected stay counted there.
reset_rx_buffer ==
  /\ rx_buffer' = Zeroed(RX_SIZE)
  /\ rx_buffer_remaining' = RX_SIZE
  /\ leaked' = 0
  /\ UNCHANGED <<p_rx_buffer, arrived, packetVars, upVars, rx_handler, retval, overrun>>

reset_packet_buffer ==
  /\ ClearPacketBuffer
  /\ UNCHANGED <<rxVars, upVars, rx_handler, retval, overrun>>

register_rx_handler(h) ==
  /\ rx_handler' = h
  /\ UNCHANGED <<rxVars, packetVars, upVars, retval, overrun>>

-----------------------------------------------------------------------------
(***************************************************************************)
(* Two environments.  The program is the same in both; they differ in what *)
(* the peer sends.                                                         *)
(***************************************************************************)

\* A message of the peer never outgrows packet_buffer.
PeerRespectsSize(buffer) ==
  CompletesFrame(buffer) => \A packet \in DecodedPackets(buffer) : PacketFits(packet)

\* The application resets rx_buffer between frames only.
ResetBetweenFrames == p_rx_buffer = 0 /\ reset_rx_buffer

Configure ==
  \/ reset_packet_buffer
  \/ \E h \in Handler \union {NULL} : register_rx_handler(h)

Next ==
  \/ \E buffer \in Chunk : PeerRespectsSize(buffer) /\ process(buffer)
  \/ ResetBetweenFrames
  \/ Configure

\* A peer that sends messages of any size.
NextAnyPeer == (\E buffer \in Chunk : process(buffer)) \/ ResetBetweenFrames \/ Configure

Spec == Init /\ [][Next]_vars
SpecAnyPeer == Init /\ [][NextAnyPeer]_vars

-----------------------------------------------------------------------------
\* The offsets stay within their arrays and rx_buffer_remaining is never negative
\* (it is a signed int compared with a size_t in process()).
TypeOK ==
  /\ rx_buffer \in [0..RX_SIZE-1 -> Byte]
  /\ p_rx_buffer \in 0..RX_SIZE
  /\ rx_buffer_remaining \in 0..RX_SIZE
  /\ packet_buffer \in [0..PACKET_BUFFER_SIZE-1 -> Byte]
  /\ packet_buffer_offset \in 0..PACKET_BUFFER_SIZE
  /\ rx_handler \in Handler \union {NULL}
  /\ retval \in BOOLEAN
  /\ payload \in [0..PACKET_BUFFER_SIZE-1 -> Byte]
  /\ overrun \in BOOLEAN
  /\ arrived \in Seq(Byte)
  /\ leaked \in Nat
  /\ assembled \in Seq(Byte)
  /\ message \in Seq(Byte)

\* No strncpy of process() and no memcpy of packet_parser() leaves its array:
\* the single check against rx_buffer_remaining protects rx_buffer although
\* failed frames move p_rx_buffer back without giving their bytes back.
NoOverrun == ~overrun

\* Every byte of rx_buffer's budget is either free, held by the frame being
\* received, or lost to a frame that failed since the last reset.
RoomAccounted == p_rx_buffer + rx_buffer_remaining + leaked = RX_SIZE

\* Unless a NUL came inside a chunk, the bytes before p_rx_buffer are the bytes
\* received since the last delimiter, in order, whatever failed frames left there.
RxBufferFaithful ==
  /\ Len(arrived) = p_rx_buffer
  /\ \A j \in 0..p_rx_buffer-1 :
       (\A i \in 1..j : arrived[i] # 0) => rx_buffer[j] = arrived[j+1]

\* buf holds seq and then zeros.
ZeroPadded(buf, seq) ==
  \A k \in DOMAIN buf : buf[k] = IF k < Len(seq) THEN seq[k+1] ELSE 0

\* packet_buffer holds the data of the message so far and zeros behind it.
PacketBufferFaithful ==
  /\ packet_buffer_offset = Len(assembled)
  /\ ZeroPadded(packet_buffer, assembled)

\* What rx_handler or unmarshal gets, always PACKET_BUFFER_SIZE bytes long, is the
\* data of the packets since the previous message ended, zero padded: no residue of
\* an earlier, longer message can follow a shorter one.
PayloadExact == ZeroPadded(payload, message)

\* What the overflow message of process() calls "remaining" is the room behind
\* p_rx_buffer.
RemainingIsRoom == rx_buffer_remaining = RX_SIZE - p_rx_buffer
=============================================================================
