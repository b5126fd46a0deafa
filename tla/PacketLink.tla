----------------------------- MODULE PacketLink -----------------------------
(***************************************************************************)
(* Two devices: PacketSerialTx on one, PacketSerialRx on the other, and    *)
(* between them a serial line that neither loses nor changes a byte.  The  *)
(* tx_handler of the sender writes to the line, the receiver's driver      *)
(* passes what has arrived to process() in pieces that end with a          *)
(* delimiter or hold none.  Both devices run at the same time: a packet    *)
(* may be received while the sender builds the next one.                   *)
(***************************************************************************)
EXTENDS Integers, Sequences

CONSTANTS
  DATA_MAX, SEQ_MOD, SIZE_MOD,    \* see PacketSerialTx
  RX_SIZE, PACKET_BUFFER_SIZE,    \* see PacketSerialRx
  Byte, NoPacket,
  Encode(_),      \* the bytes send() makes of a Packet, without the delimiter
  Decode(_),      \* the Packets process() may make of a frame
  Message,        \* payloads the application sends, as sequences of bytes
  PieceSize,      \* how many bytes the driver may pass to process() at once
  MAX_IN_FLIGHT,  \* bound: messages on their way at any time
  uart,           \* the sender's tx_handler
  NULL

ASSUME MessageAssumption ==
  \A m \in Message : m \in Seq(Byte) /\ Len(m) \in 1..PACKET_BUFFER_SIZE
ASSUME PieceAssumption == PieceSize \subseteq Nat \ {0}
\* size_t has room for a message's size and a packet's data: send()'s ceiling does not wrap.
ASSUME SenderAssumption ==
  /\ DATA_MAX \in Nat /\ DATA_MAX > 1
  /\ SEQ_MOD \in Nat \ {0}
  /\ SIZE_MOD \in Nat /\ PACKET_BUFFER_SIZE + DATA_MAX <= SIZE_MOD
  /\ uart # NULL
ASSUME ReceiverAssumption ==
  /\ RX_SIZE \in Nat \ {0} /\ PACKET_BUFFER_SIZE \in Nat \ {0}
  /\ Byte \subseteq Nat /\ 0 \in Byte

VARIABLES
  pc, size, i, buffer_offset, return_status, tx_handler, packets, refused,
  rx_buffer, p_rx_buffer, rx_buffer_remaining, packet_buffer, packet_buffer_offset,
  rx_handler, retval, payload, overrun, arrived, leaked, assembled, message,
  buffer,      \* what send() was called with
  line,        \* bytes written by tx_handler that process() has not seen
  in_flight    \* history: what send() makes of the messages not handed over yet

Sizes == {Len(m) : m \in Message}

\* The sender.  Its packets name the part of buffer they carry.
Tx == INSTANCE PacketSerialTx WITH Size <- Sizes, Handler <- {uart}

\* The receiver: every message type has a handler.  Its pieces come from the line.
HandledType(buf) == {TRUE}
Rx == INSTANCE PacketSerialRx
        WITH Chunk <- {}, Handler <- {}, Unmarshal <- HandledType

\* A packet that send() may make of m: its k-th, with n bytes of data.
PacketOf(m, k, n, flag) ==
  [data |-> SubSeq(m, k * Tx!data_chunk_size + 1, k * Tx!data_chunk_size + n),
   sequence_number |-> k % SEQ_MOD, flag |-> flag]

\* The frame of a packet holds no zero, has room in rx_buffer and decodes to its data and flag.
Survives(packet) ==
  /\ Encode(packet) \in Seq(Byte \ {0})
  /\ Len(Encode(packet)) < RX_SIZE
  /\ Decode(Encode(packet)) = {[data |-> packet.data, flag |-> packet.flag]}
  /\ NoPacket \notin Decode(Encode(packet))

ASSUME CodecAssumption ==
  \A m \in Message :
    \A k \in 0..Tx!Chunks(Len(m)) - 1, n \in 0..Tx!data_chunk_size, flag \in Rx!Flag :
      k * Tx!data_chunk_size + n <= Len(m) => Survives(PacketOf(m, k, n, flag))

lineVars == <<buffer, line, in_flight>>
txVars == <<pc, size, i, buffer_offset, return_status, tx_handler, packets, refused>>
rxVars == <<rx_buffer, p_rx_buffer, rx_buffer_remaining, packet_buffer, packet_buffer_offset,
            rx_handler, retval, payload, overrun, arrived, leaked, assembled, message>>
vars == <<txVars, rxVars, lineVars>>

-----------------------------------------------------------------------------
Init ==
  /\ Tx!Init
  /\ Rx!Init
  /\ buffer = <<>>
  /\ line = <<>>
  /\ in_flight = <<>>

Connect ==
  /\ tx_handler = NULL
  /\ Tx!register_tx_handler(uart)
  /\ UNCHANGED <<rxVars, lineVars>>

\* What send() transmits of m.
Transmitted(m) == SubSeq(m, 1, Tx!SentOf(Len(m)))

Send(m) ==
  /\ tx_handler # NULL
  /\ Len(in_flight) < MAX_IN_FLIGHT
  /\ Tx!send(Len(m))
  /\ buffer' = m
  /\ in_flight' = Append(in_flight, Transmitted(m))
  /\ UNCHANGED <<rxVars, line>>

\* The packet that build_packet() makes of the current iteration, with its data.
Built ==
  LET p == Tx!build_packet IN
  [data |-> SubSeq(buffer, p.offset + 1, p.offset + p.size),
   sequence_number |-> p.sequence_number, flag |-> p.flag]

WithoutDelimiter == Encode(Built)       \* a mutant: result.out_len bytes
\* encoded_buffer up to encoded_size: the delimiter ends it.
Encoded == Encode(Built) \o <<0>>

Transmit ==
  /\ Tx!TransmitPacket(TRUE)
  /\ line' = line \o Encoded
  /\ UNCHANGED <<rxVars, buffer, in_flight>>

FinishSend ==
  /\ Tx!FinishSend
  /\ UNCHANGED <<rxVars, lineVars>>

-----------------------------------------------------------------------------
\* What the driver may pass on: n bytes, cut behind a delimiter.
Cut(n) == {k \in 1..n : k <= Len(line) /\ line[k] = 0}
Piece(n) ==
  LET len == IF Cut(n) = {} THEN n ELSE CHOOSE k \in Cut(n) : \A j \in Cut(n) : k <= j
  IN  SubSeq(line, 1, IF len < Len(line) THEN len ELSE Len(line))

\* process(piece) completes a message.
Delivers(piece) ==
  /\ Rx!CompletesFrame(piece)
  /\ \E packet \in Rx!DecodedPackets(piece) : Rx!EndsMessage(packet)

Receive(n) ==
  /\ line # <<>>
  /\ Rx!process(Piece(n))
  /\ line' = SubSeq(line, Len(Piece(n)) + 1, Len(line))
  /\ in_flight' = IF Delivers(Piece(n)) THEN SubSeq(in_flight, 2, Len(in_flight)) ELSE in_flight
  /\ UNCHANGED <<txVars, buffer>>

-----------------------------------------------------------------------------
Sender == Transmit \/ FinishSend
Receiver == \E n \in PieceSize : Receive(n)

Next == Connect \/ (\E m \in Message : Send(m)) \/ Sender \/ Receiver

\* send() runs to its end, and the bytes on the line reach process().
Spec == Init /\ [][Next]_vars /\ WF_vars(Sender) /\ WF_vars(Receiver)

-----------------------------------------------------------------------------
\* End to end: what was sent is handed to the receiving application in order, once, byte
\* for byte with zeros behind it, and sooner or later; however the line's bytes are cut
\* into process() calls, and however many packets a message takes.
Link == INSTANCE MessageLink
          WITH queue <- in_flight, delivered <- payload, SIZE <- PACKET_BUFFER_SIZE,
               Message <- {Transmitted(m) : m \in Message}
LinkImplemented == Link!Spec

\* On such a line no process() call fails, nothing of rx_buffer's room is lost, and the
\* memcpy into packet_buffer, which checks nothing, stays inside it.
ReceiverKeepsUp == retval /\ leaked = 0 /\ ~overrun
=============================================================================
