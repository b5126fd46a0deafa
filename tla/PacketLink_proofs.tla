--------------------------- MODULE PacketLink_proofs ---------------------------
(***************************************************************************)
(* Proofs about the two halves of PacketSerial on a line that loses        *)
(* nothing, for every codec whose frames survive, every set of messages,   *)
(* every cutting of the line into pieces and every size of the buffers.    *)
(* The invariants of the halves are those of their own proofs, instantiated*)
(***************************************************************************)
EXTENDS PacketLink, SequenceTheorems, WellFoundedInduction, TLAPS

-----------------------------------------------------------------------------
(* The halves and what is proved of them. *)

TxProof == INSTANCE PacketSerialTx_proofs WITH Size <- Sizes, Handler <- {uart}

\* Frames that no sender made may decode to anything; none reaches the receiver here.
KnownDecode(frame) == Decode(frame) \intersect (Rx!Packet \union {NoPacket})
RxProof == INSTANCE PacketSerialRx_proofs
             WITH Chunk <- Seq(Byte) \ {<<>>}, Decode <- KnownDecode,
                  Handler <- {}, Unmarshal <- HandledType

\* The sender's assumptions hold of the link: a message's size is a size_t.
LEMMA TxAssumptions ==
  /\ TxProof!DataAssumption /\ TxProof!ModAssumption
  /\ TxProof!SendSizeAssumption /\ TxProof!TxHandlerAssumption
<1>1. Sizes \subseteq 0..SIZE_MOD-1
  BY MessageAssumption, SenderAssumption, ReceiverAssumption DEF Sizes
<1> QED
  BY <1>1, SenderAssumption, ReceiverAssumption
     DEF TxProof!DataAssumption, TxProof!ModAssumption,
         TxProof!SendSizeAssumption, TxProof!TxHandlerAssumption

\* So do the receiver's.
LEMMA RxAssumptions ==
  /\ RxProof!SizeAssumption /\ RxProof!ByteAssumption /\ RxProof!ChunkAssumption
  /\ RxProof!DecodeAssumption /\ RxProof!HandlerAssumption
<1>1. RxProof!DecodeAssumption
  BY DEF RxProof!DecodeAssumption, KnownDecode, RxProof!Packet, Rx!Packet,
         RxProof!Flag, Rx!Flag
<1> QED
  BY <1>1, ReceiverAssumption
     DEF RxProof!SizeAssumption, RxProof!ByteAssumption, RxProof!ChunkAssumption,
         RxProof!HandlerAssumption

\* The link's sender is the one the proofs are about.
LEMMA SameSender ==
  /\ Tx!data_chunk_size = TxProof!data_chunk_size
  /\ \A n : Tx!Chunks(n) = TxProof!Chunks(n) /\ Tx!SentOf(n) = TxProof!SentOf(n)
  /\ Tx!total_chunks = TxProof!total_chunks
  /\ \A k : Tx!ChunkSize(k) = TxProof!ChunkSize(k) /\ Tx!FlagOf(k) = TxProof!FlagOf(k)
  /\ Tx!build_packet = TxProof!build_packet
BY DEF Tx!data_chunk_size, TxProof!data_chunk_size, Tx!Chunks, TxProof!Chunks,
       Tx!SentOf, TxProof!SentOf, Tx!total_chunks, TxProof!total_chunks,
       Tx!ChunkSize, TxProof!ChunkSize, Tx!FlagOf, TxProof!FlagOf,
       Tx!build_packet, TxProof!build_packet


\* A step of the link is a step of its sender, or leaves the sender alone.
LEMMA SenderStep == [Next]_vars => [TxProof!Next]_(TxProof!vars)
<1> SUFFICES ASSUME [Next]_vars PROVE [TxProof!Next]_(TxProof!vars)
  OBVIOUS
<1>1. CASE Connect
  <2>1. TxProof!register_tx_handler(uart)
    BY <1>1 DEF Connect, Tx!register_tx_handler, TxProof!register_tx_handler,
                Tx!sendVars, TxProof!sendVars
  <2> QED
    BY <2>1 DEF TxProof!Next
<1>2. ASSUME NEW m \in Message, Send(m) PROVE TxProof!Next
  <2>1. TxProof!send(Len(m))
    BY <1>2 DEF Send, Tx!send, TxProof!send
  <2>2. Len(m) \in Sizes
    BY DEF Sizes
  <2> QED
    BY <2>1, <2>2 DEF TxProof!Next
<1>3. CASE Transmit
  <2>1. TxProof!TransmitPacket(TRUE)
    BY <1>3, SameSender
       DEF Transmit, Tx!TransmitPacket, TxProof!TransmitPacket, Tx!InLoop, TxProof!InLoop,
           Tx!NextOffset, TxProof!NextOffset, Tx!StatusAfter, TxProof!StatusAfter
  <2> QED
    BY <2>1 DEF TxProof!Next, TxProof!SendStep
<1>4. CASE FinishSend
  <2>1. TxProof!FinishSend
    BY <1>4, SameSender DEF FinishSend, Tx!FinishSend, TxProof!FinishSend
  <2> QED
    BY <2>1 DEF TxProof!Next, TxProof!SendStep
<1>5. CASE UNCHANGED txVars
  BY <1>5 DEF txVars, TxProof!vars, TxProof!sendVars
<1>6. Receiver => UNCHANGED txVars
  BY DEF Receiver, Receive
<1> QED
  BY <1>1, <1>2, <1>3, <1>4, <1>5, <1>6 DEF Next, Sender, vars

\* What is proved of send() holds of the link's sender.
LEMMA SenderInv ==
  /\ Init => TxProof!Inv
  /\ TxProof!Inv /\ [Next]_vars => TxProof!Inv'
<1>1. Init => TxProof!Init
  BY DEF Init, Tx!Init, TxProof!Init
<1>2. TxProof!Init => TxProof!Inv
  BY TxAssumptions, TxProof!InitInv DEF TxProof!InitInv
<1>3. TxProof!Inv /\ [TxProof!Next]_(TxProof!vars) => TxProof!Inv'
  BY TxAssumptions, TxProof!NextInv DEF TxProof!NextInv
<1> QED
  BY <1>1, <1>2, <1>3, SenderStep

-----------------------------------------------------------------------------
(* What the sender puts on the line. *)

\* The packets that Encode is given, and their frames.
LinkPacket ==
  {packet \in [data : Seq(Byte), sequence_number : Nat, flag : Rx!Flag] : Survives(packet)}
LineFrame == {f \in Seq(Byte \ {0}) : Len(f) < RX_SIZE}
FramesOf(q) == [k \in 1..Len(q) |-> Encode(q[k])]

\* The frame of such a packet has room in rx_buffer.
LEMMA FramesOfFacts ==
  ASSUME NEW q \in Seq(LinkPacket)
  PROVE  /\ FramesOf(q) \in Seq(LineFrame) /\ Len(FramesOf(q)) = Len(q)
         /\ \A k \in 1..Len(q) : FramesOf(q)[k] = Encode(q[k])
<1>1. Len(q) \in Nat
  OBVIOUS
<1>2. ASSUME NEW k \in 1..Len(q) PROVE Encode(q[k]) \in LineFrame
  <2>1. q[k] \in LinkPacket
    OBVIOUS
  <2> QED
    BY <2>1 DEF LinkPacket, Survives, LineFrame
<1> QED
  BY <1>1, <1>2 DEF FramesOf

\* Taking the first packet away takes its frame away, another packet adds its own.
LEMMA FramesOfChanges ==
  ASSUME NEW q \in Seq(LinkPacket)
  PROVE  /\ q # <<>> => Tail(FramesOf(q)) = FramesOf(Tail(q))
         /\ \A p \in LinkPacket : Append(FramesOf(q), Encode(p)) = FramesOf(Append(q, p))
<1>1. /\ FramesOf(q) \in Seq(LineFrame) /\ Len(FramesOf(q)) = Len(q) /\ Len(q) \in Nat
      /\ \A k \in 1..Len(q) : FramesOf(q)[k] = Encode(q[k])
  BY FramesOfFacts
<1>2. ASSUME q # <<>> PROVE Tail(FramesOf(q)) = FramesOf(Tail(q))
  <2> DEFINE f == FramesOf(q)
             x == Tail(f)
             t == Tail(q)
             y == FramesOf(t)
  <2>1. /\ t \in Seq(LinkPacket) /\ Len(t) = Len(q) - 1 /\ \A k \in 1..Len(t) : t[k] = q[k + 1]
    BY <1>2
  <2>2. y \in Seq(LineFrame) /\ Len(y) = Len(t) /\ \A k \in 1..Len(t) : y[k] = Encode(t[k])
    BY <2>1, FramesOfFacts
  <2> HIDE DEF y, t, f
  <2>3. f \in Seq(LineFrame) /\ Len(f) = Len(q) /\ f # <<>> /\ Len(q) \in Nat \ {0}
        /\ \A k \in 1..Len(q) : f[k] = Encode(q[k])
    BY <1>1, <1>2 DEF f
  <2>4. x \in Seq(LineFrame) /\ Len(x) = Len(q) - 1 /\ \A k \in 1..Len(q) - 1 : x[k] = f[k + 1]
    BY <2>3
  <2> HIDE DEF x
  <2>5. \A k \in 1..Len(q) - 1 : k + 1 \in 1..Len(q)
    BY <2>3
  <2>6. Len(x) = Len(y) /\ \A k \in 1..Len(x) : x[k] = y[k]
    BY <2>1, <2>2, <2>3, <2>4, <2>5
  <2>7. x = y
    BY <2>2, <2>4, <2>6, SeqEqual
  <2> QED
    BY <2>7 DEF x, y, t, f
<1>3. ASSUME NEW p \in LinkPacket PROVE Append(FramesOf(q), Encode(p)) = FramesOf(Append(q, p))
  <2> DEFINE f == FramesOf(q)
             x == Append(f, Encode(p))
             t == Append(q, p)
             y == FramesOf(t)
  <2>1. /\ t \in Seq(LinkPacket) /\ Len(t) = Len(q) + 1
        /\ \A k \in 1..Len(q) : t[k] = q[k]
        /\ t[Len(q) + 1] = p
    OBVIOUS
  <2>2. y \in Seq(LineFrame) /\ Len(y) = Len(t) /\ \A k \in 1..Len(t) : y[k] = Encode(t[k])
    BY <2>1, FramesOfFacts
  <2> HIDE DEF y, t, f
  <2>3. f \in Seq(LineFrame) /\ Len(f) = Len(q) /\ Len(q) \in Nat
        /\ \A k \in 1..Len(q) : f[k] = Encode(q[k])
    BY <1>1 DEF f
  <2>4. Encode(p) \in LineFrame
    BY DEF LinkPacket, Survives, LineFrame
  <2>5. x \in Seq(LineFrame) /\ Len(x) = Len(q) + 1 /\ x[Len(q) + 1] = Encode(p)
        /\ \A k \in 1..Len(q) : x[k] = f[k]
    BY <2>3, <2>4
  <2> HIDE DEF x
  <2>6. ASSUME NEW k \in 1..Len(q) + 1 PROVE x[k] = y[k]
    <3>1. CASE k \in 1..Len(q)
      BY <2>1, <2>2, <2>3, <2>5, <3>1
    <3>2. CASE k = Len(q) + 1
      BY <2>1, <2>2, <2>5, <3>2
    <3> QED
      BY <2>3, <3>1, <3>2
  <2>7. x = y
    BY <2>1, <2>2, <2>5, <2>6, SeqEqual
  <2> QED
    BY <2>7 DEF x, y, t, f
<1> QED
  BY <1>2, <1>3

\* send() is called with a message, and works on nothing else while it runs.
Sending == pc = "loop" => buffer \in Message /\ size = Len(buffer)

\* What send() makes of a message is a beginning of it.
LEMMA TransmittedFacts ==
  ASSUME NEW m \in Message
  PROVE  /\ m \in Seq(Byte) /\ Len(m) \in 1..PACKET_BUFFER_SIZE
         /\ Tx!SentOf(Len(m)) \in 0..Len(m)
         /\ Transmitted(m) \in Seq(Byte)
         /\ Len(Transmitted(m)) = Tx!SentOf(Len(m))
         /\ \A j \in 1..Len(Transmitted(m)) : Transmitted(m)[j] = m[j]
<1>1. /\ m \in Seq(Byte) /\ Len(m) \in 1..PACKET_BUFFER_SIZE
      /\ PACKET_BUFFER_SIZE \in Nat /\ Len(m) \in Nat /\ DATA_MAX \in Nat /\ DATA_MAX > 1
  BY MessageAssumption, ReceiverAssumption, SenderAssumption
<1>2. Tx!SentOf(Len(m)) \in 0..Len(m)
  BY <1>1 DEF Tx!SentOf, Tx!data_chunk_size
<1> QED
  BY <1>1, <1>2 DEF Transmitted

\* Every message is cut into at least one packet: the ceiling does not wrap.
LEMMA SomeChunk ==
  ASSUME NEW m \in Message
  PROVE  Tx!Chunks(Len(m)) \in Nat \ {0}
<1> DEFINE c == Tx!data_chunk_size
           x == Len(m) + c - 1
           q == x \div c
<1>1. /\ c \in Nat /\ c > 0 /\ x \in Nat /\ x >= c /\ x < SIZE_MOD /\ SIZE_MOD \in Nat
  BY TransmittedFacts, SenderAssumption, ReceiverAssumption DEF Tx!data_chunk_size
<1>2. x % SIZE_MOD = x
  BY <1>1
<1>3. Tx!Chunks(Len(m)) = q
  BY <1>2 DEF Tx!Chunks
<1> HIDE DEF c, x
<1>4. q \in Nat /\ x < q * c + c
  BY <1>1, TxAssumptions, TxProof!DivFacts DEF TxProof!DivFacts
<1> HIDE DEF q
<1>5. q # 0
  BY <1>1, <1>4
<1> QED
  BY <1>3, <1>4, <1>5

\* The packet of the current iteration carries the next part of the message, is the last
\* one exactly if it carries the end, and survives the line.
LEMMA BuiltFacts ==
  ASSUME TxProof!Inv, Sending, Tx!InLoop
  PROVE  /\ buffer \in Message
         /\ Built \in LinkPacket /\ Survives(Built)
         /\ \E k \in 0..Tx!Chunks(Len(buffer)) - 1, n \in 0..Tx!data_chunk_size, flag \in Rx!Flag :
              k * Tx!data_chunk_size + n <= Len(buffer) /\ Built = PacketOf(buffer, k, n, flag)
         /\ buffer_offset \in Nat /\ Tx!NextOffset = buffer_offset + Len(Built.data)
         /\ Tx!NextOffset <= Len(Transmitted(buffer))
         /\ \A j \in 1..Len(Built.data) :
              Built.data[j] = Transmitted(buffer)[buffer_offset + j]
         /\ Rx!EndsMessage(Built) <=> i + 1 = Tx!total_chunks
         /\ Rx!EndsMessage(Built) => Tx!NextOffset = Len(Transmitted(buffer))
<1> DEFINE c == Tx!data_chunk_size
           t == Tx!total_chunks
           n == Tx!ChunkSize(i)
           sent == Tx!SentOf(Len(buffer))
<1>1. /\ pc = "loop" /\ i < t /\ buffer \in Message /\ size = Len(buffer)
      /\ i \in Nat /\ buffer_offset \in Nat /\ size \in 0..SIZE_MOD-1
      /\ buffer_offset = i * c
  BY SameSender
     DEF Tx!InLoop, Sending, TxProof!Inv, TxProof!TypeOK, TxProof!LoopConsistent
<1>2. /\ buffer \in Seq(Byte) /\ Len(buffer) \in Nat
      /\ sent \in 0..Len(buffer)
      /\ Transmitted(buffer) \in Seq(Byte) /\ Len(Transmitted(buffer)) = sent
      /\ \A j \in 1..sent : Transmitted(buffer)[j] = buffer[j]
  BY <1>1, TransmittedFacts
<1>3. t \in Nat \ {0} /\ t = Tx!Chunks(Len(buffer))
  BY <1>1, SomeChunk DEF Tx!total_chunks
<1>4. c \in Nat /\ c > 0
  BY SenderAssumption DEF Tx!data_chunk_size
<1>5. \A k \in Nat : k < t =>
        /\ Tx!ChunkSize(k) \in 0..c
        /\ k * c + Tx!ChunkSize(k) <= size
        /\ k < t - 1 => k * c + Tx!ChunkSize(k) = (k + 1) * c
        /\ k = t - 1 => k * c + Tx!ChunkSize(k) = sent
  BY <1>1, SameSender, TxAssumptions, TxProof!ChunkSizeFacts
     DEF TxProof!ChunkSizeFacts, TxProof!SentSize
<1>6. /\ Tx!FlagOf(i) \in Rx!Flag
      /\ Tx!FlagOf(i) \in {"LAST", "FIRSTLAST"} <=> i = t - 1
  BY <1>1, <1>3, SameSender, TxAssumptions, TxProof!FlagFacts
     DEF TxProof!FlagFacts, TxProof!Flag, Rx!Flag
<1> HIDE DEF c, t, n, sent
<1>7. n \in 0..c /\ buffer_offset + n <= Len(buffer) /\ buffer_offset + n \in Nat
  BY <1>1, <1>4, <1>5 DEF n
<1>8. buffer_offset + n <= sent /\ (i = t - 1 => buffer_offset + n = sent)
  <2>1. CASE i = t - 1
    BY <1>1, <1>2, <1>5, <2>1 DEF n
  <2>2. CASE i # t - 1
    <3>1. i < t - 1 /\ t - 1 \in Nat /\ t - 1 < t
      BY <1>1, <1>3, <2>2
    <3>2. buffer_offset + n = (i + 1) * c
      BY <1>1, <1>5, <3>1 DEF n
    <3>3. (t - 1) * c + Tx!ChunkSize(t - 1) = sent /\ Tx!ChunkSize(t - 1) >= 0
      BY <1>4, <1>5, <3>1
    <3>4. (i + 1) * c <= (t - 1) * c
      <4> DEFINE e == (t - 1) - (i + 1)
      <4>1. e \in Nat /\ t - 1 = i + 1 + e
        BY <1>1, <1>3, <3>1
      <4> HIDE DEF e
      <4>2. (t - 1) * c = (i + 1) * c + e * c /\ e * c \in Nat /\ (i + 1) * c \in Nat
        BY <1>1, <1>4, <4>1
      <4> QED
        BY <4>2
    <3>5. (t - 1) * c \in Nat /\ (i + 1) * c \in Nat /\ Tx!ChunkSize(t - 1) \in Nat
      BY <1>1, <1>4, <1>5, <3>1
    <3> QED
      BY <1>1, <1>2, <2>2, <3>2, <3>3, <3>4, <3>5
  <2> QED
    BY <2>1, <2>2
<1>9. Built = PacketOf(buffer, i, n, Tx!FlagOf(i))
  BY <1>1 DEF Built, PacketOf, Tx!build_packet, n, c
<1>10. /\ Built.data = SubSeq(buffer, buffer_offset + 1, buffer_offset + n)
       /\ Built.flag = Tx!FlagOf(i)
       /\ Built.sequence_number = i % SEQ_MOD
       /\ DOMAIN Built = {"data", "sequence_number", "flag"}
  BY <1>1, <1>9 DEF PacketOf, c
<1>11. /\ Built.data \in Seq(Byte) /\ Len(Built.data) = n
       /\ \A j \in 1..n : Built.data[j] = buffer[buffer_offset + j]
  BY <1>1, <1>2, <1>4, <1>7, <1>10
<1>f. /\ i \in 0..Tx!Chunks(Len(buffer)) - 1 /\ n \in 0..Tx!data_chunk_size
      /\ i * Tx!data_chunk_size + n <= Len(buffer)
  BY <1>1, <1>3, <1>7 DEF c
<1>12. Survives(Built)
  BY <1>1, <1>6, <1>9, <1>f, CodecAssumption
<1>13. Built \in LinkPacket
  <2>1. i % SEQ_MOD \in Nat
    BY <1>1, SenderAssumption
  <2> QED
    BY <1>6, <1>9, <1>10, <1>11, <1>12, <2>1 DEF LinkPacket, PacketOf
<1>14. Tx!NextOffset = buffer_offset + n
  BY DEF Tx!NextOffset, n
<1>15. Rx!EndsMessage(Built) <=> i + 1 = t
  BY <1>1, <1>3, <1>6, <1>10 DEF Rx!EndsMessage
<1>16. \A j \in 1..n : Built.data[j] = Transmitted(buffer)[buffer_offset + j]
  BY <1>1, <1>2, <1>4, <1>7, <1>8, <1>11
<1> QED
  BY <1>1, <1>2, <1>3, <1>6, <1>8, <1>9, <1>11, <1>12, <1>13, <1>14, <1>15, <1>16, <1>f DEF t

-----------------------------------------------------------------------------
(***************************************************************************)
(* The invariant.  What process() holds of an unfinished frame and what is *)
(* still on the line are together the frames of some packets q, and these  *)
(* packets, behind what packet_buffer holds, carry the messages in flight  *)
(* in order.  The k-th packet's frame starts behind at[k] bytes; its data  *)
(* is that of message of[k] from behind from[k] bytes on.  The positions   *)
(* behind the last packet are where the sender goes on.                    *)
(***************************************************************************)
Stream == arrived \o line

Framed(frames, at) ==
  /\ at[1] = 0 /\ at[Len(frames) + 1] = Len(Stream)
  /\ \A j, k \in 1..Len(frames) + 1 : j <= k => at[j] <= at[k]
  /\ \A k \in 1..Len(frames) :
       /\ at[k + 1] = at[k] + Len(frames[k]) + 1
       /\ \A j \in 1..Len(frames[k]) : Stream[at[k] + j] = frames[k][j]
       /\ Stream[at[k + 1]] = 0

\* What has arrived of the first frame holds no delimiter, and rx_buffer holds it.
RxRoom ==
  /\ rx_buffer \in [0..RX_SIZE-1 -> Byte]
  /\ p_rx_buffer \in Nat /\ rx_buffer_remaining \in Nat /\ leaked \in Nat
  /\ line \in Seq(Byte) /\ arrived \in Seq(Byte)
  /\ \A j \in 1..Len(arrived) : arrived[j] # 0
  /\ RxProof!RoomAccounted /\ RxProof!RxBufferFaithful

Placed(q, of, from) ==
  /\ \A j, k \in 1..Len(q) + 1 : j <= k => of[j] <= of[k]
  /\ \A k \in 1..Len(q) :
       /\ of[k] \in 1..Len(in_flight)
       /\ from[k] + Len(q[k].data) <= Len(in_flight[of[k]])
       /\ \A j \in 1..Len(q[k].data) : q[k].data[j] = in_flight[of[k]][from[k] + j]
       /\ Rx!EndsMessage(q[k]) =>
            /\ from[k] + Len(q[k].data) = Len(in_flight[of[k]])
            /\ of[k + 1] = of[k] + 1 /\ from[k + 1] = 0
       /\ ~Rx!EndsMessage(q[k]) =>
            of[k + 1] = of[k] /\ from[k + 1] = from[k] + Len(q[k].data)

\* packet_buffer holds the beginning of the first message in flight.
Collected(of, from) ==
  /\ of[1] = 1 /\ from[1] = Len(assembled)
  /\ assembled # <<>> =>
       /\ in_flight # <<>> /\ Len(assembled) <= Len(in_flight[1])
       /\ \A j \in 1..Len(assembled) : assembled[j] = in_flight[1][j]

\* The sender goes on with the last message in flight, or all of it is on the line.
Continued(m, offset) ==
  /\ Tx!InLoop => /\ in_flight # <<>> /\ m = Len(in_flight) /\ offset = buffer_offset
                  /\ in_flight[m] = Transmitted(buffer)
  /\ ~Tx!InLoop => m = Len(in_flight) + 1 /\ offset = 0

LinkedBy(q, at, of, from) ==
  /\ Framed(FramesOf(q), at) /\ Placed(q, of, from)
  /\ Collected(of, from) /\ Continued(of[Len(q) + 1], from[Len(q) + 1])

Linked ==
  \E q \in Seq(LinkPacket) :
    \E at \in [1..Len(q) + 1 -> Nat], of \in [1..Len(q) + 1 -> Nat],
       from \in [1..Len(q) + 1 -> Nat] : LinkedBy(q, at, of, from)

LinkType ==
  /\ line \in Seq(Byte)
  /\ in_flight \in Seq(Seq(Byte))
  /\ \A k \in 1..Len(in_flight) : Len(in_flight[k]) <= PACKET_BUFFER_SIZE

\* No frame has failed, and the unfinished one has not seen its delimiter.
Undisturbed == leaked = 0 /\ retval = TRUE /\ \A j \in 1..Len(arrived) : arrived[j] # 0

IInv == TxProof!Inv /\ RxProof!Inv /\ LinkType /\ Sending /\ Undisturbed /\ Linked

-----------------------------------------------------------------------------
(* What process() is given, and what it makes of it. *)

\* A piece is a beginning of the line that holds no zero but perhaps as its last byte.
LEMMA PieceFacts ==
  ASSUME line \in Seq(Byte), line # <<>>, NEW n \in PieceSize
  PROVE  \E len \in 1..Len(line) :
           /\ Piece(n) = SubSeq(line, 1, len)
           /\ \A j \in 1..len-1 : line[j] # 0
<1>1. n \in Nat \ {0} /\ Len(line) \in Nat \ {0}
  BY PieceAssumption
<1>2. CASE Cut(n) = {}
  <2> DEFINE len == IF n < Len(line) THEN n ELSE Len(line)
  <2>1. len \in 1..Len(line) /\ Piece(n) = SubSeq(line, 1, len)
    BY <1>1, <1>2 DEF Piece
  <2>2. \A j \in 1..len-1 : line[j] # 0
    BY <1>1, <1>2 DEF Cut
  <2> QED
    BY <2>1, <2>2
<1>3. CASE Cut(n) # {}
  <2> DEFINE R == OpToRel(<, Nat)
  <2>1. Cut(n) \subseteq Nat
    BY <1>1 DEF Cut
  <2>2. IsWellFoundedOn(R, Nat)
    BY NatLessThanWellFounded
  <2>3. PICK k \in Cut(n) : \A j \in Cut(n) : ~(<<j, k>> \in R)
    BY <1>3, <2>1, <2>2, WFMin
  <2>4. \A j \in Cut(n) : k <= j
    <3> SUFFICES ASSUME NEW j \in Cut(n), j < k PROVE FALSE
      BY <2>1
    <3>1. <<j, k>> \in R
      BY <2>1 DEF OpToRel
    <3> QED
      BY <2>3, <3>1
  <2> DEFINE len == CHOOSE l \in Cut(n) : \A j \in Cut(n) : l <= j
  <2>5. len \in Cut(n) /\ \A j \in Cut(n) : len <= j
    BY <2>4
  <2> HIDE DEF len
  <2>6. len \in 1..n /\ len <= Len(line)
    BY <2>5 DEF Cut
  <2>7. Piece(n) = SubSeq(line, 1, len)
    <3> DEFINE cut == IF Cut(n) = {} THEN n ELSE len
    <3>1. Piece(n) = SubSeq(line, 1, IF cut < Len(line) THEN cut ELSE Len(line))
      BY DEF Piece, len
    <3>2. cut = len
      BY <1>3
    <3> QED
      BY <1>1, <2>6, <3>1, <3>2
  <2>8. \A j \in 1..len-1 : line[j] # 0
    <3> SUFFICES ASSUME NEW j \in 1..len-1, line[j] = 0 PROVE FALSE
      OBVIOUS
    <3>1. j \in Cut(n)
      BY <1>1, <2>6 DEF Cut
    <3> QED
      BY <1>1, <2>5, <2>6, <3>1
  <2> QED
    BY <1>1, <2>6, <2>7, <2>8
<1> QED
  BY <1>2, <1>3

\* Such a beginning of the line ends within the first packet's frame; with a zero it ends
\* where that frame does.
LEMMA FirstFrame ==
  ASSUME RxRoom, NEW frames \in Seq(LineFrame),
         NEW at \in [1..Len(frames) + 1 -> Nat], Framed(frames, at),
         NEW len \in 1..Len(line), \A j \in 1..len-1 : line[j] # 0
  PROVE  /\ 1 \in 1..Len(frames) /\ at[2] = Len(frames[1]) + 1
         /\ Len(arrived) + len <= at[2] /\ at[2] <= RX_SIZE
         /\ line[len] = 0 <=> Len(arrived) + len = at[2]
<1>1. /\ line \in Seq(Byte) /\ arrived \in Seq(Byte)
      /\ Len(line) \in Nat /\ Len(arrived) \in Nat /\ Len(frames) \in Nat
  BY DEF RxRoom
<1>2. /\ Len(Stream) = Len(arrived) + Len(line)
      /\ \A j \in 1..Len(arrived) : Stream[j] = arrived[j]
      /\ \A j \in 1..Len(line) : Stream[Len(arrived) + j] = line[j]
  BY <1>1 DEF Stream
<1>3. Len(frames) # 0
  BY <1>1, <1>2 DEF Framed
<1>4. 1 \in 1..Len(frames) /\ 1 + 1 = 2 /\ 2 \in 1..Len(frames) + 1 /\ Len(frames) + 1 \in 1..Len(frames) + 1
  BY <1>1, <1>3
<1>5. /\ frames[1] \in Seq(Byte \ {0}) /\ Len(frames[1]) \in Nat
      /\ Len(frames[1]) < RX_SIZE /\ RX_SIZE \in Nat
      /\ \A j \in 1..Len(frames[1]) : frames[1][j] # 0
  BY <1>4, ReceiverAssumption DEF LineFrame
<1>6. /\ at[2] = Len(frames[1]) + 1
      /\ \A j \in 1..Len(frames[1]) : Stream[j] = frames[1][j]
      /\ Stream[at[2]] = 0
      /\ at[2] <= Len(Stream) /\ at[2] \in Nat
  <2>1. at[1] = 0 /\ at[2] <= at[Len(frames) + 1] /\ at[Len(frames) + 1] = Len(Stream)
    BY <1>1, <1>4 DEF Framed
  <2>2. /\ at[1 + 1] = at[1] + Len(frames[1]) + 1
        /\ \A j \in 1..Len(frames[1]) : Stream[at[1] + j] = frames[1][j]
        /\ Stream[at[1 + 1]] = 0
    BY <1>4 DEF Framed
  <2>3. Len(frames[1]) \in Nat
    BY <1>5
  <2> QED
    BY <1>4, <2>1, <2>2, <2>3
<1> DEFINE e == at[2]
<1>7. e \in Nat /\ e > Len(arrived)
  <2>1. \A j \in 1..Len(arrived) : Stream[j] # 0
    BY <1>2 DEF RxRoom
  <2>2. ~(e \in 1..Len(arrived)) /\ e \in Nat \ {0}
    BY <1>6, <1>5, <2>1
  <2> QED
    BY <1>1, <2>2
<1>8. Len(arrived) + len <= e
  <2> HIDE DEF e
  <2>1. e - Len(arrived) \in 1..Len(line) /\ Len(arrived) + (e - Len(arrived)) = e
    BY <1>1, <1>2, <1>6, <1>7 DEF e
  <2>2. line[e - Len(arrived)] = 0
    BY <1>2, <1>6, <2>1 DEF e
  <2>3. ~(e - Len(arrived) \in 1..len-1)
    BY <2>2
  <2> QED
    BY <1>1, <1>7, <2>1, <2>3
<1>9. line[len] = Stream[Len(arrived) + len]
  BY <1>2
<1>10. line[len] = 0 <=> Len(arrived) + len = at[2]
  <2>1. CASE Len(arrived) + len = at[2]
    BY <1>6, <1>9, <2>1
  <2>2. CASE Len(arrived) + len # at[2]
    <3>1. Len(arrived) + len \in 1..Len(frames[1])
      <4> DEFINE f == Len(frames[1])
                 a == Len(arrived)
      <4>1. /\ e = f + 1 /\ f \in Nat /\ a + len # e /\ a + len <= e
            /\ a \in Nat /\ len \in Nat /\ len >= 1
        BY <1>1, <1>5, <1>6, <1>8, <2>2
      <4> HIDE DEF a, e, f
      <4>2. a + len \in 1..f
        BY <4>1
      <4> QED
        BY <4>2 DEF a, f
    <3> QED
      BY <1>6, <1>5, <1>9, <2>2, <3>1
  <2> QED
    BY <2>1, <2>2
<1> QED
  BY <1>4, <1>6, <1>5, <1>8, <1>10

\* The link's receiver is the one the proofs are about.
LEMMA SameReceiver ==
  /\ \A b : /\ Rx!Stored(b) = RxProof!Stored(b)
            /\ Rx!FrameOf(b) = RxProof!FrameOf(b)
            /\ Rx!Accepts(b) <=> RxProof!Accepts(b)
            /\ Rx!ChunkFits(b) <=> RxProof!ChunkFits(b)
            /\ Rx!EndsFrame(b) <=> RxProof!EndsFrame(b)
  /\ \A packet : /\ Rx!Extended(packet) = RxProof!Extended(packet)
                 /\ Rx!PacketFits(packet) <=> RxProof!PacketFits(packet)
                 /\ Rx!EndsMessage(packet) <=> RxProof!EndsMessage(packet)
  /\ Rx!Packet = RxProof!Packet
<1>1. \A b : Rx!Stored(b) = RxProof!Stored(b)
  BY DEF Rx!Stored, RxProof!Stored, Rx!StrNCpy, RxProof!StrNCpy
<1>2. \A buf : Rx!StrLen(buf) = RxProof!StrLen(buf)
  BY Zenon DEF Rx!StrLen, RxProof!StrLen, Rx!IsStrLen, RxProof!IsStrLen
<1>3. \A buf, n : Rx!Prefix(buf, n) = RxProof!Prefix(buf, n)
  BY DEF Rx!Prefix, RxProof!Prefix
<1>4. \A b : Rx!FrameOf(b) = RxProof!FrameOf(b)
  BY <1>1, <1>2, <1>3, Zenon DEF Rx!FrameOf, RxProof!FrameOf
<1>5. \A b : /\ Rx!Accepts(b) <=> RxProof!Accepts(b)
             /\ Rx!ChunkFits(b) <=> RxProof!ChunkFits(b)
             /\ Rx!EndsFrame(b) <=> RxProof!EndsFrame(b)
  BY DEF Rx!Accepts, RxProof!Accepts, Rx!ChunkFits, RxProof!ChunkFits,
         Rx!EndsFrame, RxProof!EndsFrame
<1>6. \A packet : /\ Rx!Extended(packet) = RxProof!Extended(packet)
                  /\ Rx!PacketFits(packet) <=> RxProof!PacketFits(packet)
                  /\ Rx!EndsMessage(packet) <=> RxProof!EndsMessage(packet)
  BY DEF Rx!Extended, RxProof!Extended, Rx!MemCpy, RxProof!MemCpy,
         Rx!PacketFits, RxProof!PacketFits, Rx!EndsMessage, RxProof!EndsMessage
<1>7. Rx!Packet = RxProof!Packet
  BY DEF Rx!Packet, RxProof!Packet, Rx!Flag, RxProof!Flag
<1> QED
  BY <1>1, <1>4, <1>5, <1>6, <1>7

\* process() has room for the piece.
LEMMA PieceAccepted ==
  ASSUME RxRoom, leaked = 0, NEW frames \in Seq(LineFrame),
         NEW at \in [1..Len(frames) + 1 -> Nat], Framed(frames, at),
         NEW len \in 1..Len(line), \A j \in 1..len-1 : line[j] # 0,
         NEW piece, piece = SubSeq(line, 1, len)
  PROVE  /\ piece \in Seq(Byte) \ {<<>>} /\ Len(piece) = len
         /\ \A j \in 1..len : piece[j] = line[j]
         /\ Rx!Accepts(piece) /\ Rx!ChunkFits(piece)
         /\ Rx!EndsFrame(piece) <=> line[len] = 0
<1>1. line \in Seq(Byte) /\ Len(line) \in Nat
  BY DEF RxRoom
<1>2. /\ piece \in Seq(Byte) /\ Len(piece) = len
      /\ \A j \in 1..len : piece[j] = line[j]
  BY <1>1
<1>3. piece # <<>>
  BY <1>2
<1>4. Len(arrived) + len <= at[2] /\ at[2] <= RX_SIZE /\ at[2] \in Nat
  <2>1. 1 \in 1..Len(frames) /\ Len(arrived) + len <= at[2] /\ at[2] <= RX_SIZE
    BY FirstFrame
  <2> QED
    BY <2>1
<1>5. /\ Len(arrived) = p_rx_buffer /\ p_rx_buffer \in Nat /\ rx_buffer_remaining \in Nat
      /\ p_rx_buffer + rx_buffer_remaining + 0 = RX_SIZE /\ RX_SIZE \in Nat
  BY ReceiverAssumption DEF RxRoom, RxProof!RoomAccounted, RxProof!RxBufferFaithful
<1>6. Rx!Accepts(piece) /\ Rx!ChunkFits(piece)
  BY <1>2, <1>4, <1>5 DEF Rx!Accepts, Rx!ChunkFits
<1>7. Rx!EndsFrame(piece) <=> line[len] = 0
  BY <1>2 DEF Rx!EndsFrame
<1> QED
  BY <1>2, <1>3, <1>6, <1>7

\* strlen() finds the end of an array's text, and only that.
LEMMA StrLenIs ==
  ASSUME NEW n, NEW buf, DOMAIN buf \subseteq Nat, RxProof!IsStrLen(n, buf)
  PROVE  RxProof!StrLen(buf) = n
<1>0. n \in DOMAIN buf
  BY DEF RxProof!IsStrLen
<1>1. RxProof!IsStrLen(RxProof!StrLen(buf), buf)
  BY <1>0 DEF RxProof!StrLen
<1> DEFINE k == RxProof!StrLen(buf)
<1> HIDE DEF k
<1>2. k \in Nat /\ n \in Nat /\ buf[k] = 0 /\ buf[n] = 0
      /\ (\A j \in 0..k-1 : buf[j] # 0) /\ (\A j \in 0..n-1 : buf[j] # 0)
  BY <1>1 DEF RxProof!IsStrLen, k
<1>3. ~(k < n) /\ ~(n < k)
  BY <1>2
<1>4. k = n
  BY <1>2, <1>3
<1> QED
  BY <1>4 DEF k

\* What strncpy() leaves in rx_buffer: what was there, and the bytes of a piece up to its
\* first zero.
LEMMA StoredFacts ==
  ASSUME rx_buffer \in [0..RX_SIZE-1 -> Byte], p_rx_buffer \in Nat, RX_SIZE \in Nat,
         NEW b \in Seq(Byte), p_rx_buffer + Len(b) <= RX_SIZE
  PROVE  /\ RxProof!Stored(b) \in [0..RX_SIZE-1 -> Byte]
         /\ \A k \in 0..p_rx_buffer-1 : RxProof!Stored(b)[k] = rx_buffer[k]
         /\ \A d \in 0..Len(b)-1 :
              (\A k \in 1..d : b[k] # 0) => RxProof!Stored(b)[p_rx_buffer + d] = b[d + 1]
<1> DEFINE r == RxProof!Stored(b)
<1>1. /\ Len(b) \in Nat /\ \A k \in 1..Len(b) : b[k] \in Byte
      /\ 0 \in Byte
  BY ReceiverAssumption
<1>2. r = [k \in 0..RX_SIZE-1 |->
             IF k < p_rx_buffer \/ k >= p_rx_buffer + Len(b) THEN rx_buffer[k]
             ELSE IF \E j \in 1..k-p_rx_buffer : b[j] = 0 THEN 0
             ELSE b[k - p_rx_buffer + 1]]
  BY DEF RxProof!Stored, RxProof!StrNCpy
<1> HIDE DEF r
<1>3. r \in [0..RX_SIZE-1 -> Byte]
  BY <1>1, <1>2
<1>4. \A k \in 0..p_rx_buffer-1 : r[k] = rx_buffer[k]
  BY <1>1, <1>2
<1>5. ASSUME NEW d \in 0..Len(b)-1, \A k \in 1..d : b[k] # 0
      PROVE  r[p_rx_buffer + d] = b[d + 1]
  <2>1. p_rx_buffer + d \in 0..RX_SIZE-1 /\ (p_rx_buffer + d) - p_rx_buffer = d
        /\ ~(p_rx_buffer + d < p_rx_buffer \/ p_rx_buffer + d >= p_rx_buffer + Len(b))
    BY <1>1
  <2> QED
    BY <1>2, <1>5, <2>1
<1> QED
  BY <1>3, <1>4, <1>5 DEF r

\* A piece that ends with a zero completes the first packet's frame, and that is what
\* cobs_decode() is given.
LEMMA FrameSeen ==
  ASSUME RxRoom, NEW frames \in Seq(LineFrame),
         NEW at \in [1..Len(frames) + 1 -> Nat], Framed(frames, at),
         NEW len \in 1..Len(line), \A j \in 1..len-1 : line[j] # 0, line[len] = 0,
         NEW piece, piece = SubSeq(line, 1, len)
  PROVE  Rx!FrameOf(piece) = frames[1]
<1> DEFINE S == RxProof!Stored(piece)
           E == frames[1]
           f == Len(E)
<1>1. /\ piece \in Seq(Byte) /\ Len(piece) = len
      /\ \A j \in 1..len : piece[j] = line[j]
  BY DEF RxRoom
<1>2. /\ Len(arrived) = p_rx_buffer /\ p_rx_buffer \in Nat /\ RX_SIZE \in Nat
      /\ rx_buffer \in [0..RX_SIZE-1 -> Byte]
      /\ line \in Seq(Byte) /\ arrived \in Seq(Byte)
      /\ \A j \in 0..p_rx_buffer-1 :
           (\A k \in 1..j : arrived[k] # 0) => rx_buffer[j] = arrived[j+1]
      /\ \A j \in 1..Len(arrived) : arrived[j] # 0
  BY ReceiverAssumption DEF RxRoom, RxProof!RxBufferFaithful
<1>3. /\ 1 \in 1..Len(frames) /\ at[2] = f + 1 /\ at[2] <= RX_SIZE
      /\ Len(arrived) + len = at[2]
  BY FirstFrame
<1>4. /\ E \in Seq(Byte \ {0}) /\ f \in Nat
      /\ \A j \in 1..f : Stream[j] = E[j] /\ E[j] # 0
  <2>1. /\ at[1] = 0 /\ frames[1] \in LineFrame
        /\ \A j \in 1..Len(frames[1]) : Stream[at[1] + j] = frames[1][j]
    BY <1>3 DEF Framed
  <2> QED
    BY <2>1 DEF LineFrame
<1>5. /\ \A j \in 1..p_rx_buffer : Stream[j] = arrived[j]
      /\ \A j \in 1..len : Stream[p_rx_buffer + j] = piece[j]
  BY SMTT(30), <1>1, <1>2 DEF Stream
<1> HIDE DEF E, f
<1>6. /\ S \in [0..RX_SIZE-1 -> Byte]
      /\ \A k \in 0..p_rx_buffer-1 : S[k] = rx_buffer[k]
      /\ \A j \in 0..len-1 : (\A k \in 1..j : piece[k] # 0) => S[p_rx_buffer + j] = piece[j + 1]
  <2>1. /\ rx_buffer \in [0..RX_SIZE-1 -> Byte] /\ RX_SIZE \in Nat /\ p_rx_buffer \in Nat
        /\ piece \in Seq(Byte) /\ p_rx_buffer + Len(piece) <= RX_SIZE
    BY <1>1, <1>2, <1>3
  <2> QED
    BY <1>1, <2>1, StoredFacts, ZenonT(30)
<1> HIDE DEF S
<1>7. ASSUME NEW j \in 0..f PROVE S[j] = Stream[j + 1]
  <2>1. CASE j < p_rx_buffer
    <3>1. j \in 0..p_rx_buffer-1 /\ j + 1 \in 1..p_rx_buffer
      BY <1>2, <2>1
    <3>2. \A k \in 1..j : arrived[k] # 0
      BY <1>2, <2>1
    <3>3. S[j] = rx_buffer[j]
      BY <1>6, <3>1
    <3>4. rx_buffer[j] = arrived[j + 1]
      BY <1>2, <3>1, <3>2
    <3>5. Stream[j + 1] = arrived[j + 1]
      BY <1>5, <3>1
    <3> QED
      BY <3>3, <3>4, <3>5
  <2>2. CASE j >= p_rx_buffer
    <3> DEFINE d == j - p_rx_buffer
    <3>1. d \in 0..len-1 /\ p_rx_buffer + d = j
      BY <1>2, <1>3, <1>4, <2>2
    <3>2. \A k \in 1..d : piece[k] # 0
      BY <1>1, <3>1
    <3>3. S[p_rx_buffer + d] = piece[d + 1]
      BY <1>6, <3>1, <3>2
    <3>4. d + 1 \in 1..len /\ p_rx_buffer + (d + 1) = j + 1
      BY <1>2, <3>1
    <3> QED
      BY <1>5, <3>1, <3>3, <3>4
  <2> QED
    BY <1>2, <2>1, <2>2
<1>8. RxProof!IsStrLen(f, S)
  <2>1. f \in 0..RX_SIZE-1
    BY <1>2, <1>3, <1>4
  <2>2. S[f] = 0
    <3>1. S[f] = Stream[f + 1] /\ f + 1 = p_rx_buffer + len
      BY <1>2, <1>3, <1>4, <1>7
    <3> QED
      BY <1>1, <1>5, <3>1
  <2>3. ASSUME NEW k \in 0..f-1 PROVE S[k] # 0
    <3>1. k \in 0..f /\ k + 1 \in 1..f
      BY <1>4
    <3> QED
      BY <1>4, <1>7, <3>1
  <2> QED
    BY <1>6, <2>1, <2>2, <2>3 DEF RxProof!IsStrLen
<1>9. RxProof!StrLen(S) = f
  <2>1. DOMAIN S \subseteq Nat
    BY <1>2, <1>6
  <2> QED
    BY <1>8, <2>1, StrLenIs
<1>10. RxProof!Prefix(S, f) = E
  <2>1. \A k \in 1..f : S[k - 1] = E[k]
    BY <1>4, <1>7
  <2>2. E = [k \in 1..f |-> E[k]]
    BY <1>4 DEF f
  <2> QED
    BY <2>1, <2>2 DEF RxProof!Prefix
<1> QED
  BY <1>9, <1>10, SameReceiver DEF RxProof!FrameOf, E, S

\* The ways through process() that a piece of whole frames can take are the same ones.
LEMMA SameWays ==
  \A b : /\ Rx!StoreChunk(b) => RxProof!StoreChunk(b)
         /\ Rx!BadFrame(b) /\ RxProof!CompletesFrame(b) =>
              RxProof!RxFailure(b) /\ RxProof!StartNextFrame
         /\ \A packet : Rx!GoodFrame(b, packet) => RxProof!GoodFrame(b, packet)
         /\ \A packet : ~Rx!UnhandledMessage(b, packet)
<1>1. \A b : Rx!StoreChunk(b) => RxProof!StoreChunk(b)
  BY SameReceiver
     DEF Rx!StoreChunk, RxProof!StoreChunk, Rx!RemainingAfter, RxProof!RemainingAfter,
         Rx!packetVars, RxProof!packetVars, Rx!upVars, RxProof!upVars
<1>2. \A b : Rx!BadFrame(b) => RxProof!RxFailure(b) /\ RxProof!StartNextFrame
  BY SameReceiver
     DEF Rx!BadFrame, Rx!RxFailure, RxProof!RxFailure, Rx!RemainingAfter,
         RxProof!RemainingAfter, Rx!StartNextFrame, RxProof!StartNextFrame
<1>3. \A b, packet : Rx!GoodFrame(b, packet) => RxProof!GoodFrame(b, packet)
  BY SameReceiver
     DEF Rx!GoodFrame, RxProof!GoodFrame, Rx!packet_parser, RxProof!packet_parser,
         Rx!KeepPacket, RxProof!KeepPacket, Rx!HandOver, RxProof!HandOver,
         Rx!ClearPacketBuffer, RxProof!ClearPacketBuffer, Rx!Zeroed, RxProof!Zeroed,
         Rx!RxSuccess, RxProof!RxSuccess, Rx!StartNextFrame, RxProof!StartNextFrame,
         Rx!upVars, RxProof!upVars
<1>4. \A b, packet : ~Rx!UnhandledMessage(b, packet)
  BY DEF Rx!UnhandledMessage, Rx!packet_parser, Rx!HandOver, HandledType
<1> QED
  BY <1>1, <1>2, <1>3, <1>4

\* A process() call on a line of frames refuses nothing: it stores a part of the first frame,
\* or completes and decodes it.
LEMMA ProcessOutcome ==
  ASSUME RxRoom, leaked = 0, NEW frames \in Seq(LineFrame),
         NEW at \in [1..Len(frames) + 1 -> Nat], Framed(frames, at),
         NEW len \in 1..Len(line), \A j \in 1..len-1 : line[j] # 0,
         NEW piece, piece = SubSeq(line, 1, len), Rx!process(piece)
  PROVE  /\ line[len] # 0 => ~Rx!CompletesFrame(piece) /\ Rx!StoreChunk(piece)
         /\ line[len] = 0 =>
              /\ Rx!CompletesFrame(piece) /\ RxProof!CompletesFrame(piece)
              /\ Rx!FrameOf(piece) = frames[1]
              /\ \/ Rx!BadFrame(piece)
                 \/ \E packet \in Rx!DecodedPackets(piece) : Rx!GoodFrame(piece, packet)
<1>1. /\ piece \in Seq(Byte) \ {<<>>} /\ Len(piece) = len
      /\ Rx!Accepts(piece) /\ Rx!ChunkFits(piece)
      /\ Rx!EndsFrame(piece) <=> line[len] = 0
  BY PieceAccepted
<1>2. ~Rx!RejectChunk(piece)
  <2>1. Len(piece) \in Nat /\ rx_buffer_remaining \in Nat
    BY <1>1 DEF RxRoom
  <2> QED
    BY <1>1, <2>1 DEF Rx!RejectChunk, Rx!Accepts
<1>3. ASSUME line[len] # 0 PROVE ~Rx!CompletesFrame(piece) /\ Rx!StoreChunk(piece)
  <2>1. ~Rx!CompletesFrame(piece)
    BY <1>1, <1>3 DEF Rx!CompletesFrame
  <2>2. Rx!StoreChunk(piece)
    BY <1>2, <2>1 DEF Rx!process, Rx!BadFrame, Rx!ParseFrame
  <2> QED
    BY <2>1, <2>2
<1>4. ASSUME line[len] = 0
      PROVE  /\ Rx!CompletesFrame(piece) /\ RxProof!CompletesFrame(piece)
             /\ Rx!FrameOf(piece) = frames[1]
             /\ \/ Rx!BadFrame(piece)
                \/ \E packet \in Rx!DecodedPackets(piece) : Rx!GoodFrame(piece, packet)
  <2>1. Rx!CompletesFrame(piece) /\ RxProof!CompletesFrame(piece)
    BY <1>1, <1>4, SameReceiver DEF Rx!CompletesFrame, RxProof!CompletesFrame
  <2>2. Rx!FrameOf(piece) = frames[1]
    BY <1>4, FrameSeen
  <2>3. Rx!BadFrame(piece) \/ Rx!ParseFrame(piece)
    BY <1>1, <1>2, <1>4 DEF Rx!process, Rx!StoreChunk
  <2> QED
    BY <2>1, <2>2, <2>3, SameWays DEF Rx!ParseFrame
<1> QED
  BY <1>3, <1>4

\* What process() makes of a whole frame.
Received(packet) == [data |-> packet.data, flag |-> packet.flag]

\* rx_buffer holds what has arrived of the first frame.
LEMMA LinkRoom == LinkType /\ RxProof!Inv /\ Undisturbed => RxRoom /\ leaked = 0
BY ReceiverAssumption
   DEF LinkType, Undisturbed, RxProof!Inv, RxProof!Bounded, RxProof!TypeOK, RxRoom

\* The completed frame decodes, to the first packet and nothing else, which has room behind
\* what packet_buffer holds.
LEMMA FrameDecoded ==
  ASSUME LinkType, RxProof!Inv, Undisturbed,
         NEW q \in Seq(LinkPacket), NEW at \in [1..Len(q) + 1 -> Nat],
         NEW of \in [1..Len(q) + 1 -> Nat], NEW from \in [1..Len(q) + 1 -> Nat],
         LinkedBy(q, at, of, from),
         NEW len \in 1..Len(line), \A j \in 1..len-1 : line[j] # 0, line[len] = 0,
         NEW piece, piece = SubSeq(line, 1, len)
  PROVE  /\ NoPacket \notin Decode(Rx!FrameOf(piece))
         /\ Rx!DecodedPackets(piece) = {Received(q[1])}
         /\ RxProof!DecodedPackets(piece) = {Received(q[1])}
         /\ Received(q[1]) \in RxProof!Packet
         /\ RxProof!PacketFits(Received(q[1]))
<1>1. Framed(FramesOf(q), at) /\ Placed(q, of, from) /\ Collected(of, from)
  BY DEF LinkedBy
<1>2. /\ FramesOf(q) \in Seq(LineFrame) /\ Len(FramesOf(q)) = Len(q)
      /\ \A k \in 1..Len(q) : FramesOf(q)[k] = Encode(q[k])
  BY FramesOfFacts
<1>3. RxRoom
  BY LinkRoom
<1>4. 1 \in 1..Len(q) /\ Rx!FrameOf(piece) = Encode(q[1])
  <2>1. 1 \in 1..Len(FramesOf(q)) /\ Rx!FrameOf(piece) = FramesOf(q)[1]
    BY ZenonT(30), <1>1, <1>2, <1>3, FirstFrame, FrameSeen
  <2> QED
    BY <1>2, <2>1
<1>5. /\ NoPacket \notin Decode(Rx!FrameOf(piece))
      /\ Decode(Rx!FrameOf(piece)) = {Received(q[1])}
  <2>1. q[1] \in LinkPacket
    BY <1>4
  <2> QED
    BY <1>4, <2>1 DEF LinkPacket, Survives, Received
<1>6. q[1] \in LinkPacket
  BY <1>4
<1>7. Received(q[1]) \in RxProof!Packet /\ Received(q[1]).data = q[1].data
  BY <1>6 DEF LinkPacket, Received, RxProof!Packet, RxProof!Flag, Rx!Flag
<1>8. KnownDecode(RxProof!FrameOf(piece)) = {Received(q[1])}
  BY <1>5, <1>7, SameReceiver DEF KnownDecode
<1>9. RxProof!PacketFits(Received(q[1]))
  <2>1. /\ of[1] = 1 /\ from[1] = Len(assembled)
        /\ of[1] \in 1..Len(in_flight)
        /\ from[1] + Len(q[1].data) <= Len(in_flight[of[1]])
    BY <1>1, <1>4 DEF Placed, Collected
  <2>2. Len(in_flight[1]) <= PACKET_BUFFER_SIZE /\ Len(in_flight[1]) \in Nat
    BY <2>1 DEF LinkType
  <2>3. packet_buffer_offset = Len(assembled)
    BY DEF RxProof!Inv, RxProof!PacketBufferFaithful
  <2>4. Len(q[1].data) \in Nat /\ PACKET_BUFFER_SIZE \in Nat /\ Len(assembled) \in Nat
    <3>1. q[1].data \in Seq(Byte)
      BY <1>6 DEF LinkPacket
    <3>2. assembled \in Seq(Byte)
      BY DEF RxProof!Inv, RxProof!Bounded, RxProof!TypeOK
    <3> QED
      BY <3>1, <3>2, ReceiverAssumption
  <2> QED
    BY <1>7, <2>1, <2>2, <2>3, <2>4 DEF RxProof!PacketFits
<1> QED
  BY <1>5, <1>7, <1>8, <1>9 DEF Rx!DecodedPackets, RxProof!DecodedPackets

\* A process() call on this line stores a part of the first packet's frame, or completes
\* the frame and parses the packet; either way it succeeds.
LEMMA ProcessStep ==
  ASSUME LinkType, RxProof!Inv, Undisturbed,
         NEW q \in Seq(LinkPacket), NEW at \in [1..Len(q) + 1 -> Nat],
         NEW of \in [1..Len(q) + 1 -> Nat], NEW from \in [1..Len(q) + 1 -> Nat],
         LinkedBy(q, at, of, from),
         NEW len \in 1..Len(line), \A j \in 1..len-1 : line[j] # 0,
         NEW piece, piece = SubSeq(line, 1, len), Rx!process(piece)
  PROVE  /\ line[len] # 0 =>
              ~Delivers(piece) /\ Rx!StoreChunk(piece) /\ RxProof!StoreChunk(piece)
         /\ line[len] = 0 =>
              /\ Delivers(piece) <=> Rx!EndsMessage(q[1])
              /\ Rx!GoodFrame(piece, Received(q[1]))
              /\ RxProof!ParseFrame(piece)
         /\ RxProof!Inv'
<1>1. /\ Framed(FramesOf(q), at) /\ FramesOf(q) \in Seq(LineFrame)
      /\ Len(FramesOf(q)) = Len(q) /\ RxRoom /\ leaked = 0
  BY FramesOfFacts, LinkRoom DEF LinkedBy
<1>2. /\ piece \in Seq(Byte) \ {<<>>}
      /\ Rx!EndsFrame(piece) <=> line[len] = 0
  BY <1>1, PieceAccepted
<1>3. /\ line[len] # 0 => ~Rx!CompletesFrame(piece) /\ Rx!StoreChunk(piece)
      /\ line[len] = 0 =>
           /\ Rx!CompletesFrame(piece) /\ RxProof!CompletesFrame(piece)
           /\ \/ Rx!BadFrame(piece)
              \/ \E packet \in Rx!DecodedPackets(piece) : Rx!GoodFrame(piece, packet)
  BY <1>1, ProcessOutcome
<1>4. ASSUME line[len] # 0
      PROVE  ~Delivers(piece) /\ Rx!StoreChunk(piece) /\ RxProof!StoreChunk(piece)
  BY <1>3, <1>4, SameWays DEF Delivers
<1>5. ASSUME line[len] = 0
      PROVE  /\ Delivers(piece) <=> Rx!EndsMessage(q[1])
             /\ Rx!GoodFrame(piece, Received(q[1]))
             /\ RxProof!ParseFrame(piece)
  <2>1. /\ NoPacket \notin Decode(Rx!FrameOf(piece))
        /\ Rx!DecodedPackets(piece) = {Received(q[1])}
        /\ RxProof!DecodedPackets(piece) = {Received(q[1])}
    BY <1>5, FrameDecoded
  <2>2. Delivers(piece) <=> Rx!EndsMessage(q[1])
    <3>1. Rx!EndsMessage(Received(q[1])) <=> Rx!EndsMessage(q[1])
      BY DEF Rx!EndsMessage, Received
    <3> QED
      BY <1>3, <1>5, <2>1, <3>1 DEF Delivers
  <2>3. Rx!GoodFrame(piece, Received(q[1]))
    BY <1>3, <1>5, <2>1 DEF Rx!BadFrame
  <2>4. RxProof!ParseFrame(piece)
    BY <1>3, <1>5, <2>1, <2>3, SameWays DEF RxProof!ParseFrame
  <2> QED
    BY <2>2, <2>3, <2>4
<1>6. RxProof!Inv'
  <2>1. RxProof!PeerRespectsSize(piece)
    <3>1. CASE line[len] = 0
      <4>1. /\ RxProof!DecodedPackets(piece) = {Received(q[1])}
            /\ RxProof!PacketFits(Received(q[1]))
        BY <3>1, FrameDecoded
      <4> QED
        BY <4>1 DEF RxProof!PeerRespectsSize
    <3>2. CASE line[len] # 0
      BY <1>2, <3>2, SameReceiver DEF RxProof!PeerRespectsSize, RxProof!CompletesFrame
    <3> QED
      BY <3>1, <3>2
  <2>2. RxProof!process(piece)
    BY <1>4, <1>5 DEF Rx!process, RxProof!process
  <2>3. RxProof!Next
    BY <1>2, <2>1, <2>2 DEF RxProof!Next
  <2> QED
    BY <2>3, RxAssumptions, RxProof!NextInv DEF RxProof!NextInv
<1> QED
  BY <1>4, <1>5, <1>6

-----------------------------------------------------------------------------
(* The actions keep the invariant. *)

\* Moving a piece from the line to what has arrived leaves the stream as it is.
LEMMA PieceMoved ==
  ASSUME NEW a \in Seq(Byte), NEW l \in Seq(Byte), NEW len \in 1..Len(l)
  PROVE  /\ SubSeq(l, len + 1, Len(l)) \in Seq(Byte)
         /\ Len(SubSeq(l, len + 1, Len(l))) = Len(l) - len
         /\ \A j \in 1..Len(l)-len : SubSeq(l, len + 1, Len(l))[j] = l[len + j]
         /\ (a \o SubSeq(l, 1, len)) \o SubSeq(l, len + 1, Len(l)) = a \o l
<1> DEFINE u == SubSeq(l, 1, len)
           w == SubSeq(l, len + 1, Len(l))
<1>1. Len(l) \in Nat /\ Len(a) \in Nat /\ len \in Nat /\ len <= Len(l)
  OBVIOUS
<1>2. /\ u \in Seq(Byte) /\ Len(u) = len
      /\ \A j \in 1..len : u[j] = l[j]
  BY <1>1
<1>3. /\ w \in Seq(Byte) /\ Len(w) = Len(l) - len
      /\ \A j \in 1..Len(l)-len : w[j] = l[len + j]
  BY <1>1
<1> HIDE DEF u, w
<1>4. u \o w = l
  <2>1. SubSeq(l, 1, len) \o SubSeq(l, len + 1, Len(l)) = SubSeq(l, 1, Len(l))
    <3>1. 1 \in 1..Len(l)+1 /\ len \in 1-1..Len(l) /\ Len(l) \in len..Len(l)
      BY <1>1
    <3> QED
      BY <3>1, ConcatAdjacentSubSeq
  <2> QED
    BY <2>1, SubSeqFull DEF u, w
<1>5. (a \o u) \o w = a \o l
  <2>1. u \in Seq(Byte) /\ w \in Seq(Byte)
    BY <1>2, <1>3
  <2>2. (a \o u) \o w = a \o (u \o w)
    BY SMTT(30), <2>1, ConcatAssociative
  <2> QED
    BY <1>4, <2>2, Zenon
<1> QED
  BY <1>3, <1>5 DEF u, w

\* A piece without delimiter only moves from the line into rx_buffer.
LEMMA StoreFramed ==
  ASSUME line \in Seq(Byte), arrived \in Seq(Byte), \A j \in 1..Len(arrived) : arrived[j] # 0,
         NEW frames \in Seq(LineFrame),
         NEW at \in [1..Len(frames) + 1 -> Nat], Framed(frames, at),
         NEW len \in 1..Len(line), \A j \in 1..len-1 : line[j] # 0, line[len] # 0,
         NEW piece, piece = SubSeq(line, 1, len),
         Rx!StoreChunk(piece), line' = SubSeq(line, Len(piece) + 1, Len(line))
  PROVE  /\ line' \in Seq(Byte) /\ arrived' \in Seq(Byte)
         /\ \A j \in 1..Len(arrived') : arrived'[j] # 0
         /\ Framed(frames, at)'
<1>1. Len(line) \in Nat /\ Len(arrived) \in Nat
  OBVIOUS
<1>2. /\ piece \in Seq(Byte) /\ Len(piece) = len
      /\ \A j \in 1..len : piece[j] = line[j]
  BY <1>1
<1>3. arrived' = arrived \o piece
  BY DEF Rx!StoreChunk
<1>4. line' = SubSeq(line, len + 1, Len(line))
  BY <1>2
<1>5. Stream' = Stream /\ line' \in Seq(Byte) /\ arrived' \in Seq(Byte)
  <2>1. /\ (arrived \o SubSeq(line, 1, len)) \o SubSeq(line, len + 1, Len(line)) = arrived \o line
        /\ SubSeq(line, len + 1, Len(line)) \in Seq(Byte)
    BY <1>1, PieceMoved
  <2>2. arrived' = arrived \o SubSeq(line, 1, len)
    BY <1>3
  <2>3. arrived' \in Seq(Byte)
    BY <1>2, <1>3
  <2> QED
    BY <1>4, <2>1, <2>2, <2>3, Zenon DEF Stream
<1>6. ASSUME NEW j \in 1..Len(arrived') PROVE arrived'[j] # 0
  <2>1. CASE j <= Len(arrived)
    BY <1>1, <1>2, <1>3, <2>1
  <2>2. CASE j > Len(arrived)
    <3>1. j - Len(arrived) \in 1..len /\ arrived'[j] = piece[j - Len(arrived)]
      BY <1>1, <1>2, <1>3, <2>2
    <3>2. line[j - Len(arrived)] # 0
      BY <3>1
    <3> QED
      BY <1>2, <3>1, <3>2
  <2> QED
    BY <1>1, <1>2, <1>3, <2>1, <2>2
<1>7. Framed(frames, at)'
  BY <1>5 DEF Framed
<1> QED
  BY <1>5, <1>6, <1>7

\* The part of the invariant that a process() call must keep besides the halves' own.
ReceiveInv == LinkType' /\ Sending' /\ Undisturbed' /\ Linked'

\* With a piece without delimiter the link stays as it is.
LEMMA StoreInv ==
  ASSUME IInv,
         NEW q \in Seq(LinkPacket), NEW at \in [1..Len(q) + 1 -> Nat],
         NEW of \in [1..Len(q) + 1 -> Nat], NEW from \in [1..Len(q) + 1 -> Nat],
         LinkedBy(q, at, of, from),
         NEW len \in 1..Len(line), \A j \in 1..len-1 : line[j] # 0, line[len] # 0,
         NEW piece, piece = SubSeq(line, 1, len),
         Rx!StoreChunk(piece), line' = SubSeq(line, Len(piece) + 1, Len(line)),
         in_flight' = in_flight, UNCHANGED <<txVars, buffer>>
  PROVE  ReceiveInv
<1>1. /\ line \in Seq(Byte) /\ arrived \in Seq(Byte)
      /\ \A j \in 1..Len(arrived) : arrived[j] # 0
  BY DEF IInv, LinkType, RxProof!Inv, RxProof!Bounded, RxProof!TypeOK, Undisturbed
<1>2. /\ FramesOf(q) \in Seq(LineFrame) /\ Len(FramesOf(q)) = Len(q)
      /\ Framed(FramesOf(q), at)
  BY FramesOfFacts DEF LinkedBy
<1>3. /\ line' \in Seq(Byte) /\ \A j \in 1..Len(arrived') : arrived'[j] # 0
      /\ Framed(FramesOf(q), at)'
  <2> DEFINE frames == FramesOf(q)
  <2>1. frames \in Seq(LineFrame) /\ at \in [1..Len(frames) + 1 -> Nat] /\ Framed(frames, at)
    BY <1>2
  <2>2. PICK w : w = frames
    OBVIOUS
  <2> HIDE DEF frames
  <2>3. /\ line' \in Seq(Byte) /\ \A j \in 1..Len(arrived') : arrived'[j] # 0
        /\ Framed(w, at)'
    BY <1>1, <2>1, <2>2, StoreFramed
  <2> QED
    BY <2>2, <2>3 DEF frames, FramesOf
<1>4. leaked' = leaked /\ retval' = TRUE /\ assembled' = assembled
  BY DEF Rx!StoreChunk, Rx!packetVars
<1>6. LinkType' /\ Sending' /\ Undisturbed'
  BY <1>3, <1>4 DEF IInv, LinkType, Sending, Undisturbed, txVars
<1>8. LinkedBy(q, at, of, from)'
  <2>2. Placed(q, of, from)' /\ Collected(of, from)'
    BY <1>4 DEF LinkedBy, Placed, Collected, Rx!EndsMessage
  <2>3. Continued(of[Len(q) + 1], from[Len(q) + 1])'
    BY DEF LinkedBy, Continued, Tx!InLoop, Tx!total_chunks, Transmitted, txVars
  <2> QED
    BY <1>3, <2>2, <2>3 DEF LinkedBy
<1> QED
  BY <1>6, <1>8 DEF ReceiveInv, Linked

\* The positions behind the first one hold for the frames behind the first frame.
LEMMA FramedTail ==
  ASSUME line \in Seq(Byte), arrived \in Seq(Byte),
         NEW frames \in Seq(LineFrame), NEW at \in [1..Len(frames) + 1 -> Nat], Framed(frames, at),
         1 \in 1..Len(frames),
         NEW len \in 1..Len(line), Len(arrived) + len = at[2],
         arrived' = <<>>, line' = SubSeq(line, len + 1, Len(line)),
         NEW rest, rest = [k \in 1..Len(frames) |-> at[k + 1] - at[2]]
  PROVE  /\ Tail(frames) \in Seq(LineFrame) /\ Len(Tail(frames)) + 1 = Len(frames)
         /\ \A k \in 1..Len(Tail(frames)) : Tail(frames)[k] = frames[k + 1]
         /\ rest \in [1..Len(Tail(frames)) + 1 -> Nat]
         /\ line' \in Seq(Byte)
         /\ Framed(Tail(frames), rest)'
<1>1. /\ Tail(frames) \in Seq(LineFrame) /\ Len(Tail(frames)) = Len(frames) - 1 /\ Len(frames) \in Nat
      /\ \A k \in 1..Len(frames) - 1 : Tail(frames)[k] = frames[k + 1]
  OBVIOUS
<1>2. /\ at[Len(frames) + 1] = Len(Stream)
      /\ \A j, k \in 1..Len(frames) + 1 : j <= k => at[j] <= at[k]
      /\ \A k \in 1..Len(frames) :
           /\ at[k + 1] = at[k] + Len(frames[k]) + 1
           /\ \A j \in 1..Len(frames[k]) : Stream[at[k] + j] = frames[k][j]
           /\ Stream[at[k + 1]] = 0
  BY DEF Framed
<1>3. \A k \in 1..Len(frames) : at[k + 1] \in Nat /\ at[2] \in Nat /\ at[2] <= at[k + 1]
  <2>1. \A k \in 1..Len(frames) : k + 1 \in 1..Len(frames) + 1 /\ 2 \in 1..Len(frames) + 1 /\ 2 <= k + 1
    BY <1>1
  <2> QED
    BY <1>2, <2>1
<1>4. rest \in [1..Len(frames) -> Nat]
  BY <1>3
<1>5. /\ line' \in Seq(Byte) /\ Len(line') = Len(line) - len
      /\ \A j \in 1..Len(line)-len : line'[j] = line[len + j]
      /\ Len(line) \in Nat /\ Len(arrived) \in Nat
  BY SMTT(30)
<1>6. Stream' = line'
  BY <1>5 DEF Stream
<1>7. /\ Len(Stream) = Len(arrived) + Len(line)
      /\ \A j \in 1..Len(line) : Stream[Len(arrived) + j] = line[j]
  BY <1>5 DEF Stream
<1>8. /\ Len(Stream') = Len(Stream) - at[2] /\ Len(Stream) \in Nat /\ at[2] \in Nat
      /\ \A j \in 1..Len(Stream)-at[2] : Stream'[j] = Stream[at[2] + j]
  <2>1. /\ Len(Stream') = Len(Stream) - at[2] /\ Len(Stream) \in Nat /\ at[2] \in Nat
        /\ Len(Stream) - at[2] = Len(line) - len
    BY <1>5, <1>6, <1>7
  <2>2. ASSUME NEW j \in 1..Len(Stream)-at[2] PROVE Stream'[j] = Stream[at[2] + j]
    <3>1. /\ j \in 1..Len(line)-len /\ len + j \in 1..Len(line)
          /\ at[2] + j = Len(arrived) + (len + j)
      BY <1>5, <2>1
    <3> QED
      BY <1>5, <1>6, <1>7, <3>1
  <2> QED
    BY <2>1, <2>2
<1> DEFINE t == Tail(frames)
<1> HIDE DEF t
<1>9. Framed(t, rest)'
  <2>1. rest[1] = 0
    BY <1>1, <1>3
  <2>2. rest[Len(t) + 1] = Len(Stream')
    <3>1. Len(t) + 1 = Len(frames) /\ Len(frames) \in 1..Len(frames)
      BY <1>1 DEF t
    <3> QED
      BY <1>2, <1>8, <3>1
  <2>3. \A j, k \in 1..Len(t) + 1 : j <= k => rest[j] <= rest[k]
    <3> SUFFICES ASSUME NEW j \in 1..Len(frames), NEW k \in 1..Len(frames), j <= k
                 PROVE  rest[j] <= rest[k]
      BY <1>1 DEF t
    <3>1. j + 1 \in 1..Len(frames) + 1 /\ k + 1 \in 1..Len(frames) + 1 /\ j + 1 <= k + 1
      BY <1>1
    <3>2. at[j + 1] <= at[k + 1]
      BY <1>2, <3>1
    <3> QED
      BY <1>3, <3>2
  <2>4. ASSUME NEW k \in 1..Len(t)
        PROVE  /\ rest[k + 1] = rest[k] + Len(t[k]) + 1
               /\ \A j \in 1..Len(t[k]) : Stream'[rest[k] + j] = t[k][j]
               /\ Stream'[rest[k + 1]] = 0
    <3> DEFINE e == k + 1
               f == frames[e]
    <3>1. /\ k \in 1..Len(frames) /\ e \in 1..Len(frames) /\ e + 1 \in 1..Len(frames) + 1
          /\ Len(frames) + 1 \in 1..Len(frames) + 1 /\ e + 1 <= Len(frames) + 1
          /\ t[k] = frames[e]
      BY <1>1 DEF t
    <3>2. /\ at[e + 1] = at[e] + Len(f) + 1
          /\ \A j \in 1..Len(f) : Stream[at[e] + j] = f[j]
          /\ Stream[at[e + 1]] = 0
      BY <1>2, <3>1
    <3>3. /\ rest[k] = at[e] - at[2] /\ rest[k + 1] = at[e + 1] - at[2]
          /\ at[e] \in Nat /\ at[e + 1] \in Nat /\ at[2] <= at[e] /\ at[2] \in Nat
          /\ Len(Stream) \in Nat
      BY <1>3, <1>8, <3>1
    <3>4. at[e + 1] <= Len(Stream)
      BY <1>2, <3>1
    <3>5. Len(f) \in Nat
      <4>1. f \in LineFrame
        BY SMTT(30), <3>1
      <4>2. f \in Seq(Byte \ {0})
        BY <4>1, Zenon DEF LineFrame
      <4> HIDE DEF f
      <4> QED
        BY <4>2
    <3> HIDE DEF e, f
    <3>6. at[e + 1] = at[e] + Len(f) + 1
      BY <3>2
    <3>7. /\ rest[k + 1] = rest[k] + Len(f) + 1
          /\ \A j \in 1..Len(f) : /\ rest[k] + j \in 1..Len(Stream)-at[2]
                                  /\ at[2] + (rest[k] + j) = at[e] + j
          /\ rest[k + 1] \in 1..Len(Stream)-at[2] /\ at[2] + rest[k + 1] = at[e + 1]
      <4> DEFINE x == rest[k]
                 y == rest[k + 1]
                 a == at[e]
                 b == at[e + 1]
                 d == at[2]
                 n == Len(Stream)
                 m == Len(f)
      <4>1. /\ x = a - d /\ y = b - d /\ a \in Nat /\ b \in Nat /\ d <= a /\ d \in Nat
            /\ n \in Nat /\ b <= n /\ m \in Nat /\ b = a + m + 1
        BY <3>3, <3>4, <3>5, <3>6
      <4> HIDE DEF x, y, a, b, d, n, m
      <4>2. /\ y = x + m + 1
            /\ \A j \in 1..m : x + j \in 1..n-d /\ d + (x + j) = a + j
            /\ y \in 1..n-d /\ d + y = b
        BY <4>1
      <4> QED
        BY <4>2 DEF x, y, a, b, d, n, m
    <3>8. ASSUME NEW j \in 1..Len(f) PROVE Stream'[rest[k] + j] = f[j]
      <4>1. /\ rest[k] + j \in 1..Len(Stream)-at[2]
            /\ at[2] + (rest[k] + j) = at[e] + j
        BY <3>7
      <4>2. Stream'[rest[k] + j] = Stream[at[2] + (rest[k] + j)]
        BY <1>8, <4>1
      <4> QED
        BY <3>2, <4>1, <4>2
    <3>9. Stream'[rest[k + 1]] = 0
      BY <1>8, <3>2, <3>7
    <3> QED
      BY <3>1, <3>2, <3>7, <3>8, <3>9 DEF f
  <2> QED
    BY <2>1, <2>2, <2>3, <2>4 DEF Framed
<1> QED
  BY <1>1, <1>4, <1>5, <1>9 DEF t

\* A sequence without its first element.
LEMMA WithoutFirst ==
  ASSUME NEW S, NEW s \in Seq(S), s # <<>>
  PROVE  /\ SubSeq(s, 2, Len(s)) \in Seq(S) /\ Len(SubSeq(s, 2, Len(s))) = Len(s) - 1
         /\ \A k \in 1..Len(s)-1 : SubSeq(s, 2, Len(s))[k] = s[k + 1]
BY SMTT(30)

\* Data behind what is collected of a message extends the beginning that is collected.
LEMMA BeginningGrows ==
  ASSUME NEW s \in Seq(Byte), NEW t \in Seq(Byte), NEW m \in Seq(Byte),
         Len(s) + Len(t) <= Len(m),
         \A j \in 1..Len(s) : s[j] = m[j],
         \A j \in 1..Len(t) : t[j] = m[Len(s) + j]
  PROVE  /\ Len(s \o t) = Len(s) + Len(t)
         /\ \A j \in 1..Len(s \o t) : (s \o t)[j] = m[j]
<1>1. Len(s \o t) = Len(s) + Len(t) /\ Len(s) \in Nat /\ Len(t) \in Nat
  OBVIOUS
<1>2. ASSUME NEW j \in 1..Len(s)+Len(t) PROVE (s \o t)[j] = m[j]
  <2>1. CASE j <= Len(s)
    BY <1>1, <2>1
  <2>2. CASE j > Len(s)
    <3>1. (s \o t)[j] = t[j - Len(s)]
      BY <1>1, <2>2
    <3>2. j - Len(s) \in 1..Len(t) /\ Len(s) + (j - Len(s)) = j
      BY <1>1, <2>2
    <3> QED
      BY <3>1, <3>2
  <2> QED
    BY <1>1, <2>1, <2>2
<1> QED
  BY <1>1, <1>2

\* The first packet is part of the first message in flight, behind what is collected of it.
LEMMA FirstPlaced ==
  ASSUME LinkType, assembled \in Seq(Byte),
         NEW q \in Seq(LinkPacket), 1 \in 1..Len(q),
         NEW of \in [1..Len(q) + 1 -> Nat], NEW from \in [1..Len(q) + 1 -> Nat],
         Placed(q, of, from), Collected(of, from)
  PROVE  /\ in_flight # <<>> /\ in_flight[1] \in Seq(Byte)
         /\ of[1] = 1 /\ from[1] = Len(assembled)
         /\ q[1].data \in Seq(Byte)
         /\ Len(assembled \o q[1].data) = Len(assembled) + Len(q[1].data)
         /\ Len(assembled) + Len(q[1].data) <= Len(in_flight[1])
         /\ \A j \in 1..Len(assembled \o q[1].data) : (assembled \o q[1].data)[j] = in_flight[1][j]
         /\ Rx!EndsMessage(q[1]) =>
              /\ Len(assembled) + Len(q[1].data) = Len(in_flight[1])
              /\ of[2] = 2 /\ from[2] = 0
         /\ ~Rx!EndsMessage(q[1]) =>
              of[2] = 1 /\ from[2] = Len(assembled) + Len(q[1].data)
<1>1. of[1] = 1 /\ from[1] = Len(assembled)
  BY DEF Collected
<1>2. /\ of[1] \in 1..Len(in_flight)
      /\ from[1] + Len(q[1].data) <= Len(in_flight[of[1]])
      /\ \A j \in 1..Len(q[1].data) : q[1].data[j] = in_flight[of[1]][from[1] + j]
      /\ Rx!EndsMessage(q[1]) =>
           /\ from[1] + Len(q[1].data) = Len(in_flight[of[1]])
           /\ of[1 + 1] = of[1] + 1 /\ from[1 + 1] = 0
      /\ ~Rx!EndsMessage(q[1]) =>
           of[1 + 1] = of[1] /\ from[1 + 1] = from[1] + Len(q[1].data)
  BY DEF Placed
<1>3. q[1].data \in Seq(Byte)
  <2>1. q[1] \in LinkPacket
    OBVIOUS
  <2> QED
    BY <2>1 DEF LinkPacket
<1>4. in_flight # <<>> /\ in_flight[1] \in Seq(Byte)
  BY <1>1, <1>2 DEF LinkType
<1>5. \A j \in 1..Len(assembled) : assembled[j] = in_flight[1][j]
  BY DEF Collected
<1>6. /\ Len(assembled \o q[1].data) = Len(assembled) + Len(q[1].data)
      /\ \A j \in 1..Len(assembled \o q[1].data) : (assembled \o q[1].data)[j] = in_flight[1][j]
  <2>1. /\ Len(assembled) + Len(q[1].data) <= Len(in_flight[1])
        /\ \A j \in 1..Len(q[1].data) : q[1].data[j] = in_flight[1][Len(assembled) + j]
    BY <1>1, <1>2
  <2> DEFINE t == q[1].data
             m == in_flight[1]
  <2> HIDE DEF t, m
  <2>2. /\ Len(assembled \o t) = Len(assembled) + Len(t)
        /\ \A j \in 1..Len(assembled \o t) : (assembled \o t)[j] = m[j]
    <3>1. /\ t \in Seq(Byte) /\ m \in Seq(Byte) /\ Len(assembled) + Len(t) <= Len(m)
          /\ \A j \in 1..Len(assembled) : assembled[j] = m[j]
          /\ \A j \in 1..Len(t) : t[j] = m[Len(assembled) + j]
      BY <1>3, <1>4, <1>5, <2>1 DEF t, m
    <3> QED
      BY <3>1, BeginningGrows
  <2> QED
    BY <2>2 DEF t, m
<1> QED
  BY <1>1, <1>2, <1>3, <1>4, <1>6

\* The rest of the packets carry the rest of the messages.
LEMMA PlacedTail ==
  ASSUME LinkType, assembled \in Seq(Byte),
         NEW q \in Seq(LinkPacket), 1 \in 1..Len(q),
         NEW of \in [1..Len(q) + 1 -> Nat], NEW from \in [1..Len(q) + 1 -> Nat],
         Placed(q, of, from), Collected(of, from),
         Continued(of[Len(q) + 1], from[Len(q) + 1]),
         NEW done \in 0..1, done = 1 <=> Rx!EndsMessage(q[1]),
         done = 1 => in_flight' = SubSeq(in_flight, 2, Len(in_flight)) /\ assembled' = <<>>,
         done = 0 => in_flight' = in_flight /\ assembled' = assembled \o q[1].data,
         line' \in Seq(Byte),
         UNCHANGED <<txVars, buffer>>,
         NEW of2, of2 = [k \in 1..Len(q) |-> of[k + 1] - done],
         NEW from2, from2 = [k \in 1..Len(q) |-> from[k + 1]]
  PROVE  /\ of2 \in [1..Len(Tail(q)) + 1 -> Nat] /\ from2 \in [1..Len(Tail(q)) + 1 -> Nat]
         /\ Placed(Tail(q), of2, from2)' /\ Collected(of2, from2)'
         /\ Continued(of2[Len(Tail(q)) + 1], from2[Len(Tail(q)) + 1])'
         /\ LinkType'
<1> DEFINE t == Tail(q)
<1>1. /\ Len(t) = Len(q) - 1 /\ Len(q) \in Nat
      /\ \A k \in 1..Len(q) - 1 : t[k] = q[k + 1]
  OBVIOUS
<1> HIDE DEF t
<1>2. /\ in_flight # <<>> /\ in_flight[1] \in Seq(Byte)
      /\ of[1] = 1 /\ from[1] = Len(assembled)
      /\ Len(assembled \o q[1].data) = Len(assembled) + Len(q[1].data)
      /\ Len(assembled) + Len(q[1].data) <= Len(in_flight[1])
      /\ \A j \in 1..Len(assembled \o q[1].data) : (assembled \o q[1].data)[j] = in_flight[1][j]
      /\ done = 1 => of[2] = 2 /\ from[2] = 0
      /\ done = 0 => of[2] = 1 /\ from[2] = Len(assembled) + Len(q[1].data)
      /\ done \in 0..1
  <2>1. /\ in_flight # <<>> /\ in_flight[1] \in Seq(Byte)
        /\ of[1] = 1 /\ from[1] = Len(assembled)
        /\ Len(assembled \o q[1].data) = Len(assembled) + Len(q[1].data)
        /\ Len(assembled) + Len(q[1].data) <= Len(in_flight[1])
        /\ \A j \in 1..Len(assembled \o q[1].data) :
             (assembled \o q[1].data)[j] = in_flight[1][j]
        /\ Rx!EndsMessage(q[1]) => of[2] = 2 /\ from[2] = 0
        /\ ~Rx!EndsMessage(q[1]) => of[2] = 1 /\ from[2] = Len(assembled) + Len(q[1].data)
    BY FirstPlaced
  <2>2. done = 0 => ~Rx!EndsMessage(q[1])
    OBVIOUS
  <2> QED
    BY <2>1, <2>2
<1>3. in_flight \in Seq(Seq(Byte)) /\ Len(in_flight) \in Nat
  BY DEF LinkType
<1>4. /\ in_flight' \in Seq(Seq(Byte)) /\ Len(in_flight') = Len(in_flight) - done
      /\ \A k \in 1..Len(in_flight)-done : in_flight'[k] = in_flight[k + done]
  <2>0. in_flight \in Seq(Seq(Byte)) /\ in_flight # <<>> /\ Len(in_flight) \in Nat
    BY <1>2, <1>3
  <2>1. CASE done = 1
    <3>1. in_flight' = SubSeq(in_flight, 2, Len(in_flight))
      BY <2>1
    <3>2. /\ in_flight' \in Seq(Seq(Byte)) /\ Len(in_flight') = Len(in_flight) - 1
          /\ \A k \in 1..Len(in_flight)-1 : in_flight'[k] = in_flight[k + 1]
      BY <2>0, <3>1, WithoutFirst
    <3> QED
      BY <2>1, <3>2
  <2>2. CASE done = 0
    <3>1. in_flight' = in_flight /\ Len(in_flight) - 0 = Len(in_flight)
          /\ \A k \in 1..Len(in_flight) : k + 0 = k
      BY <2>0, <2>2
    <3> QED
      BY <2>0, <2>2, <3>1
  <2> QED
    BY <1>2, <2>1, <2>2
<1>5. \A j, k \in 1..Len(q) + 1 : j <= k => of[j] <= of[k]
  BY DEF Placed
<1>6. \A k \in 1..Len(q) : /\ of[k + 1] \in Nat /\ of[k + 1] > done /\ from[k + 1] \in Nat
                          /\ of2[k] = of[k + 1] - done /\ from2[k] = from[k + 1]
  <2> SUFFICES ASSUME NEW k \in 1..Len(q)
               PROVE  of[k + 1] \in Nat /\ of[k + 1] > done /\ from[k + 1] \in Nat
    OBVIOUS
  <2>1. k + 1 \in 1..Len(q) + 1 /\ 2 \in 1..Len(q) + 1 /\ 2 <= k + 1
    BY <1>1
  <2>2. of[2] <= of[k + 1] /\ of[k + 1] \in Nat /\ from[k + 1] \in Nat
    BY <1>5, <2>1
  <2>3. of[2] = done + 1
    BY <1>2
  <2> QED
    BY <1>2, <2>2, <2>3
<1>7. of2 \in [1..Len(t) + 1 -> Nat] /\ from2 \in [1..Len(t) + 1 -> Nat]
  <2>1. ASSUME NEW k \in 1..Len(q) PROVE of[k + 1] - done \in Nat
    <3>1. of[k + 1] \in Nat /\ of[k + 1] > done /\ done \in Nat
      BY <1>6
    <3> QED
      BY <3>1
  <2>2. Len(t) + 1 = Len(q)
    BY <1>1
  <2> QED
    BY <1>6, <2>1, <2>2
<1>8. ASSUME NEW k \in 1..Len(q), of[k + 1] <= Len(in_flight)
      PROVE  of2[k] \in 1..Len(in_flight') /\ in_flight'[of2[k]] = in_flight[of[k + 1]]
  <2>1. of2[k] \in 1..Len(in_flight)-done /\ of2[k] + done = of[k + 1]
    <3> DEFINE a == of[k + 1]
               b == of2[k]
               n == Len(in_flight)
    <3>1. a \in Nat /\ a > done /\ b = a - done /\ done \in 0..1 /\ n \in Nat /\ a <= n
      BY <1>2, <1>3, <1>6, <1>8
    <3> HIDE DEF a, b, n
    <3>2. b \in 1..n-done /\ b + done = a
      BY <3>1
    <3> QED
      BY <3>2 DEF a, b, n
  <2> QED
    BY <1>4, <2>1
<1>9. Placed(t, of2, from2)'
  <2>1. ASSUME NEW j \in 1..Len(t) + 1, NEW k \in 1..Len(t) + 1, j <= k
        PROVE  of2[j] <= of2[k]
    <3>1. /\ j \in 1..Len(q) /\ k \in 1..Len(q)
          /\ j + 1 \in 1..Len(q) + 1 /\ k + 1 \in 1..Len(q) + 1 /\ j + 1 <= k + 1
      BY <1>1, <2>1
    <3>2. of[j + 1] <= of[k + 1]
      BY <1>5, <3>1
    <3> DEFINE a == of[j + 1]
               b == of[k + 1]
    <3>3. a \in Nat /\ b \in Nat /\ a <= b /\ of2[j] = a - done /\ of2[k] = b - done /\ done \in Nat
      BY <1>2, <1>6, <3>1, <3>2
    <3> HIDE DEF a, b
    <3> QED
      BY <3>3
  <2>2. ASSUME NEW k \in 1..Len(t)
        PROVE  /\ of2[k] \in 1..Len(in_flight')
               /\ from2[k] + Len(t[k].data) <= Len(in_flight'[of2[k]])
               /\ \A j \in 1..Len(t[k].data) : t[k].data[j] = in_flight'[of2[k]][from2[k] + j]
               /\ Rx!EndsMessage(t[k]) =>
                    /\ from2[k] + Len(t[k].data) = Len(in_flight'[of2[k]])
                    /\ of2[k + 1] = of2[k] + 1 /\ from2[k + 1] = 0
               /\ ~Rx!EndsMessage(t[k]) =>
                    of2[k + 1] = of2[k] /\ from2[k + 1] = from2[k] + Len(t[k].data)
    <3> DEFINE e == k + 1
    <3>1. k \in 1..Len(q) /\ e \in 1..Len(q) /\ t[k] = q[e] /\ e = k + 1
      BY <1>1
    <3>2. /\ of[e] \in 1..Len(in_flight)
          /\ from[e] + Len(q[e].data) <= Len(in_flight[of[e]])
          /\ \A j \in 1..Len(q[e].data) : q[e].data[j] = in_flight[of[e]][from[e] + j]
          /\ Rx!EndsMessage(q[e]) =>
               /\ from[e] + Len(q[e].data) = Len(in_flight[of[e]])
               /\ of[e + 1] = of[e] + 1 /\ from[e + 1] = 0
          /\ ~Rx!EndsMessage(q[e]) =>
               of[e + 1] = of[e] /\ from[e + 1] = from[e] + Len(q[e].data)
      BY <3>1 DEF Placed
    <3>3. /\ of2[k] = of[e] - done /\ from2[k] = from[e]
          /\ of2[e] = of[e + 1] - done /\ from2[e] = from[e + 1]
          /\ of[e] \in Nat /\ of[e + 1] \in Nat
      BY <1>6, <3>1
    <3>4. of2[k] \in 1..Len(in_flight') /\ in_flight'[of2[k]] = in_flight[of[e]]
      <4>1. of[e] <= Len(in_flight)
        BY <3>2
      <4> QED
        BY <1>8, <3>1, <4>1
    <3>5. /\ of[e + 1] = of[e] + 1 => of2[e] = of2[k] + 1
          /\ of[e + 1] = of[e] => of2[e] = of2[k]
      <4> DEFINE a == of[e]
                 b == of[e + 1]
                 x == of2[k]
                 y == of2[e]
      <4>1. x = a - done /\ y = b - done /\ a \in Nat /\ b \in Nat /\ done \in Nat
        BY <1>2, <3>3
      <4> HIDE DEF a, b, x, y
      <4>2. (b = a + 1 => y = x + 1) /\ (b = a => y = x)
        BY <4>1
      <4> QED
        BY <4>2 DEF a, b, x, y
    <3> HIDE DEF e
    <3>6. /\ from2[k] + Len(q[e].data) <= Len(in_flight'[of2[k]])
          /\ \A j \in 1..Len(q[e].data) : q[e].data[j] = in_flight'[of2[k]][from2[k] + j]
          /\ Rx!EndsMessage(q[e]) =>
               /\ from2[k] + Len(q[e].data) = Len(in_flight'[of2[k]])
               /\ of2[e] = of2[k] + 1 /\ from2[e] = 0
          /\ ~Rx!EndsMessage(q[e]) =>
               of2[e] = of2[k] /\ from2[e] = from2[k] + Len(q[e].data)
      BY <3>2, <3>3, <3>4, <3>5
    <3>7. t[k] = q[e] /\ k + 1 = e
      BY <3>1
    <3> QED
      BY <3>4, <3>6, <3>7, Zenon
  <2> QED
    BY <2>1, <2>2 DEF Placed, Rx!EndsMessage
<1>10. Collected(of2, from2)'
  <2>1. 1 \in 1..Len(q) /\ 1 + 1 = 2
    OBVIOUS
  <2>2. of2[1] = of[2] - done /\ from2[1] = from[2]
    BY <1>6, <2>1
  <2>3. CASE done = 1
    BY <1>2, <2>2, <2>3 DEF Collected
  <2>4. CASE done = 0
    <3>1. /\ in_flight' = in_flight /\ assembled' = assembled \o q[1].data
          /\ of2[1] = 1 - 0 /\ from2[1] = Len(assembled')
      BY <1>2, <2>2, <2>4
    <3>2. /\ in_flight' # <<>> /\ Len(assembled') <= Len(in_flight'[1])
          /\ \A j \in 1..Len(assembled') : assembled'[j] = in_flight'[1][j]
      BY <1>2, <3>1
    <3>3. of2[1] = 1
      BY <3>1
    <3> QED
      BY <3>1, <3>2, <3>3, Zenon DEF Collected
  <2> QED
    BY <1>2, <2>3, <2>4
<1>11. Continued(of2[Len(t) + 1], from2[Len(t) + 1])'
  <2>1. Len(t) + 1 = Len(q) /\ Len(q) \in 1..Len(q)
    BY <1>1
  <2>2. of2[Len(q)] = of[Len(q) + 1] - done /\ from2[Len(q)] = from[Len(q) + 1]
        /\ of[Len(q) + 1] \in Nat /\ of[Len(q) + 1] > done
    BY <1>6, <2>1
  <2> DEFINE m == of[Len(q) + 1]
             m2 == of2[Len(q)]
  <2>3. Tx!InLoop' <=> Tx!InLoop
    BY DEF Tx!InLoop, Tx!total_chunks, Tx!Chunks, Tx!data_chunk_size, txVars
  <2>4. buffer' = buffer /\ buffer_offset' = buffer_offset /\ Transmitted(buffer)' = Transmitted(buffer)
    BY DEF txVars, Transmitted
  <2>5. ASSUME Tx!InLoop
        PROVE  in_flight' # <<>> /\ m2 = Len(in_flight') /\ in_flight'[m2] = Transmitted(buffer)
    <3>1. m = Len(in_flight) /\ in_flight[m] = Transmitted(buffer)
      BY <2>5 DEF Continued
    <3>2. m2 \in 1..Len(in_flight') /\ in_flight'[m2] = in_flight[m]
      <4>1. m <= Len(in_flight)
        BY <1>3, <3>1
      <4> QED
        BY <1>8, <2>1, <4>1
    <3>3. m2 = Len(in_flight')
      <4>1. m2 = m - done /\ Len(in_flight') = Len(in_flight) - done
        BY <1>4, <2>2
      <4> QED
        BY <3>1, <4>1
    <3>4. in_flight' # <<>>
      BY <3>2
    <3> QED
      BY <3>1, <3>2, <3>3, <3>4
  <2>6. ASSUME ~Tx!InLoop PROVE m2 = Len(in_flight') + 1 /\ from2[Len(q)] = 0
    <3>1. m = Len(in_flight) + 1 /\ from[Len(q) + 1] = 0
      BY <2>6 DEF Continued
    <3>2. m2 = m - done /\ Len(in_flight') = Len(in_flight) - done /\ from2[Len(q)] = 0
      BY <1>4, <2>2, <3>1
    <3>3. done \in 0..1 /\ Len(in_flight) \in Nat
      BY <1>2, <1>3
    <3> HIDE DEF m, m2
    <3> QED
      BY <3>1, <3>2, <3>3
  <2>7. Tx!InLoop => from2[Len(q)] = buffer_offset
    BY <2>2 DEF Continued
  <2> HIDE DEF m, m2
  <2> QED
    BY <2>1, <2>3, <2>4, <2>5, <2>6, <2>7 DEF Continued, m2
<1>12. LinkType'
  <2>1. \A k \in 1..Len(in_flight') : Len(in_flight'[k]) <= PACKET_BUFFER_SIZE
    <3> SUFFICES ASSUME NEW k \in 1..Len(in_flight')
                 PROVE  Len(in_flight'[k]) <= PACKET_BUFFER_SIZE
      OBVIOUS
    <3>1. done \in 0..1 /\ Len(in_flight) \in Nat /\ k \in 1..Len(in_flight)-done
      BY <1>2, <1>3, <1>4
    <3>2. k + done \in 1..Len(in_flight) /\ in_flight'[k] = in_flight[k + done]
      BY <1>4, <3>1
    <3> QED
      BY <3>2 DEF LinkType
  <2> QED
    BY <1>4, <2>1 DEF LinkType
<1> QED
  BY <1>7, <1>9, <1>10, <1>11, <1>12 DEF t

\* A piece that completes the first packet's frame takes the frame off the stream, and the
\* message it completes, if any, off the messages in flight.
LEMMA ParseInv ==
  ASSUME IInv,
         NEW q \in Seq(LinkPacket), NEW at \in [1..Len(q) + 1 -> Nat],
         NEW of \in [1..Len(q) + 1 -> Nat], NEW from \in [1..Len(q) + 1 -> Nat],
         LinkedBy(q, at, of, from),
         NEW len \in 1..Len(line), \A j \in 1..len-1 : line[j] # 0, line[len] = 0,
         NEW piece, piece = SubSeq(line, 1, len),
         Rx!GoodFrame(piece, Received(q[1])), line' = SubSeq(line, Len(piece) + 1, Len(line)),
         in_flight' = (IF Rx!EndsMessage(q[1])
                         THEN SubSeq(in_flight, 2, Len(in_flight)) ELSE in_flight),
         UNCHANGED <<txVars, buffer>>
  PROVE  ReceiveInv
<1>1. /\ line \in Seq(Byte) /\ arrived \in Seq(Byte) /\ assembled \in Seq(Byte)
      /\ Len(piece) = len
  BY DEF IInv, LinkType, RxProof!Inv, RxProof!Bounded, RxProof!TypeOK
<1>2. /\ Framed(FramesOf(q), at) /\ Placed(q, of, from) /\ Collected(of, from)
      /\ Continued(of[Len(q) + 1], from[Len(q) + 1])
      /\ FramesOf(q) \in Seq(LineFrame) /\ Len(FramesOf(q)) = Len(q)
  BY FramesOfFacts DEF LinkedBy
<1>3. 1 \in 1..Len(q) /\ Len(arrived) + len = at[2]
  <2>1. RxRoom
    BY LinkRoom DEF IInv
  <2> QED
    BY <1>2, <2>1, FirstFrame
<1>4. /\ arrived' = <<>> /\ leaked' = 0 /\ retval' = TRUE
      /\ Rx!EndsMessage(q[1]) => assembled' = <<>>
      /\ ~Rx!EndsMessage(q[1]) => assembled' = assembled \o q[1].data
  <2>1. Received(q[1]).data = q[1].data /\ Received(q[1]).flag = q[1].flag
    BY DEF Received
  <2> QED
    BY <2>1
       DEF Rx!GoodFrame, Rx!packet_parser, Rx!KeepPacket, Rx!HandOver, Rx!ClearPacketBuffer,
           Rx!EndsMessage, Rx!RxSuccess, Rx!StartNextFrame
<1>5. line' = SubSeq(line, len + 1, Len(line))
  BY <1>1
<1> DEFINE at2 == [k \in 1..Len(q) |-> at[k + 1] - at[2]]
<1>6. /\ Tail(q) \in Seq(LinkPacket)
      /\ at2 \in [1..Len(Tail(q)) + 1 -> Nat]
      /\ line' \in Seq(Byte)
      /\ Framed(FramesOf(Tail(q)), at2)'
  <2>1. Tail(q) \in Seq(LinkPacket) /\ Len(Tail(q)) + 1 = Len(q) /\ q # <<>>
    BY <1>3
  <2>2. PICK w : w = FramesOf(q)
    OBVIOUS
  <2>3. /\ at2 \in [1..Len(Tail(w)) + 1 -> Nat] /\ Len(Tail(w)) + 1 = Len(w)
        /\ line' \in Seq(Byte) /\ Framed(Tail(w), at2)'
    <3>1. /\ w \in Seq(LineFrame) /\ Len(w) = Len(q) /\ Framed(w, at)
          /\ at2 = [k \in 1..Len(w) |-> at[k + 1] - at[2]]
      BY <1>2, <2>2
    <3> HIDE DEF at2
    <3> QED
      BY ZenonT(30), <1>1, <1>3, <1>4, <1>5, <3>1, FramedTail
  <2>4. Len(w) = Len(q) /\ Tail(w) = FramesOf(Tail(q))
    BY <1>2, <2>1, <2>2, FramesOfChanges
  <2> HIDE DEF at2
  <2>5. PICK r : r = Tail(w)
    OBVIOUS
  <2>6. Framed(r, at2)' /\ r = FramesOf(Tail(q)) /\ FramesOf(Tail(q))' = FramesOf(Tail(q))
    BY <2>3, <2>4, <2>5 DEF FramesOf
  <2> QED
    BY <2>1, <2>3, <2>4, <2>6
<1>7. PICK done \in 0..1 : done = 1 <=> Rx!EndsMessage(q[1])
  <2>1. CASE Rx!EndsMessage(q[1])
    BY <2>1
  <2>2. CASE ~Rx!EndsMessage(q[1])
    BY <2>2
  <2> QED
    BY <2>1, <2>2
<1> DEFINE of2 == [k \in 1..Len(q) |-> of[k + 1] - done]
           from2 == [k \in 1..Len(q) |-> from[k + 1]]
<1>8. /\ of2 \in [1..Len(Tail(q)) + 1 -> Nat] /\ from2 \in [1..Len(Tail(q)) + 1 -> Nat]
      /\ Placed(Tail(q), of2, from2)' /\ Collected(of2, from2)'
      /\ Continued(of2[Len(Tail(q)) + 1], from2[Len(Tail(q)) + 1])'
      /\ LinkType'
  <2>1. done = 1 => in_flight' = SubSeq(in_flight, 2, Len(in_flight)) /\ assembled' = <<>>
    BY <1>4, <1>7
  <2>2. done = 0 => in_flight' = in_flight /\ assembled' = assembled \o q[1].data
    BY <1>4, <1>7
  <2>3. LinkType
    BY DEF IInv
  <2> QED
    BY <1>1, <1>2, <1>3, <1>6, <1>7, <2>1, <2>2, <2>3, PlacedTail
<1>9. Sending'
  BY DEF IInv, Sending, txVars
<1>10. Undisturbed'
  BY <1>4 DEF Undisturbed
<1>11. Linked'
  <2>1. LinkedBy(Tail(q), at2, of2, from2)'
    BY <1>6, <1>8 DEF LinkedBy
  <2> HIDE DEF at2, of2, from2
  <2> QED
    BY <1>6, <1>8, <2>1 DEF Linked
<1> QED
  BY <1>8, <1>9, <1>10, <1>11 DEF ReceiveInv

\* Passing a piece of the line to process() keeps the invariant.
LEMMA ReceiveStep ==
  ASSUME IInv, NEW n \in PieceSize, Receive(n)
  PROVE  RxProof!Inv' /\ ReceiveInv
<1>1. PICK q \in Seq(LinkPacket) :
        \E at \in [1..Len(q) + 1 -> Nat], of \in [1..Len(q) + 1 -> Nat],
           from \in [1..Len(q) + 1 -> Nat] : LinkedBy(q, at, of, from)
  BY DEF IInv, Linked
<1>2. PICK at \in [1..Len(q) + 1 -> Nat], of \in [1..Len(q) + 1 -> Nat],
           from \in [1..Len(q) + 1 -> Nat] : LinkedBy(q, at, of, from)
  BY <1>1
<1>3. PICK len \in 1..Len(line) :
        Piece(n) = SubSeq(line, 1, len) /\ \A j \in 1..len-1 : line[j] # 0
  <2>1. line \in Seq(Byte) /\ line # <<>>
    BY DEF IInv, LinkType, Receive
  <2> QED
    BY <2>1, PieceFacts
<1> DEFINE piece == Piece(n)
<1>4. /\ Rx!process(piece)
      /\ line' = SubSeq(line, Len(piece) + 1, Len(line))
      /\ in_flight' = IF Delivers(piece) THEN SubSeq(in_flight, 2, Len(in_flight)) ELSE in_flight
      /\ UNCHANGED <<txVars, buffer>>
  BY DEF Receive
<1>5. LinkType /\ RxProof!Inv /\ Undisturbed
  BY DEF IInv
<1>6. piece = SubSeq(line, 1, len)
  BY <1>3
<1> HIDE DEF piece
<1>7. /\ line[len] # 0 => ~Delivers(piece) /\ Rx!StoreChunk(piece)
      /\ line[len] = 0 =>
           /\ Delivers(piece) <=> Rx!EndsMessage(q[1])
           /\ Rx!GoodFrame(piece, Received(q[1]))
      /\ RxProof!Inv'
  BY <1>2, <1>3, <1>4, <1>5, <1>6, ProcessStep
<1>8. CASE line[len] # 0
  BY <1>2, <1>3, <1>4, <1>6, <1>7, <1>8, StoreInv
<1>9. CASE line[len] = 0
  BY <1>2, <1>3, <1>4, <1>6, <1>7, <1>9, ParseInv
<1> QED
  BY <1>7, <1>8, <1>9

\* send() announces what it will transmit, and nothing is transmitted yet.
LEMMA SendLinked ==
  ASSUME IInv, NEW m \in Message, Send(m)
  PROVE  LinkType' /\ Sending' /\ Linked'
<1>1. PICK q \in Seq(LinkPacket) :
        \E at \in [1..Len(q) + 1 -> Nat], of \in [1..Len(q) + 1 -> Nat],
           from \in [1..Len(q) + 1 -> Nat] : LinkedBy(q, at, of, from)
  BY DEF IInv, Linked
<1>2. PICK at \in [1..Len(q) + 1 -> Nat], of \in [1..Len(q) + 1 -> Nat],
           from \in [1..Len(q) + 1 -> Nat] : LinkedBy(q, at, of, from)
  BY <1>1
<1>3. /\ pc # "loop" /\ pc' = "loop" /\ size' = Len(m) /\ i' = 0 /\ buffer_offset' = 0
      /\ buffer' = m /\ in_flight' = Append(in_flight, Transmitted(m)) /\ line' = line
      /\ arrived' = arrived /\ assembled' = assembled
  BY DEF Send, Tx!send, rxVars
<1>4. /\ in_flight \in Seq(Seq(Byte)) /\ Transmitted(m) \in Seq(Byte)
      /\ Len(Transmitted(m)) <= PACKET_BUFFER_SIZE
      /\ \A k \in 1..Len(in_flight) : Len(in_flight[k]) <= PACKET_BUFFER_SIZE
  <2>1. /\ Transmitted(m) \in Seq(Byte) /\ Len(Transmitted(m)) \in 0..Len(m)
        /\ Len(m) \in 1..PACKET_BUFFER_SIZE
    BY TransmittedFacts
  <2>2. Len(Transmitted(m)) <= PACKET_BUFFER_SIZE
    BY <2>1, ReceiverAssumption
  <2> QED
    BY <2>1, <2>2 DEF IInv, LinkType
<1>5. /\ in_flight' \in Seq(Seq(Byte)) /\ Len(in_flight') = Len(in_flight) + 1
      /\ \A k \in 1..Len(in_flight) : in_flight'[k] = in_flight[k]
      /\ in_flight'[Len(in_flight) + 1] = Transmitted(m)
      /\ Len(in_flight) \in Nat
  BY <1>3, <1>4
<1>6. LinkType'
  <2>1. ASSUME NEW k \in 1..Len(in_flight') PROVE Len(in_flight'[k]) <= PACKET_BUFFER_SIZE
    <3>1. CASE k \in 1..Len(in_flight)
      BY <1>4, <1>5, <3>1
    <3>2. CASE k = Len(in_flight) + 1
      BY <1>4, <1>5, <3>2
    <3> QED
      BY <1>5, <3>1, <3>2
  <2> QED
    BY <1>3, <1>5, <2>1 DEF IInv, LinkType
<1>7. Sending'
  BY <1>3 DEF Sending
<1>8. ~Tx!InLoop /\ Tx!InLoop'
  <2>1. Tx!Chunks(Len(m)) \in Nat \ {0}
    BY SomeChunk
  <2>2. Tx!total_chunks' = Tx!Chunks(Len(m))
    BY <1>3 DEF Tx!total_chunks, Tx!Chunks, Tx!data_chunk_size
  <2>3. 0 < Tx!Chunks(Len(m))
    BY <2>1
  <2> QED
    BY <1>3, <2>2, <2>3 DEF Tx!InLoop
<1>9. LinkedBy(q, at, of, from)'
  <2>1. Framed(FramesOf(q), at)'
    BY <1>2, <1>3 DEF LinkedBy, Framed, Stream, FramesOf
  <2>2. Placed(q, of, from)'
    <3>1. \A k \in 1..Len(q) : of[k] \in 1..Len(in_flight)
      BY <1>2 DEF LinkedBy, Placed
    <3>2. \A k \in 1..Len(q) : of[k] \in 1..Len(in_flight') /\ in_flight'[of[k]] = in_flight[of[k]]
      BY <1>5, <3>1
    <3>3. Placed(q, of, from)
      BY <1>2 DEF LinkedBy
    <3>4. ASSUME NEW k \in 1..Len(q)
          PROVE  /\ of[k] \in 1..Len(in_flight')
                 /\ from[k] + Len(q[k].data) <= Len(in_flight'[of[k]])
                 /\ \A j \in 1..Len(q[k].data) : q[k].data[j] = in_flight'[of[k]][from[k] + j]
                 /\ Rx!EndsMessage(q[k]) =>
                      /\ from[k] + Len(q[k].data) = Len(in_flight'[of[k]])
                      /\ of[k + 1] = of[k] + 1 /\ from[k + 1] = 0
                 /\ ~Rx!EndsMessage(q[k]) =>
                      of[k + 1] = of[k] /\ from[k + 1] = from[k] + Len(q[k].data)
      <4>1. of[k] \in 1..Len(in_flight') /\ in_flight'[of[k]] = in_flight[of[k]]
        BY <3>2
      <4>2. /\ from[k] + Len(q[k].data) <= Len(in_flight[of[k]])
            /\ \A j \in 1..Len(q[k].data) : q[k].data[j] = in_flight[of[k]][from[k] + j]
            /\ Rx!EndsMessage(q[k]) =>
                 /\ from[k] + Len(q[k].data) = Len(in_flight[of[k]])
                 /\ of[k + 1] = of[k] + 1 /\ from[k + 1] = 0
            /\ ~Rx!EndsMessage(q[k]) =>
                 of[k + 1] = of[k] /\ from[k + 1] = from[k] + Len(q[k].data)
        BY <3>3, Zenon DEF Placed
      <4> QED
        BY <4>1, <4>2, Zenon
    <3> QED
      BY <3>3, <3>4, Zenon DEF Placed, Rx!EndsMessage
  <2>3. Collected(of, from)'
    <3>1. Collected(of, from)
      BY <1>2 DEF LinkedBy
    <3>2. ASSUME assembled # <<>>
          PROVE  in_flight' # <<>> /\ in_flight'[1] = in_flight[1]
      <4>1. 1 \in 1..Len(in_flight)
        BY <1>5, <3>1, <3>2 DEF Collected
      <4> QED
        BY <1>5, <4>1
    <3> QED
      BY <1>3, <3>1, <3>2 DEF Collected
  <2>4. Continued(of[Len(q) + 1], from[Len(q) + 1])'
    <3>1. of[Len(q) + 1] = Len(in_flight) + 1 /\ from[Len(q) + 1] = 0
      BY <1>2, <1>8 DEF LinkedBy, Continued
    <3>2. Transmitted(buffer)' = Transmitted(m)
      BY <1>3 DEF Transmitted
    <3>3. in_flight' # <<>>
      BY <1>5
    <3> QED
      BY <1>3, <1>5, <1>8, <3>1, <3>2, <3>3 DEF Continued
  <2> QED
    BY <2>1, <2>2, <2>3, <2>4 DEF LinkedBy
<1> QED
  BY <1>6, <1>7, <1>9 DEF Linked

\* The stream with what is written behind the line.
LEMMA WrittenBehind ==
  \A a, l, d \in Seq(Byte) : a \o (l \o d) = (a \o l) \o d
BY ConcatAssociative

\* What a frame with its delimiter adds to a stream.
LEMMA FrameAdded ==
  ASSUME NEW s \in Seq(Byte), NEW e \in Seq(Byte)
  PROVE  /\ s \o (e \o <<0>>) \in Seq(Byte)
         /\ Len(s \o (e \o <<0>>)) = Len(s) + Len(e) + 1
         /\ \A j \in 1..Len(s) : (s \o (e \o <<0>>))[j] = s[j]
         /\ \A j \in 1..Len(e) : (s \o (e \o <<0>>))[Len(s) + j] = e[j]
         /\ (s \o (e \o <<0>>))[Len(s) + Len(e) + 1] = 0
<1> DEFINE t == e \o <<0>>
<1>1. Len(s) \in Nat /\ Len(e) \in Nat /\ <<0>> \in Seq(Byte) /\ Len(<<0>>) = 1
  BY ReceiverAssumption
<1>2. /\ t \in Seq(Byte) /\ Len(t) = Len(e) + 1
      /\ \A j \in 1..Len(e) : t[j] = e[j]
      /\ t[Len(e) + 1] = 0
  BY <1>1
<1> HIDE DEF t
<1>3. /\ s \o t \in Seq(Byte) /\ Len(s \o t) = Len(s) + Len(t)
      /\ \A j \in 1..Len(s) : (s \o t)[j] = s[j]
  BY <1>1, <1>2
<1>4. \A j \in 1..Len(t) : (s \o t)[Len(s) + j] = t[j]
  <2> SUFFICES ASSUME NEW j \in 1..Len(t) PROVE (s \o t)[Len(s) + j] = t[j]
    OBVIOUS
  <2>1. Len(s) + j \in 1..Len(s)+Len(t) /\ ~(Len(s) + j <= Len(s)) /\ (Len(s) + j) - Len(s) = j
    BY <1>1, <1>2
  <2> QED
    BY <1>2, <2>1
<1>5. \A j \in 1..Len(e) : (s \o t)[Len(s) + j] = e[j]
  BY <1>1, <1>2, <1>4
<1>6. (s \o t)[Len(s) + Len(e) + 1] = 0
  <2>1. Len(e) + 1 \in 1..Len(t) /\ Len(s) + (Len(e) + 1) = Len(s) + Len(e) + 1
    BY <1>1, <1>2
  <2> QED
    BY <1>2, <1>4, <2>1
<1>7. Len(s \o t) = Len(s) + Len(e) + 1
  BY <1>1, <1>2, <1>3
<1> QED
  BY <1>3, <1>5, <1>6, <1>7 DEF t

\* The frame that the sender puts on the line follows the others.
LEMMA FramedMore ==
  ASSUME line \in Seq(Byte), arrived \in Seq(Byte),
         NEW frames \in Seq(LineFrame), NEW at \in [1..Len(frames) + 1 -> Nat], Framed(frames, at),
         NEW e \in LineFrame,
         arrived' = arrived, line' = line \o (e \o << 0 >>)
  PROVE  line' \in Seq(Byte)
         /\ \E more \in [1..Len(frames) + 2 -> Nat] : Framed(Append(frames, e), more)'
<1> DEFINE t == Append(frames, e)
           z == at[Len(frames) + 1]
<1>1. /\ Len(frames) \in Nat /\ t \in Seq(LineFrame) /\ Len(t) = Len(frames) + 1
      /\ \A k \in 1..Len(frames) : t[k] = frames[k]
      /\ t[Len(frames) + 1] = e
  OBVIOUS
<1>2. /\ at[1] = 0 /\ z = Len(Stream)
      /\ \A j, k \in 1..Len(frames) + 1 : j <= k => at[j] <= at[k]
      /\ \A k \in 1..Len(frames) :
           /\ at[k + 1] = at[k] + Len(frames[k]) + 1
           /\ \A j \in 1..Len(frames[k]) : Stream[at[k] + j] = frames[k][j]
           /\ Stream[at[k + 1]] = 0
  BY DEF Framed
<1>3. e \in Seq(Byte) /\ Len(e) \in Nat
  <2>1. e \in Seq(Byte \ {0})
    BY DEF LineFrame
  <2> QED
    BY <2>1
<1> HIDE DEF t, z
<1>4. Stream \in Seq(Byte) /\ Len(Stream) \in Nat
  BY DEF Stream
<1>5. line' \in Seq(Byte) /\ Stream' = Stream \o (e \o <<0>>)
  <2>1. e \o <<0>> \in Seq(Byte)
    BY <1>3, ReceiverAssumption
  <2>2. line \o (e \o <<0>>) \in Seq(Byte)
    BY <2>1
  <2>3. arrived \o (line \o (e \o <<0>>)) = (arrived \o line) \o (e \o <<0>>)
    BY <2>1, WrittenBehind, Zenon
  <2> QED
    BY <2>2, <2>3 DEF Stream
<1>6. /\ Len(Stream') = Len(Stream) + Len(e) + 1
      /\ \A j \in 1..Len(Stream) : Stream'[j] = Stream[j]
      /\ \A j \in 1..Len(e) : Stream'[Len(Stream) + j] = e[j]
      /\ Stream'[Len(Stream) + Len(e) + 1] = 0
  BY <1>3, <1>4, <1>5, FrameAdded
<1>7. PICK more \in [1..Len(frames) + 2 -> Nat] :
        /\ \A k \in 1..Len(frames) + 1 : more[k] = at[k]
        /\ more[Len(frames) + 2] = Len(Stream) + Len(e) + 1
  <2> DEFINE v == Len(Stream) + Len(e) + 1
             w == [k \in 1..Len(frames) + 2 |-> IF k <= Len(frames) + 1 THEN at[k] ELSE v]
  <2>1. v \in Nat
    BY <1>3, <1>4
  <2> HIDE DEF v
  <2>2. w \in [1..Len(frames) + 2 -> Nat] /\ \A k \in 1..Len(frames) + 1 : w[k] = at[k]
    BY <1>1, <2>1
  <2>3. w[Len(frames) + 2] = v
    BY <1>1
  <2> QED
    BY <2>2, <2>3 DEF v
<1>8. \A k \in 1..Len(frames) + 1 : at[k] \in Nat /\ at[k] <= Len(Stream)
  <2>1. Len(frames) + 1 \in 1..Len(frames) + 1 /\ \A k \in 1..Len(frames) + 1 : k <= Len(frames) + 1
    BY <1>1
  <2> QED
    BY <1>2, <2>1 DEF z
<1>9. Framed(t, more)'
  <2>1. more[1] = 0 /\ more[Len(t) + 1] = Len(Stream')
    <3>1. 1 \in 1..Len(frames) + 1 /\ Len(t) + 1 = Len(frames) + 2
      BY <1>1
    <3> QED
      BY <1>2, <1>6, <1>7, <3>1
  <2>2. ASSUME NEW j \in 1..Len(t) + 1, NEW k \in 1..Len(t) + 1, j <= k
        PROVE  more[j] <= more[k]
    <3>1. CASE k <= Len(frames) + 1
      <4>1. j \in 1..Len(frames) + 1 /\ k \in 1..Len(frames) + 1
        BY <1>1, <2>2, <3>1
      <4> QED
        BY <1>2, <1>7, <2>2, <4>1
    <3>2. CASE k = Len(frames) + 2 /\ j <= Len(frames) + 1
      <4>1. j \in 1..Len(frames) + 1
        BY <1>1, <3>2
      <4>2. more[j] <= Len(Stream) /\ more[j] \in Nat
        BY <1>7, <1>8, <4>1
      <4> QED
        BY <1>3, <1>4, <1>7, <3>2, <4>2
    <3>3. CASE k = Len(frames) + 2 /\ j = Len(frames) + 2
      <4>1. more[k] \in Nat
        BY <1>3, <1>4, <1>7, <3>3
      <4> QED
        BY <3>3, <4>1
    <3> QED
      BY <1>1, <2>2, <3>1, <3>2, <3>3
  <2>3. ASSUME NEW k \in 1..Len(t)
        PROVE  /\ more[k + 1] = more[k] + Len(t[k]) + 1
               /\ \A j \in 1..Len(t[k]) : Stream'[more[k] + j] = t[k][j]
               /\ Stream'[more[k + 1]] = 0
    <3>1. CASE k \in 1..Len(frames)
      <4> DEFINE g == frames[k]
      <4>1. /\ k \in 1..Len(frames) + 1 /\ k + 1 \in 1..Len(frames) + 1 /\ t[k] = frames[k]
        BY <1>1, <3>1
      <4>2. /\ at[k + 1] = at[k] + Len(g) + 1
            /\ \A j \in 1..Len(g) : Stream[at[k] + j] = g[j]
            /\ Stream[at[k + 1]] = 0
        BY <1>2, <3>1
      <4>3. Len(g) \in Nat
        BY <3>1 DEF LineFrame
      <4>4. more[k] = at[k] /\ more[k + 1] = at[k + 1] /\ at[k] \in Nat /\ at[k + 1] \in Nat
            /\ at[k + 1] <= Len(Stream)
        BY <1>7, <1>8, <4>1
      <4> HIDE DEF g
      <4>5. /\ \A j \in 1..Len(g) : at[k] + j \in 1..Len(Stream)
            /\ at[k + 1] \in 1..Len(Stream)
        <5> DEFINE a == at[k]
                   b == at[k + 1]
        <5>1. a \in Nat /\ b \in Nat /\ b = a + Len(g) + 1 /\ b <= Len(Stream)
          BY <4>2, <4>4
        <5> HIDE DEF a, b
        <5>2. (\A j \in 1..Len(g) : a + j \in 1..Len(Stream)) /\ b \in 1..Len(Stream)
          BY <1>4, <4>3, <5>1
        <5> QED
          BY <5>2 DEF a, b
      <4>6. /\ \A j \in 1..Len(g) : Stream'[at[k] + j] = g[j]
            /\ Stream'[at[k + 1]] = 0
        BY <1>6, <4>2, <4>5
      <4> QED
        BY <4>1, <4>2, <4>4, <4>6, Zenon DEF g
    <3>2. CASE k = Len(frames) + 1
      <4>1. k \in 1..Len(frames) + 1 /\ k + 1 = Len(frames) + 2 /\ t[k] = e
        BY <1>1, <3>2
      <4>2. more[k] = Len(Stream) /\ more[k + 1] = Len(Stream) + Len(e) + 1
        BY <1>2, <1>7, <3>2, <4>1 DEF z
      <4> QED
        BY <1>6, <4>1, <4>2, Zenon
    <3> QED
      BY <1>1, <3>1, <3>2
  <2> QED
    BY <2>1, <2>2, <2>3 DEF Framed
<1> QED
  BY <1>5, <1>7, <1>9 DEF t

\* The packet carries on where the sender stands in the last message in flight.
LEMMA PlacedMore ==
  ASSUME NEW q \in Seq(LinkPacket),
         NEW of \in [1..Len(q) + 1 -> Nat], NEW from \in [1..Len(q) + 1 -> Nat],
         Placed(q, of, from),
         NEW p \in LinkPacket,
         of[Len(q) + 1] \in 1..Len(in_flight),
         from[Len(q) + 1] + Len(p.data) <= Len(in_flight[of[Len(q) + 1]]),
         \A j \in 1..Len(p.data) :
           p.data[j] = in_flight[of[Len(q) + 1]][from[Len(q) + 1] + j],
         Rx!EndsMessage(p) => from[Len(q) + 1] + Len(p.data) = Len(in_flight[of[Len(q) + 1]]),
         in_flight' = in_flight,
         NEW of2 \in [1..Len(q) + 2 -> Nat], NEW from2 \in [1..Len(q) + 2 -> Nat],
         \A k \in 1..Len(q) + 1 : of2[k] = of[k] /\ from2[k] = from[k],
         Rx!EndsMessage(p) => of2[Len(q) + 2] = of[Len(q) + 1] + 1 /\ from2[Len(q) + 2] = 0,
         ~Rx!EndsMessage(p) => /\ of2[Len(q) + 2] = of[Len(q) + 1]
                               /\ from2[Len(q) + 2] = from[Len(q) + 1] + Len(p.data)
  PROVE  Placed(Append(q, p), of2, from2)'
<1> DEFINE t == Append(q, p)
<1>1. /\ Len(q) \in Nat /\ Len(t) = Len(q) + 1
      /\ \A k \in 1..Len(q) : t[k] = q[k]
      /\ t[Len(q) + 1] = p
  OBVIOUS
<1> HIDE DEF t
<1>2. \A j, k \in 1..Len(q) + 1 : j <= k => of[j] <= of[k]
  BY DEF Placed
<1>3. ASSUME NEW j \in 1..Len(t) + 1, NEW k \in 1..Len(t) + 1, j <= k
      PROVE  of2[j] <= of2[k]
  <2>1. CASE k <= Len(q) + 1
    <3>1. j \in 1..Len(q) + 1 /\ k \in 1..Len(q) + 1
      BY <1>1, <1>3, <2>1
    <3> QED
      BY <1>2, <1>3, <3>1
  <2>2. CASE k = Len(q) + 2 /\ j <= Len(q) + 1
    <3>1. j \in 1..Len(q) + 1 /\ Len(q) + 1 \in 1..Len(q) + 1 /\ j <= Len(q) + 1
      BY <1>1, <2>2
    <3>2. of[j] <= of[Len(q) + 1] /\ of[j] \in Nat /\ of[Len(q) + 1] \in Nat /\ of2[j] = of[j]
      BY <1>2, <3>1
    <3>3. of2[k] = of[Len(q) + 1] \/ of2[k] = of[Len(q) + 1] + 1
      BY <2>2
    <3> QED
      BY <3>2, <3>3
  <2>3. CASE k = Len(q) + 2 /\ j = Len(q) + 2
    <3>1. k \in 1..Len(q) + 2
      BY <1>1, <2>3
    <3>2. of2[k] \in Nat
      BY <3>1
    <3> QED
      BY <2>3, <3>2
  <2> QED
    BY <1>1, <1>3, <2>1, <2>2, <2>3
<1>4. ASSUME NEW k \in 1..Len(t)
      PROVE  /\ of2[k] \in 1..Len(in_flight)
             /\ from2[k] + Len(t[k].data) <= Len(in_flight[of2[k]])
             /\ \A j \in 1..Len(t[k].data) : t[k].data[j] = in_flight[of2[k]][from2[k] + j]
             /\ Rx!EndsMessage(t[k]) =>
                  /\ from2[k] + Len(t[k].data) = Len(in_flight[of2[k]])
                  /\ of2[k + 1] = of2[k] + 1 /\ from2[k + 1] = 0
             /\ ~Rx!EndsMessage(t[k]) =>
                  of2[k + 1] = of2[k] /\ from2[k + 1] = from2[k] + Len(t[k].data)
  <2>1. CASE k \in 1..Len(q)
    <3>1. k \in 1..Len(q) + 1 /\ k + 1 \in 1..Len(q) + 1 /\ t[k] = q[k]
      BY <1>1, <2>1
    <3>2. /\ of2[k] = of[k] /\ from2[k] = from[k]
          /\ of2[k + 1] = of[k + 1] /\ from2[k + 1] = from[k + 1]
      BY <3>1
    <3>3. /\ of[k] \in 1..Len(in_flight)
          /\ from[k] + Len(q[k].data) <= Len(in_flight[of[k]])
          /\ \A j \in 1..Len(q[k].data) : q[k].data[j] = in_flight[of[k]][from[k] + j]
          /\ Rx!EndsMessage(q[k]) =>
               /\ from[k] + Len(q[k].data) = Len(in_flight[of[k]])
               /\ of[k + 1] = of[k] + 1 /\ from[k + 1] = 0
          /\ ~Rx!EndsMessage(q[k]) =>
               of[k + 1] = of[k] /\ from[k + 1] = from[k] + Len(q[k].data)
      BY <2>1, Zenon DEF Placed
    <3> QED
      BY <3>1, <3>2, <3>3, Zenon
  <2>2. CASE k = Len(q) + 1
    <3>1. k \in 1..Len(q) + 1 /\ k + 1 = Len(q) + 2 /\ t[k] = p
      BY <1>1, <2>2
    <3>2. of2[k] = of[Len(q) + 1] /\ from2[k] = from[Len(q) + 1]
      BY <2>2, <3>1
    <3> QED
      BY <3>1, <3>2, Zenon
  <2> QED
    BY <1>1, <2>1, <2>2
<1> QED
  BY <1>3, <1>4, Zenon DEF Placed, Rx!EndsMessage, t

\* A packet that tx_handler writes carries the next part of the last message in flight.
LEMMA TransmitLinked ==
  ASSUME IInv, Transmit
  PROVE  LinkType' /\ Sending' /\ Linked'
<1>1. PICK q \in Seq(LinkPacket) :
        \E at \in [1..Len(q) + 1 -> Nat], of \in [1..Len(q) + 1 -> Nat],
           from \in [1..Len(q) + 1 -> Nat] : LinkedBy(q, at, of, from)
  BY DEF IInv, Linked
<1>2. PICK at \in [1..Len(q) + 1 -> Nat], of \in [1..Len(q) + 1 -> Nat],
           from \in [1..Len(q) + 1 -> Nat] : LinkedBy(q, at, of, from)
  BY <1>1
<1>3. /\ Tx!InLoop /\ pc' = pc /\ size' = size /\ i' = i + 1
      /\ buffer_offset' = Tx!NextOffset
      /\ line' = line \o (Encode(Built) \o <<0>>)
      /\ buffer' = buffer /\ in_flight' = in_flight
      /\ arrived' = arrived /\ assembled' = assembled
  BY DEF Transmit, Tx!TransmitPacket, Encoded, rxVars
\* The packet as it is now: Built goes on to the next one.
<1>p. PICK p : p = Built
  OBVIOUS
<1> DEFINE z == Len(q) + 1
<1>4. /\ p \in LinkPacket /\ Survives(p)
      /\ buffer_offset \in Nat /\ Tx!NextOffset = buffer_offset + Len(p.data)
      /\ Tx!NextOffset <= Len(Transmitted(buffer))
      /\ \A j \in 1..Len(p.data) : p.data[j] = Transmitted(buffer)[buffer_offset + j]
      /\ Rx!EndsMessage(p) <=> i + 1 = Tx!total_chunks
      /\ Rx!EndsMessage(p) => Tx!NextOffset = Len(Transmitted(buffer))
  BY <1>3, <1>p, BuiltFacts DEF IInv
<1>5. /\ Len(p.data) \in Nat /\ Len(Encode(p)) \in Nat
      /\ Len(q) \in Nat /\ z \in 1..Len(q) + 1
      /\ at[z] \in Nat /\ of[z] \in Nat /\ from[z] \in Nat
  <2>1. p.data \in Seq(Byte) /\ Encode(p) \in Seq(Byte \ {0})
    BY <1>4 DEF LinkPacket, Survives
  <2>2. Len(q) \in Nat /\ z \in 1..Len(q) + 1
    OBVIOUS
  <2> QED
    BY <2>1, <2>2
<1>6. /\ in_flight # <<>> /\ of[z] = Len(in_flight) /\ from[z] = buffer_offset
      /\ in_flight[of[z]] = Transmitted(buffer)
  BY <1>2, <1>3 DEF LinkedBy, Continued
<1>7. /\ line \in Seq(Byte) /\ arrived \in Seq(Byte) /\ in_flight \in Seq(Seq(Byte))
  BY DEF IInv, LinkType, RxProof!Inv, RxProof!Bounded, RxProof!TypeOK
<1>8. of[z] \in 1..Len(in_flight)
  BY <1>6, <1>7
<1> HIDE DEF z
<1>9. /\ line' \in Seq(Byte)
      /\ \E more \in [1..Len(q) + 2 -> Nat] : Framed(FramesOf(Append(q, p)), more)'
  <2>1. /\ FramesOf(q) \in Seq(LineFrame) /\ Len(FramesOf(q)) = Len(q) /\ Encode(p) \in LineFrame
        /\ Framed(FramesOf(q), at)
    BY <1>2, <1>4, FramesOfFacts DEF LinkedBy, LinkPacket, Survives, LineFrame
  <2>2. PICK w : w = FramesOf(q)
    OBVIOUS
  <2>3. line' = line \o (Encode(p) \o <<0>>) /\ arrived' = arrived
    BY <1>3, <1>p
  <2>4. /\ line' \in Seq(Byte)
        /\ \E more \in [1..Len(w) + 2 -> Nat] : Framed(Append(w, Encode(p)), more)'
    BY <1>7, <2>1, <2>2, <2>3, FramedMore
  <2>5. Append(w, Encode(p)) = FramesOf(Append(q, p))
    BY <1>4, <2>2, FramesOfChanges
  <2>6. PICK r : r = Append(w, Encode(p))
    OBVIOUS
  <2>7. r = FramesOf(Append(q, p)) /\ FramesOf(Append(q, p))' = FramesOf(Append(q, p))
    BY <2>5, <2>6 DEF FramesOf
  <2>8. \E more \in [1..Len(q) + 2 -> Nat] : Framed(r, more)'
    BY <2>1, <2>2, <2>4, <2>6
  <2> QED
    BY <2>4, <2>7, <2>8
<1>m. PICK more \in [1..Len(q) + 2 -> Nat] : Framed(FramesOf(Append(q, p)), more)'
  BY <1>9
<1>10. PICK of2 \in [1..Len(q) + 2 -> Nat] :
         /\ \A k \in 1..Len(q) + 1 : of2[k] = of[k]
         /\ of2[Len(q) + 2] = IF Rx!EndsMessage(p) THEN of[z] + 1 ELSE of[z]
  <2> DEFINE v == IF Rx!EndsMessage(p) THEN of[z] + 1 ELSE of[z]
             w == [k \in 1..Len(q) + 2 |-> IF k <= Len(q) + 1 THEN of[k] ELSE v]
  <2>1. v \in Nat
    BY <1>5
  <2> HIDE DEF v
  <2>2. w \in [1..Len(q) + 2 -> Nat] /\ \A k \in 1..Len(q) + 1 : w[k] = of[k]
    BY <1>5, <2>1
  <2>3. w[Len(q) + 2] = v
    BY <1>5
  <2> QED
    BY <2>2, <2>3 DEF v
<1>11. PICK from2 \in [1..Len(q) + 2 -> Nat] :
         /\ \A k \in 1..Len(q) + 1 : from2[k] = from[k]
         /\ from2[Len(q) + 2] = IF Rx!EndsMessage(p) THEN 0 ELSE from[z] + Len(p.data)
  <2> DEFINE v == IF Rx!EndsMessage(p) THEN 0 ELSE from[z] + Len(p.data)
             w == [k \in 1..Len(q) + 2 |-> IF k <= Len(q) + 1 THEN from[k] ELSE v]
  <2>1. v \in Nat
    BY <1>5
  <2> HIDE DEF v
  <2>2. w \in [1..Len(q) + 2 -> Nat] /\ \A k \in 1..Len(q) + 1 : w[k] = from[k]
    BY <1>5, <2>1
  <2>3. w[Len(q) + 2] = v
    BY <1>5
  <2> QED
    BY <2>2, <2>3 DEF v
<1> DEFINE t == Append(q, p)
<1>12. t \in Seq(LinkPacket) /\ Len(t) + 1 = Len(q) + 2
  BY <1>4
<1>13. line' \in Seq(Byte) /\ Framed(FramesOf(t), more)'
  BY <1>9, <1>m
<1>14. Placed(t, of2, from2)'
  <2>1. Placed(q, of, from)
    BY <1>2 DEF LinkedBy
  <2>2. /\ of[Len(q) + 1] \in 1..Len(in_flight)
        /\ from[Len(q) + 1] + Len(p.data) <= Len(in_flight[of[Len(q) + 1]])
        /\ \A j \in 1..Len(p.data) :
             p.data[j] = in_flight[of[Len(q) + 1]][from[Len(q) + 1] + j]
        /\ Rx!EndsMessage(p) => from[Len(q) + 1] + Len(p.data) = Len(in_flight[of[Len(q) + 1]])
    BY <1>4, <1>6, <1>8 DEF z
  <2>3. /\ \A k \in 1..Len(q) + 1 : of2[k] = of[k] /\ from2[k] = from[k]
        /\ Rx!EndsMessage(p) => of2[Len(q) + 2] = of[Len(q) + 1] + 1 /\ from2[Len(q) + 2] = 0
        /\ ~Rx!EndsMessage(p) => /\ of2[Len(q) + 2] = of[Len(q) + 1]
                                 /\ from2[Len(q) + 2] = from[Len(q) + 1] + Len(p.data)
    BY <1>10, <1>11 DEF z
  <2> QED
    BY ZenonT(30), <1>3, <1>4, <2>1, <2>2, <2>3, PlacedMore
<1>15. Collected(of2, from2)'
  <2>1. 1 \in 1..Len(q) + 1
    BY <1>5
  <2>2. of2[1] = of[1] /\ from2[1] = from[1] /\ Collected(of, from)
    BY <1>2, <1>10, <1>11, <2>1 DEF LinkedBy
  <2> QED
    BY <1>3, <2>2 DEF Collected
<1>16. Continued(of2[Len(q) + 2], from2[Len(q) + 2])'
  <2>1. Transmitted(buffer)' = Transmitted(buffer)
    BY <1>3 DEF Transmitted
  <2>2. Tx!InLoop' <=> ~Rx!EndsMessage(p)
    <3>1. Tx!total_chunks' = Tx!total_chunks
      BY <1>3 DEF Tx!total_chunks, Tx!Chunks, Tx!data_chunk_size
    <3>2. Tx!InLoop' <=> i + 1 < Tx!total_chunks
      BY <1>3, <3>1 DEF Tx!InLoop
    <3>3. i \in Nat /\ i < Tx!total_chunks /\ buffer \in Message /\ size = Len(buffer)
      BY <1>3 DEF Tx!InLoop, IInv, Sending, TxProof!Inv, TxProof!TypeOK
    <3>4. Tx!total_chunks \in Nat
      BY <3>3, SomeChunk DEF Tx!total_chunks
    <3> QED
      BY <1>4, <3>2, <3>3, <3>4
  <2>3. CASE Rx!EndsMessage(p)
    BY <1>3, <1>6, <1>10, <1>11, <2>2, <2>3 DEF Continued
  <2>4. CASE ~Rx!EndsMessage(p)
    <3>1. /\ of2[Len(q) + 2] = Len(in_flight) /\ from2[Len(q) + 2] = buffer_offset'
          /\ in_flight'[Len(in_flight)] = Transmitted(buffer) /\ in_flight' # <<>>
      BY <1>3, <1>4, <1>6, <1>10, <1>11, <2>4
    <3> QED
      BY <1>3, <2>1, <2>2, <2>4, <3>1 DEF Continued
  <2> QED
    BY <2>3, <2>4
<1> HIDE DEF t
<1>17. LinkedBy(t, more, of2, from2)'
  BY <1>12, <1>13, <1>14, <1>15, <1>16 DEF LinkedBy
<1>18. LinkType'
  BY <1>3, <1>13 DEF IInv, LinkType
<1>19. Sending'
  BY <1>3 DEF IInv, Sending
<1>20. Linked'
  BY <1>12, <1>17 DEF Linked
<1> QED
  BY <1>18, <1>19, <1>20

\* A step that leaves what Linked speaks of alone keeps it.
LEMMA LinkedUnchanged ==
  ASSUME Linked, UNCHANGED <<line, arrived, assembled, in_flight, buffer, buffer_offset>>,
         Tx!InLoop' <=> Tx!InLoop
  PROVE  Linked'
<1>1. PICK q \in Seq(LinkPacket) :
        \E at \in [1..Len(q) + 1 -> Nat], of \in [1..Len(q) + 1 -> Nat],
           from \in [1..Len(q) + 1 -> Nat] : LinkedBy(q, at, of, from)
  BY DEF Linked
<1>2. PICK at \in [1..Len(q) + 1 -> Nat], of \in [1..Len(q) + 1 -> Nat],
           from \in [1..Len(q) + 1 -> Nat] : LinkedBy(q, at, of, from)
  BY <1>1
<1>3. Framed(FramesOf(q), at)'
  BY <1>2 DEF LinkedBy, Framed, Stream, FramesOf
<1>4. Placed(q, of, from)' /\ Collected(of, from)'
  BY <1>2 DEF LinkedBy, Placed, Collected, Rx!EndsMessage
<1>5. Continued(of[Len(q) + 1], from[Len(q) + 1])'
  BY <1>2 DEF LinkedBy, Continued, Transmitted
<1>6. LinkedBy(q, at, of, from)'
  BY <1>3, <1>4, <1>5 DEF LinkedBy
<1> QED
  BY <1>6 DEF Linked

\* Nothing is on its way at the start.
LEMMA InitInv == Init => IInv
<1> SUFFICES ASSUME Init PROVE IInv
  OBVIOUS
<1>1. TxProof!Inv
  BY SenderInv
<1>2. RxProof!Inv
  <2>1. RxProof!Init
    BY DEF Init, Rx!Init, RxProof!Init, Rx!Zeroed, RxProof!Zeroed
  <2> QED
    BY <2>1, RxAssumptions, RxProof!InitInv DEF RxProof!InitInv
<1>3. /\ line = <<>> /\ in_flight = <<>> /\ arrived = <<>> /\ assembled = <<>>
      /\ pc = "idle" /\ leaked = 0 /\ retval = TRUE
  BY DEF Init, Tx!Init, Rx!Init
<1>4. LinkType /\ Sending /\ Undisturbed
  BY <1>3 DEF LinkType, Sending, Undisturbed
<1>5. Linked
  <2> DEFINE at == [k \in 1..1 |-> 0]
             of == [k \in 1..1 |-> 1]
  <2>1. <<>> \in Seq(LinkPacket) /\ Len(<<>>) = 0 /\ Len(<<>>) + 1 = 1
    OBVIOUS
  <2>2. at \in [1..1 -> Nat] /\ of \in [1..1 -> Nat] /\ at[1] = 0 /\ of[1] = 1
    OBVIOUS
  <2> HIDE DEF at, of
  <2>3. Framed(FramesOf(<<>>), at)
    <3>1. Stream = <<>>
      BY <1>3 DEF Stream
    <3>2. Len(FramesOf(<<>>)) = 0
      BY <2>1, FramesOfFacts
    <3> QED
      BY <2>2, <3>1, <3>2 DEF Framed
  <2>4. Placed(<<>>, of, at)
    BY <2>2 DEF Placed
  <2>5. Collected(of, at)
    BY <1>3, <2>2 DEF Collected
  <2>6. Continued(of[1], at[1])
    BY <1>3, <2>2 DEF Continued, Tx!InLoop
  <2>7. LinkedBy(<<>>, at, of, at)
    BY <2>1, <2>3, <2>4, <2>5, <2>6 DEF LinkedBy
  <2> QED
    BY <2>1, <2>2, <2>7 DEF Linked
<1> QED
  BY <1>1, <1>2, <1>4, <1>5 DEF IInv

\* Every step of the link keeps the invariant.
LEMMA NextInv == IInv /\ [Next]_vars => IInv'
<1> SUFFICES ASSUME IInv, [Next]_vars PROVE IInv'
  OBVIOUS
<1>1. TxProof!Inv'
  BY SenderInv DEF IInv
<1>2. ASSUME UNCHANGED rxVars PROVE RxProof!Inv' /\ Undisturbed'
  <2>1. UNCHANGED RxProof!vars
    BY <1>2 DEF rxVars, RxProof!vars, RxProof!rxVars, RxProof!packetVars, RxProof!upVars
  <2>2. RxProof!Inv'
    BY <2>1, RxAssumptions, RxProof!NextInv DEF RxProof!NextInv, IInv
  <2> QED
    BY <1>2, <2>2 DEF IInv, Undisturbed, rxVars
<1>3. ASSUME UNCHANGED <<rxVars, lineVars, buffer_offset>>, Tx!InLoop' <=> Tx!InLoop,
             pc' = "loop" => pc = "loop" /\ size' = size
      PROVE  IInv'
  <2>1. LinkType'
    BY <1>3 DEF IInv, LinkType, lineVars
  <2>2. Sending'
    BY <1>3 DEF IInv, Sending, lineVars
  <2>3. Linked'
    BY <1>3, LinkedUnchanged DEF IInv, rxVars, lineVars
  <2> QED
    BY <1>1, <1>2, <1>3, <2>1, <2>2, <2>3 DEF IInv
<1>4. CASE Connect
  <2>1. UNCHANGED <<rxVars, lineVars, buffer_offset, pc, i, size>>
    BY <1>4 DEF Connect, Tx!register_tx_handler, Tx!sendVars
  <2>2. Tx!InLoop' <=> Tx!InLoop
    BY <2>1 DEF Tx!InLoop, Tx!total_chunks, Tx!Chunks, Tx!data_chunk_size
  <2> QED
    BY <1>3, <2>1, <2>2
<1>5. ASSUME NEW m \in Message, Send(m) PROVE IInv'
  <2>1. UNCHANGED rxVars
    BY <1>5 DEF Send
  <2> QED
    BY <1>1, <1>2, <1>5, <2>1, SendLinked DEF IInv
<1>6. CASE Transmit
  <2>1. UNCHANGED rxVars
    BY <1>6 DEF Transmit
  <2> QED
    BY <1>1, <1>2, <1>6, <2>1, TransmitLinked DEF IInv
<1>7. CASE FinishSend
  <2>1. /\ UNCHANGED <<rxVars, lineVars, buffer_offset>> /\ pc' = "returned"
        /\ i >= Tx!total_chunks /\ pc = "loop"
    BY <1>7 DEF FinishSend, Tx!FinishSend
  <2>2. ~Tx!InLoop /\ ~Tx!InLoop'
    <3>1. i \in Nat /\ buffer \in Message /\ size = Len(buffer)
      BY <2>1 DEF IInv, Sending, TxProof!Inv, TxProof!TypeOK
    <3>2. Tx!total_chunks \in Nat
      BY <3>1, SomeChunk DEF Tx!total_chunks
    <3> QED
      BY <2>1, <3>1, <3>2 DEF Tx!InLoop
  <2> QED
    BY <1>3, <2>1, <2>2
<1>8. ASSUME NEW n \in PieceSize, Receive(n) PROVE IInv'
  BY <1>1, <1>8, ReceiveStep DEF IInv, ReceiveInv
<1>9. CASE UNCHANGED vars
  <2>1. UNCHANGED <<rxVars, lineVars, buffer_offset, pc, i, size>>
    BY <1>9 DEF vars, txVars
  <2>2. Tx!InLoop' <=> Tx!InLoop
    BY <2>1 DEF Tx!InLoop, Tx!total_chunks, Tx!Chunks, Tx!data_chunk_size
  <2> QED
    BY <1>3, <2>1, <2>2
<1> QED
  BY <1>4, <1>5, <1>6, <1>7, <1>8, <1>9 DEF Next, Sender, Receiver

\* Every reachable state of the link satisfies the invariant.
LEMMA InvHolds == Spec => []IInv
<1>1. Init => IInv
  BY InitInv
<1>2. IInv /\ [Next]_vars => IInv'
  BY NextInv
<1> QED
  BY <1>1, <1>2, PTL DEF Spec

-----------------------------------------------------------------------------
\* On a line that loses nothing no process() call fails, none of rx_buffer's room is lost,
\* and packet_parser()'s memcpy, which checks nothing, stays inside packet_buffer.
THEOREM LinkReceiverKeepsUp == Spec => []ReceiverKeepsUp
<1>1. IInv => ReceiverKeepsUp
  BY DEF IInv, Undisturbed, ReceiverKeepsUp, RxProof!Inv, RxProof!Bounded, RxProof!NoOverrun
<1> QED
  BY <1>1, InvHolds, PTL

-----------------------------------------------------------------------------
(* The link implements MessageLink: what is safety of it. *)

\* An array is zero padded with a message exactly if it is what MessageLink delivers.
LEMMA PaddedIs ==
  ASSUME NEW buf \in [0..PACKET_BUFFER_SIZE-1 -> Byte], NEW s, RxProof!ZeroPadded(buf, s)
  PROVE  buf = Link!Padded(s)
BY DEF RxProof!ZeroPadded, Link!Padded

\* A process() call that completes a message hands over the first one in flight, whole.
LEMMA DeliveryStep ==
  ASSUME IInv, NEW n \in PieceSize, Receive(n)
  PROVE  Link!Deliver \/ UNCHANGED <<in_flight, payload>>
<1>1. PICK q \in Seq(LinkPacket) :
        \E at \in [1..Len(q) + 1 -> Nat], of \in [1..Len(q) + 1 -> Nat],
           from \in [1..Len(q) + 1 -> Nat] : LinkedBy(q, at, of, from)
  BY DEF IInv, Linked
<1>2. PICK at \in [1..Len(q) + 1 -> Nat], of \in [1..Len(q) + 1 -> Nat],
           from \in [1..Len(q) + 1 -> Nat] : LinkedBy(q, at, of, from)
  BY <1>1
<1>3. PICK len \in 1..Len(line) :
        Piece(n) = SubSeq(line, 1, len) /\ \A j \in 1..len-1 : line[j] # 0
  <2>1. line \in Seq(Byte) /\ line # <<>>
    BY DEF IInv, LinkType, Receive
  <2> QED
    BY <2>1, PieceFacts
<1> DEFINE piece == Piece(n)
<1>4. /\ Rx!process(piece)
      /\ in_flight' = IF Delivers(piece) THEN SubSeq(in_flight, 2, Len(in_flight)) ELSE in_flight
  BY DEF Receive
<1>5. LinkType /\ RxProof!Inv /\ Undisturbed
  BY DEF IInv
<1>6. piece = SubSeq(line, 1, len)
  BY <1>3
<1> HIDE DEF piece
<1>7. /\ line[len] # 0 => ~Delivers(piece) /\ Rx!StoreChunk(piece)
      /\ line[len] = 0 =>
           /\ Delivers(piece) <=> Rx!EndsMessage(q[1])
           /\ Rx!GoodFrame(piece, Received(q[1]))
      /\ RxProof!Inv'
  BY <1>2, <1>3, <1>4, <1>5, <1>6, ProcessStep
<1>8. CASE line[len] # 0
  BY <1>4, <1>7, <1>8 DEF Rx!StoreChunk, Rx!upVars
<1>9. CASE line[len] = 0 /\ ~Rx!EndsMessage(q[1])
  BY <1>4, <1>7, <1>9
     DEF Rx!GoodFrame, Rx!packet_parser, Rx!KeepPacket, Rx!HandOver, Rx!upVars,
         Rx!EndsMessage, Received
<1>10. CASE line[len] = 0 /\ Rx!EndsMessage(q[1])
  <2>1. message' = assembled \o q[1].data
    BY <1>7, <1>10
       DEF Rx!GoodFrame, Rx!packet_parser, Rx!KeepPacket, Rx!HandOver, Rx!EndsMessage, Received
  <2>2. assembled \in Seq(Byte)
    BY <1>5 DEF RxProof!Inv, RxProof!Bounded, RxProof!TypeOK
  <2>3. 1 \in 1..Len(q)
    <3>1. RxRoom /\ Framed(FramesOf(q), at)
      BY <1>2, <1>5, LinkRoom DEF LinkedBy
    <3>2. FramesOf(q) \in Seq(LineFrame) /\ Len(FramesOf(q)) = Len(q)
      BY FramesOfFacts
    <3> QED
      BY <1>3, <3>1, <3>2, FirstFrame
  <2>4. /\ in_flight # <<>> /\ in_flight[1] \in Seq(Byte)
        /\ q[1].data \in Seq(Byte)
        /\ Len(assembled \o q[1].data) = Len(in_flight[1])
        /\ \A j \in 1..Len(assembled \o q[1].data) :
             (assembled \o q[1].data)[j] = in_flight[1][j]
    BY <1>2, <1>5, <1>10, <2>2, <2>3, FirstPlaced DEF LinkedBy
  <2>5. assembled \o q[1].data = in_flight[1]
    <3> DEFINE x == assembled \o q[1].data
               y == in_flight[1]
    <3>1. x \in Seq(Byte) /\ y \in Seq(Byte) /\ Len(x) = Len(y)
          /\ \A j \in 1..Len(x) : x[j] = y[j]
      BY <2>2, <2>4
    <3> HIDE DEF x, y
    <3>2. x = y
      BY <3>1, SeqEqual
    <3> QED
      BY <3>2 DEF x, y
  <2>6. payload' = Link!Padded(in_flight[1])
    <3>1. payload' \in [0..PACKET_BUFFER_SIZE-1 -> Byte] /\ RxProof!ZeroPadded(payload', message')
      BY <1>7 DEF RxProof!Inv, RxProof!Bounded, RxProof!TypeOK, RxProof!PayloadExact,
                  RxProof!ZeroPadded
    <3> QED
      BY <2>1, <2>5, <3>1, PaddedIs
  <2>7. in_flight \in Seq(Seq(Byte)) /\ in_flight' = SubSeq(in_flight, 2, Len(in_flight))
    BY <1>4, <1>5, <1>7, <1>10 DEF LinkType
  <2>8. Head(in_flight) = in_flight[1] /\ Tail(in_flight) = SubSeq(in_flight, 2, Len(in_flight))
    BY <2>4, <2>7, TailIsSubSeq
  <2> QED
    BY <2>4, <2>6, <2>7, <2>8 DEF Link!Deliver
<1> QED
  BY <1>8, <1>9, <1>10

\* Every step of the link is a step of MessageLink or changes neither of its variables.
LEMMA LinkStep == IInv /\ [Next]_vars => [Link!Next]_(Link!vars)
<1> SUFFICES ASSUME IInv, [Next]_vars PROVE [Link!Next]_(Link!vars)
  OBVIOUS
<1>1. ASSUME NEW m \in Message, Send(m) PROVE Link!Next
  <2>1. Link!Send(Transmitted(m))
    BY <1>1 DEF Send, Link!Send, rxVars
  <2> QED
    BY <2>1 DEF Link!Next
<1>2. ASSUME NEW n \in PieceSize, Receive(n) PROVE [Link!Next]_(Link!vars)
  BY <1>2, DeliveryStep DEF Link!Next, Link!vars
<1>3. ASSUME Connect \/ Transmit \/ FinishSend \/ UNCHANGED vars PROVE UNCHANGED Link!vars
  BY <1>3 DEF Connect, Transmit, FinishSend, vars, lineVars, rxVars, Link!vars
<1> QED
  BY <1>1, <1>2, <1>3 DEF Next, Sender, Receiver

\* Messages are handed to the receiving application in the order of sending, each once,
\* byte for byte and with zeros behind it, for every codec whose frames survive, however
\* the line's bytes are cut into process() calls.  (That each is handed over sooner or
\* later is fairness and stays with TLC.)
THEOREM LinkSafety == Spec => Link!Init /\ [][Link!Next]_(Link!vars)
<1>1. Init => Link!Init
  BY DEF Init, Rx!Init, Rx!Zeroed, Link!Init, Link!Padded
<1>2. IInv /\ [Next]_vars => [Link!Next]_(Link!vars)
  BY LinkStep
<1> QED
  BY <1>1, <1>2, InvHolds, PTL DEF Spec
=============================================================================
