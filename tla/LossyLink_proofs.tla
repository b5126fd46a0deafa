--------------------------- MODULE LossyLink_proofs ---------------------------
(***************************************************************************)
(* Proofs about PacketSerial on a line that loses and damages frames, for  *)
(* every codec whose frames survive an undisturbed line, whatever damaged  *)
(* frames decode to, every set of messages, every cutting of the line into *)
(* pieces, every size of the buffers and any number of faults.  The frames *)
(* on the line and the sender are reasoned about with the lemmas of        *)
(* PacketLink_proofs.                                                      *)
(***************************************************************************)
EXTENDS LossyLink, PacketLink_proofs

-----------------------------------------------------------------------------
(* The sender. *)

\* Whatever becomes of a frame, the sender does what PacketSerialTx does.
LEMMA LossySenderStep == [LossyNext]_lossyVars => [TxProof!Next]_(TxProof!vars)
<1> SUFFICES ASSUME [LossyNext]_lossyVars PROVE [TxProof!Next]_(TxProof!vars)
  OBVIOUS
<1>1. CASE LossyConnect
  <2>1. TxProof!register_tx_handler(uart)
    BY <1>1 DEF LossyConnect, Connect, Tx!register_tx_handler, TxProof!register_tx_handler,
                Tx!sendVars, TxProof!sendVars
  <2> QED
    BY <2>1 DEF TxProof!Next
<1>2. ASSUME NEW m \in Message, LossySend(m) PROVE TxProof!Next
  <2>1. TxProof!send(Len(m))
    BY <1>2 DEF LossySend, Tx!send, TxProof!send
  <2>2. Len(m) \in Sizes
    BY DEF Sizes
  <2> QED
    BY <2>1, <2>2 DEF TxProof!Next
<1>3. ASSUME NEW ok \in BOOLEAN, Tx!TransmitPacket(ok) PROVE TxProof!Next
  <2>1. TxProof!TransmitPacket(ok)
    BY <1>3, SameSender
       DEF Tx!TransmitPacket, TxProof!TransmitPacket, Tx!InLoop, TxProof!InLoop,
           Tx!NextOffset, TxProof!NextOffset, Tx!StatusAfter, TxProof!StatusAfter
  <2> QED
    BY <2>1 DEF TxProof!Next, TxProof!SendStep
<1>4. CASE LossyFinishSend
  <2>1. TxProof!FinishSend
    BY <1>4, SameSender DEF LossyFinishSend, FinishSend, Tx!FinishSend, TxProof!FinishSend
  <2> QED
    BY <2>1 DEF TxProof!Next, TxProof!SendStep
<1>5. LossySender => LossyFinishSend \/ \E ok \in BOOLEAN : Tx!TransmitPacket(ok)
  BY DEF LossySender, TransmitWhole, DamageFrame, LoseFrame, RefuseFrame
<1>6. UNCHANGED txVars => UNCHANGED TxProof!vars
  BY DEF txVars, TxProof!vars, TxProof!sendVars
<1>7. LossyReceiver => UNCHANGED txVars
  BY DEF LossyReceiver, LossyReceive, Recover
<1>8. UNCHANGED lossyVars => UNCHANGED txVars
  BY DEF lossyVars, vars
<1> QED
  BY <1>1, <1>2, <1>3, <1>4, <1>5, <1>6, <1>7, <1>8 DEF LossyNext

\* What is proved of send() holds here too.
LEMMA LossySenderInv ==
  /\ LossyInit => TxProof!Inv
  /\ TxProof!Inv /\ [LossyNext]_lossyVars => TxProof!Inv'
<1>1. LossyInit => TxProof!Init
  BY DEF LossyInit, Init, Tx!Init, TxProof!Init
<1>2. TxProof!Init => TxProof!Inv
  BY TxAssumptions, TxProof!InitInv DEF TxProof!InitInv
<1>3. TxProof!Inv /\ [TxProof!Next]_(TxProof!vars) => TxProof!Inv'
  BY TxAssumptions, TxProof!NextInv DEF TxProof!NextInv
<1> QED
  BY <1>1, <1>2, <1>3, LossySenderStep

\* What the line makes of a frame that is sent fits into rx_buffer, whatever it decodes to.
LEMMA DamageFacts ==
  ASSUME TxProof!Inv, Sending, Tx!InLoop, NEW bytes \in Damaged(Encode(Built))
  PROVE  bytes \in LineFrame /\ Decode(bytes) \subseteq Rx!Packet \union {NoPacket}
<1>1. /\ buffer \in Message
      /\ \E k \in 0..Tx!Chunks(Len(buffer)) - 1, n \in 0..Tx!data_chunk_size, flag \in Rx!Flag :
           k * Tx!data_chunk_size + n <= Len(buffer) /\ Built = PacketOf(buffer, k, n, flag)
  BY BuiltFacts
<1>2. /\ bytes \in Seq(Byte \ {0}) /\ Len(bytes) < RX_SIZE
      /\ Decode(bytes) \subseteq Rx!Packet \union {NoPacket}
  BY <1>1, DamageAssumption
<1> QED
  BY <1>2 DEF LineFrame

-----------------------------------------------------------------------------
(***************************************************************************)
(* The invariant.  A failed frame leaves process() between frames, until   *)
(* the driver's reset no room is taken from the others.  The line carries  *)
(* one frame for each entry of on_line.  had[k] is what packet_buffer will *)
(* hold before the k-th of them is taken, where that is certain: a frame   *)
(* that may be taken for one packet only goes on from there, or ends the   *)
(* message that is promised with it.  A packet for which packet_buffer has *)
(* no room ends process() for good.                                        *)
(***************************************************************************)
Carries(frames, q) ==
  /\ Len(q) = Len(frames)
  /\ \A k \in 1..Len(frames) : q[k] = Decode(frames[k])

LineCarries ==
  \E frames \in Seq(LineFrame) :
    \E at \in [1..Len(frames) + 1 -> Nat] : Framed(frames, at) /\ Carries(frames, on_line)

Owing == {Spoilt} \union [exact : {TRUE}, message : Seq(Byte)]
Exactly(data) == [exact |-> TRUE, message |-> data]

\* The frame is taken for this packet and no other.
Only(entry, packet) == packet \in Rx!Packet /\ packet # NoPacket /\ entry = {packet}

GoesOn(packet, before, after) ==
  IF Rx!EndsMessage(packet) THEN after.message = <<>>
  ELSE before.exact /\ after.message = before.message \o packet.data

Ends(packet, before, promise) ==
  Rx!EndsMessage(packet) /\ before.exact /\ promise.message = before.message \o packet.data

Follows(entry, promise, before, after) ==
  /\ after.exact => \E packet : Only(entry, packet) /\ GoesOn(packet, before, after)
  /\ promise.exact => \E packet : Only(entry, packet) /\ Ends(packet, before, promise)

Collects(start, q, promises, had) ==
  /\ had[1].exact => had[1].message = start
  /\ \A k \in 1..Len(q) : Follows(q[k], promises[k], had[k], had[k + 1])

\* There is such a had for n - 1 frames, with this behind the last of them.
MayCollect(start, q, promises, n, last) ==
  \E had \in [1..n -> Owing] : Collects(start, q, promises, had) /\ had[n] = last

\* The receiver will have all of the message that has been sent so far, and nothing else.
SentOn(last) ==
  /\ Tx!InLoop /\ intact /\ ended =>
       last.exact /\ last.message = SubSeq(Transmitted(buffer), 1, buffer_offset)
  /\ ~Tx!InLoop /\ ended => last.exact /\ last.message = <<>>

PacketsOwed ==
  \E had \in [1..Len(on_line) + 1 -> Owing] :
    Collects(assembled, on_line, promised, had) /\ SentOn(had[Len(on_line) + 1])

Outcomes == SUBSET (Rx!Packet \union {NoPacket})

LossyType ==
  /\ on_line \in Seq(Outcomes) /\ promised \in Seq(Owing) /\ Len(promised) = Len(on_line)
  /\ assembled \in Seq(Byte)
  /\ intact \in BOOLEAN /\ ended \in BOOLEAN

RxState ==
  /\ RxRoom
  /\ ~overrun => RxProof!Inv
  /\ failed => p_rx_buffer = 0
  /\ ~failed => leaked = 0

LossyInv ==
  /\ TxProof!Inv /\ Sending /\ RxState /\ LossyType
  /\ LineCarries /\ PacketsOwed /\ IntactMessageExact

\* A frame that may be taken for one packet only is taken for that packet.
LEMMA Taken ==
  ASSUME NEW entry, NEW promise, NEW before, NEW after, Follows(entry, promise, before, after),
         NEW packet \in entry
  PROVE  /\ after.exact => packet # NoPacket /\ GoesOn(packet, before, after)
         /\ promise.exact => packet # NoPacket /\ Ends(packet, before, promise)
BY Zenon DEF Follows, Only

\* Spoilt promises nothing.
LEMMA SpoiltFacts == Spoilt \in Owing /\ ~Spoilt.exact
BY DEF Spoilt, Owing

\* What is exact is a sequence of bytes.
LEMMA ExactFacts ==
  /\ \A data \in Seq(Byte) : /\ Exactly(data) \in Owing
                             /\ Exactly(data).exact /\ Exactly(data).message = data
  /\ \A x \in Owing : x.exact => x.message \in Seq(Byte)
<1>1. \A data \in Seq(Byte) : /\ Exactly(data) \in Owing
                              /\ Exactly(data).exact /\ Exactly(data).message = data
  BY DEF Exactly, Owing
<1>2. ASSUME NEW x \in Owing, x.exact PROVE x.message \in Seq(Byte)
  <2>1. x \in [exact : {TRUE}, message : Seq(Byte)]
    BY <1>2, SpoiltFacts, Zenon DEF Owing
  <2> QED
    BY <2>1
<1> QED
  BY <1>1, <1>2

\* Without its first entry.
LEMMA CollectsTail ==
  ASSUME NEW start \in Seq(Byte), NEW q \in Seq(Outcomes), q # <<>>,
         NEW promises \in Seq(Owing), Len(promises) = Len(q),
         NEW had \in [1..Len(q) + 1 -> Owing], Collects(start, q, promises, had),
         NEW start2, had[2].exact => had[2].message = start2
  PROVE  MayCollect(start2, Tail(q), Tail(promises), Len(q), had[Len(q) + 1])
<1> DEFINE t == Tail(q)
           u == Tail(promises)
           l == Len(q)
           rest == [k \in 1..l |-> had[k + 1]]
<1>1. /\ l \in Nat \ {0} /\ Len(t) = l - 1 /\ \A k \in 1..l - 1 : t[k] = q[k + 1]
      /\ \A k \in 1..l - 1 : u[k] = promises[k + 1]
  OBVIOUS
<1>2. \A k \in 1..l : Follows(q[k], promises[k], had[k], had[k + 1])
  BY DEF Collects
<1>3. rest \in [1..l -> Owing]
  OBVIOUS
<1>4. \A k \in 1..l : rest[k] = had[k + 1]
  OBVIOUS
<1> HIDE DEF t, u, l, rest
<1>5. 1 \in 1..l /\ 1 + 1 = 2 /\ l \in 1..l
  BY <1>1
<1>6. ASSUME NEW k \in 1..l - 1 PROVE Follows(t[k], u[k], rest[k], rest[k + 1])
  <2>1. k \in 1..l /\ k + 1 \in 1..l
    BY <1>1
  <2>2. Follows(q[k + 1], promises[k + 1], had[k + 1], had[(k + 1) + 1])
    BY <1>2, <2>1, Zenon
  <2>3. rest[k] = had[k + 1] /\ rest[k + 1] = had[(k + 1) + 1]
    BY <1>4, <2>1, Zenon
  <2>4. t[k] = q[k + 1] /\ u[k] = promises[k + 1]
    BY <1>1
  <2> QED
    BY <2>2, <2>3, <2>4, Zenon
<1>7. Collects(start2, t, u, rest)
  <2>1. rest[1] = had[2]
    BY <1>4, <1>5
  <2> QED
    BY <1>1, <1>6, <2>1 DEF Collects
<1>8. rest[l] = had[l + 1]
  BY <1>4, <1>5
<1> QED
  BY <1>3, <1>7, <1>8 DEF t, u, l, MayCollect

\* With another entry behind the others.
LEMMA CollectsMore ==
  ASSUME NEW start \in Seq(Byte), NEW q \in Seq(Outcomes),
         NEW promises \in Seq(Owing), Len(promises) = Len(q),
         NEW had \in [1..Len(q) + 1 -> Owing], Collects(start, q, promises, had),
         NEW entry \in Outcomes, NEW promise \in Owing, NEW h \in Owing,
         Follows(entry, promise, had[Len(q) + 1], h)
  PROVE  MayCollect(start, Append(q, entry), Append(promises, promise), Len(q) + 2, h)
<1> DEFINE t == Append(q, entry)
           u == Append(promises, promise)
           l == Len(q)
           more == [k \in 1..l + 2 |-> IF k <= l + 1 THEN had[k] ELSE h]
<1>1. /\ l \in Nat /\ Len(t) = l + 1
      /\ \A k \in 1..l : t[k] = q[k] /\ u[k] = promises[k]
      /\ t[l + 1] = entry /\ u[l + 1] = promise
  OBVIOUS
<1>2. \A k \in 1..l : Follows(q[k], promises[k], had[k], had[k + 1])
  BY DEF Collects
<1>3. more \in [1..l + 2 -> Owing] /\ \A k \in 1..l + 1 : more[k] = had[k]
  BY <1>1
<1>4. more[l + 2] = h
  BY <1>1
<1> HIDE DEF t, u, l, more
<1>5. 1 \in 1..l + 1 /\ l + 1 \in 1..l + 1
  BY <1>1
<1>6. ASSUME NEW k \in 1..l + 1 PROVE Follows(t[k], u[k], more[k], more[k + 1])
  <2>1. CASE k \in 1..l
    <3>1. k + 1 \in 1..l + 1
      BY <1>1, <2>1
    <3>2. more[k] = had[k] /\ more[k + 1] = had[k + 1]
      BY <1>3, <3>1, Zenon
    <3> QED
      BY <1>1, <1>2, <2>1, <3>2, Zenon
  <2>2. CASE k = l + 1
    <3>1. k + 1 = l + 2
      BY <1>1, <2>2
    <3>2. more[k] = had[l + 1] /\ more[k + 1] = h
      BY <1>3, <1>4, <1>5, <2>2, <3>1
    <3> QED
      BY <1>1, <2>2, <3>2, Zenon DEF l
  <2> QED
    BY <1>1, <2>1, <2>2
<1>7. Collects(start, t, u, more)
  <2>1. more[1] = had[1]
    BY <1>3, <1>5
  <2> QED
    BY <1>1, <1>6, <2>1 DEF Collects
<1> QED
  BY <1>3, <1>4, <1>7 DEF t, u, l, MayCollect

\* The receiver's invariant gives all that the frames need of it.
LEMMA RoomOf ==
  RxProof!Inv /\ line \in Seq(Byte) /\ (\A j \in 1..Len(arrived) : arrived[j] # 0) => RxRoom
BY ReceiverAssumption DEF RxProof!Inv, RxProof!Bounded, RxProof!TypeOK, RxRoom

\* process() refuses no piece while no failure is pending.
LEMMA NothingRefusedNow == RxState /\ LineCarries => NothingRefused
<1> SUFFICES ASSUME RxState, LineCarries, NEW n \in PieceSize, line # <<>>, ~failed
             PROVE  Rx!Accepts(Piece(n))
  BY DEF NothingRefused
<1>1. PICK frames \in Seq(LineFrame) :
        \E at \in [1..Len(frames) + 1 -> Nat] : Framed(frames, at) /\ Carries(frames, on_line)
  BY DEF LineCarries
<1>2. PICK at \in [1..Len(frames) + 1 -> Nat] : Framed(frames, at)
  BY <1>1
<1>3. RxRoom /\ leaked = 0 /\ line \in Seq(Byte)
  BY DEF RxState, RxRoom
<1>4. PICK len \in 1..Len(line) :
        Piece(n) = SubSeq(line, 1, len) /\ \A j \in 1..len-1 : line[j] # 0
  BY <1>3, PieceFacts
<1> QED
  BY <1>2, <1>3, <1>4, PieceAccepted

\* What process() makes of a piece: it stores it, or drops the first frame on the line, or
\* takes a packet that the frame may be taken for.
LEMMA LossyOutcome ==
  ASSUME RxState, LossyType, ~failed,
         NEW frames \in Seq(LineFrame), NEW at \in [1..Len(frames) + 1 -> Nat],
         Framed(frames, at), Carries(frames, on_line),
         NEW len \in 1..Len(line), \A j \in 1..len-1 : line[j] # 0,
         NEW piece, piece = SubSeq(line, 1, len), Rx!process(piece)
  PROVE  /\ piece \in Seq(Byte) \ {<<>>} /\ Len(piece) = len /\ Rx!Accepts(piece) /\ ~overrun
         /\ line[len] # 0 => Rx!StoreChunk(piece) /\ ~Rx!CompletesFrame(piece)
         /\ line[len] = 0 =>
              /\ frames # <<>> /\ on_line # <<>> /\ Len(arrived) + len = at[2]
              /\ Rx!CompletesFrame(piece) /\ Rx!DecodedPackets(piece) = on_line[1] \ {NoPacket}
              /\ \/ /\ NoPacket \in on_line[1]
                    /\ Rx!BadFrame(piece) /\ RxProof!BadFrame(piece)
                 \/ \E packet \in Rx!Packet :
                      /\ packet \in on_line[1] \ {NoPacket}
                      /\ Rx!GoodFrame(piece, packet) /\ RxProof!GoodFrame(piece, packet)
<1>1. RxRoom /\ leaked = 0
  BY DEF RxState
<1>2. /\ piece \in Seq(Byte) \ {<<>>} /\ Len(piece) = len /\ Rx!Accepts(piece) /\ ~overrun
  BY <1>1, PieceAccepted DEF Rx!process
<1>3. /\ line[len] # 0 => ~Rx!CompletesFrame(piece) /\ Rx!StoreChunk(piece)
      /\ line[len] = 0 =>
           /\ Rx!CompletesFrame(piece) /\ RxProof!CompletesFrame(piece)
           /\ Rx!FrameOf(piece) = frames[1]
           /\ \/ Rx!BadFrame(piece)
              \/ \E packet \in Rx!DecodedPackets(piece) : Rx!GoodFrame(piece, packet)
  BY <1>1, ProcessOutcome
<1>4. ASSUME line[len] = 0
      PROVE  /\ frames # <<>> /\ on_line # <<>> /\ Len(arrived) + len = at[2]
             /\ on_line[1] = Decode(frames[1])
             /\ on_line[1] \subseteq Rx!Packet \union {NoPacket}
  <2>1. 1 \in 1..Len(frames) /\ Len(arrived) + len = at[2]
    BY <1>1, <1>4, FirstFrame
  <2>2. on_line \in Seq(Outcomes) /\ Len(on_line) = Len(frames) /\ on_line[1] = Decode(frames[1])
    BY <2>1 DEF LossyType, Carries
  <2>3. on_line[1] \in Outcomes
    BY <2>1, <2>2
  <2> QED
    BY <2>1, <2>2, <2>3 DEF Outcomes
<1>5. ASSUME line[len] = 0, Rx!BadFrame(piece)
      PROVE  NoPacket \in on_line[1] /\ RxProof!BadFrame(piece)
  <2>1. NoPacket \in on_line[1]
    BY <1>3, <1>4, <1>5 DEF Rx!BadFrame
  <2>2. RxProof!FrameOf(piece) = frames[1]
    BY <1>3, <1>5, SameReceiver
  <2>3. NoPacket \in KnownDecode(RxProof!FrameOf(piece))
    BY <1>4, <1>5, <2>1, <2>2 DEF KnownDecode
  <2>4. RxProof!RxFailure(piece) /\ RxProof!StartNextFrame
    BY <1>3, <1>5, SameWays
  <2> QED
    BY <1>3, <1>5, <2>1, <2>3, <2>4
       DEF RxProof!BadFrame, Rx!BadFrame, Rx!packetVars, RxProof!packetVars,
           Rx!upVars, RxProof!upVars
<1>6. line[len] = 0 => Rx!DecodedPackets(piece) = on_line[1] \ {NoPacket}
  BY <1>3, <1>4 DEF Rx!DecodedPackets
<1>7. ASSUME line[len] = 0, NEW packet \in Rx!DecodedPackets(piece), Rx!GoodFrame(piece, packet)
      PROVE  /\ packet \in Rx!Packet /\ packet \in on_line[1] \ {NoPacket}
             /\ RxProof!GoodFrame(piece, packet)
  BY <1>4, <1>6, <1>7, SameWays
<1> QED
  BY <1>2, <1>3, <1>4, <1>5, <1>6, <1>7


-----------------------------------------------------------------------------
(* The receiver's steps keep the invariant. *)

\* One of the ways through process() leaves the receiver as the invariant has it, also when
\* the packet has no room in packet_buffer.
LEMMA RxStateKept ==
  ASSUME RxState, ~failed, ~overrun, failed' = ~retval',
         NEW piece \in Seq(Byte) \ {<<>>}, Rx!Accepts(piece),
         line' \in Seq(Byte), \A j \in 1..Len(arrived') : arrived'[j] # 0,
         \/ Rx!StoreChunk(piece)
         \/ RxProof!BadFrame(piece)
         \/ \E p \in Rx!Packet : RxProof!GoodFrame(piece, p)
  PROVE  RxState'
<1>1. RxProof!Inv /\ leaked = 0
  BY DEF RxState
<1>2. RxProof!Inv' => RxRoom'
  BY ReceiverAssumption DEF RxProof!Inv, RxProof!Bounded, RxProof!TypeOK, RxRoom
<1>3. CASE Rx!StoreChunk(piece)
  <2>1. RxProof!StoreChunk(piece)
    BY <1>3, SameWays
  <2>2. RxProof!Inv'
    BY <1>1, <2>1, RxAssumptions, RxProof!StoreChunkInv DEF RxProof!StoreChunkInv
  <2>3. leaked' = 0 /\ retval' = TRUE
    BY <1>1, <1>3 DEF Rx!StoreChunk
  <2> QED
    BY <1>2, <2>2, <2>3 DEF RxState
<1>4. CASE RxProof!BadFrame(piece)
  <2>1. RxProof!Inv'
    BY <1>1, <1>4, RxAssumptions, RxProof!BadFrameInv DEF RxProof!BadFrameInv
  <2>2. p_rx_buffer' = 0 /\ retval' = FALSE
    BY <1>4 DEF RxProof!BadFrame, RxProof!RxFailure, RxProof!StartNextFrame
  <2> QED
    BY <1>2, <2>1, <2>2 DEF RxState
<1>5. ASSUME NEW p \in Rx!Packet, RxProof!GoodFrame(piece, p) PROVE RxState'
  <2>1. leaked' = 0 /\ retval' = TRUE
    BY <1>5 DEF RxProof!GoodFrame, RxProof!RxSuccess
  <2>2. CASE RxProof!PacketFits(p)
    <3>1. RxProof!Accepts(piece) /\ p \in RxProof!Packet
      BY SameReceiver
    <3>2. RxProof!Inv'
      BY <1>1, <1>5, <2>2, <3>1, RxAssumptions, RxProof!PacketInv DEF RxProof!PacketInv
    <3> QED
      BY <1>2, <2>1, <3>2 DEF RxState
  <2>3. CASE ~RxProof!PacketFits(p)
    <3>1. overrun' = TRUE
      BY <1>5, <2>3 DEF RxProof!GoodFrame
    <3>2. /\ RxProof!Bounded /\ RxProof!Accepts(piece)
          /\ RxProof!StartNextFrame /\ RxProof!RxSuccess
      BY <1>1, <1>5, SameReceiver DEF RxProof!Inv, RxProof!GoodFrame
    <3>3. /\ rx_buffer' \in [0..RX_SIZE-1 -> Byte]
          /\ p_rx_buffer' \in 0..RX_SIZE /\ rx_buffer_remaining' \in 0..RX_SIZE
          /\ arrived' \in Seq(Byte) /\ leaked' \in Nat
          /\ RxProof!RoomAccounted' /\ RxProof!RxBufferFaithful'
      BY <3>2, RxAssumptions, RxProof!FrameEndInv DEF RxProof!FrameEndInv
    <3>4. RxRoom'
      BY <3>3, ReceiverAssumption DEF RxRoom
    <3> QED
      BY <2>1, <3>1, <3>4 DEF RxState
  <2> QED
    BY <2>2, <2>3
<1> QED
  BY <1>3, <1>4, <1>5

\* A completed frame is taken off the line and its entry off on_line.
LEMMA FrameTaken ==
  ASSUME RxRoom, on_line \in Seq(Outcomes),
         NEW frames \in Seq(LineFrame), frames # <<>>,
         NEW at \in [1..Len(frames) + 1 -> Nat], Framed(frames, at), Carries(frames, on_line),
         NEW len \in 1..Len(line), Len(arrived) + len = at[2],
         arrived' = <<>>, line' = SubSeq(line, len + 1, Len(line)), on_line' = Tail(on_line)
  PROVE  line' \in Seq(Byte) /\ LineCarries'
<1> DEFINE rest == [k \in 1..Len(frames) |-> at[k + 1] - at[2]]
<1>1. 1 \in 1..Len(frames) /\ line \in Seq(Byte) /\ arrived \in Seq(Byte)
  BY DEF RxRoom
<1>2. /\ Tail(frames) \in Seq(LineFrame) /\ Len(Tail(frames)) + 1 = Len(frames)
      /\ \A k \in 1..Len(Tail(frames)) : Tail(frames)[k] = frames[k + 1]
      /\ rest \in [1..Len(Tail(frames)) + 1 -> Nat]
      /\ line' \in Seq(Byte) /\ Framed(Tail(frames), rest)'
  BY <1>1, FramedTail
<1> HIDE DEF rest
<1>3. PICK t, r : t = Tail(frames) /\ r = Tail(on_line)
  OBVIOUS
<1>4. /\ t \in Seq(LineFrame) /\ rest \in [1..Len(t) + 1 -> Nat] /\ Framed(t, rest)'
      /\ Len(t) + 1 = Len(frames) /\ \A k \in 1..Len(t) : t[k] = frames[k + 1]
  BY <1>2, <1>3
<1>5. Len(on_line) = Len(frames) /\ \A k \in 1..Len(frames) : on_line[k] = Decode(frames[k])
  BY DEF Carries
<1>6. Len(r) = Len(t) /\ \A k \in 1..Len(t) : r[k] = on_line[k + 1]
  BY <1>1, <1>3, <1>4, <1>5
<1>7. \A k \in 1..Len(t) : r[k] = Decode(t[k])
  <2> SUFFICES ASSUME NEW k \in 1..Len(t) PROVE r[k] = Decode(t[k])
    OBVIOUS
  <2>1. k + 1 \in 1..Len(frames)
    BY <1>4
  <2> QED
    BY <1>4, <1>5, <1>6, <2>1
<1>8. Carries(t, on_line)'
  BY <1>3, <1>6, <1>7 DEF Carries
<1> QED
  BY <1>2, <1>4, <1>8 DEF LineCarries

\* memcpy behind the part of packet_buffer that is in use pads what fits of it with zeros,
\* also when not all does.
LEMMA MemCpyPads ==
  ASSUME NEW s \in Seq(Byte), NEW t \in Seq(Byte),
         NEW buf \in [0..PACKET_BUFFER_SIZE-1 -> Byte], RxProof!ZeroPadded(buf, s)
  PROVE  RxProof!MemCpy(buf, Len(s), t) = Queue!Padded(s \o t)
<1> DEFINE r == RxProof!MemCpy(buf, Len(s), t)
           a == Len(s)
           n == Len(t)
           all == s \o t
<1>1. /\ a \in Nat /\ n \in Nat /\ PACKET_BUFFER_SIZE \in Nat /\ Len(all) = a + n
      /\ \A j \in 1..a : all[j] = s[j]
      /\ \A j \in a+1..a+n : all[j] = t[j - a]
  BY ReceiverAssumption
<1>2. \A k \in 0..PACKET_BUFFER_SIZE-1 : buf[k] = IF k < a THEN s[k + 1] ELSE 0
  BY DEF RxProof!ZeroPadded
<1>3. r = [k \in 0..PACKET_BUFFER_SIZE-1 |->
             IF k < a \/ k >= a + n THEN buf[k] ELSE t[k - a + 1]]
  BY DEF RxProof!MemCpy
<1> HIDE DEF r, a, n, all
<1>4. ASSUME NEW k \in 0..PACKET_BUFFER_SIZE-1
      PROVE  r[k] = IF k < Len(all) THEN all[k + 1] ELSE 0
  <2>1. CASE k < a
    <3>1. r[k] = s[k + 1] /\ all[k + 1] = s[k + 1] /\ k < Len(all)
      BY <1>1, <1>2, <1>3, <2>1
    <3> QED
      BY <3>1
  <2>2. CASE k >= a /\ k < a + n
    <3>1. k + 1 \in a+1..a+n /\ (k + 1) - a = k - a + 1
      BY <1>1, <2>2
    <3>2. r[k] = t[k - a + 1] /\ all[k + 1] = t[k - a + 1]
      BY <1>1, <1>3, <2>2, <3>1
    <3> QED
      BY <1>1, <2>2, <3>2
  <2>3. CASE k >= a + n
    <3>1. r[k] = 0 /\ ~(k < Len(all))
      BY <1>1, <1>2, <1>3, <2>3
    <3> QED
      BY <3>1
  <2> QED
    BY <1>1, <2>1, <2>2, <2>3
<1>5. r = [k \in 0..PACKET_BUFFER_SIZE-1 |-> IF k < Len(all) THEN all[k + 1] ELSE 0]
  BY <1>3, <1>4
<1> QED
  BY <1>5 DEF Queue!Padded, r, all, a

\* packet_parser() puts the packet's data behind what packet_buffer holds of the message,
\* or hands all of it over and starts the next message.
LEMMA PacketTaken ==
  ASSUME RxProof!Inv, NEW piece, NEW p \in Rx!Packet, Rx!GoodFrame(piece, p)
  PROVE  /\ p.data \in Seq(Byte) /\ assembled \in Seq(Byte)
         /\ Rx!EndsMessage(p) =>
              assembled' = <<>> /\ payload' = Queue!Padded(assembled \o p.data)
         /\ ~Rx!EndsMessage(p) => assembled' = assembled \o p.data /\ payload' = payload
<1>1. p.data \in Seq(Byte)
  BY DEF Rx!Packet
<1>2. /\ assembled \in Seq(Byte) /\ packet_buffer \in [0..PACKET_BUFFER_SIZE-1 -> Byte]
      /\ packet_buffer_offset = Len(assembled) /\ RxProof!ZeroPadded(packet_buffer, assembled)
  BY DEF RxProof!Inv, RxProof!Bounded, RxProof!TypeOK, RxProof!PacketBufferFaithful
<1>3. Rx!Extended(p) = Queue!Padded(assembled \o p.data)
  <2>1. RxProof!MemCpy(packet_buffer, Len(assembled), p.data) = Queue!Padded(assembled \o p.data)
    BY <1>1, <1>2, MemCpyPads
  <2> QED
    BY <1>2, <2>1, SameReceiver, Zenon DEF RxProof!Extended
<1>4. CASE Rx!EndsMessage(p)
  BY <1>1, <1>2, <1>3, <1>4
     DEF Rx!GoodFrame, Rx!packet_parser, Rx!KeepPacket, Rx!HandOver, Rx!ClearPacketBuffer
<1>5. CASE ~Rx!EndsMessage(p)
  BY <1>1, <1>2, <1>5
     DEF Rx!GoodFrame, Rx!packet_parser, Rx!KeepPacket, Rx!HandOver, Rx!upVars
<1> QED
  BY <1>4, <1>5

\* A piece without delimiter leaves the frames as they are.
LEMMA LineStored ==
  ASSUME RxRoom, LineCarries,
         NEW len \in 1..Len(line), \A j \in 1..len-1 : line[j] # 0, line[len] # 0,
         NEW piece, piece = SubSeq(line, 1, len),
         Rx!StoreChunk(piece), line' = SubSeq(line, Len(piece) + 1, Len(line)),
         on_line' = on_line
  PROVE  /\ line' \in Seq(Byte) /\ LineCarries'
         /\ \A j \in 1..Len(arrived') : arrived'[j] # 0
<1>1. PICK frames \in Seq(LineFrame) :
        \E at \in [1..Len(frames) + 1 -> Nat] : Framed(frames, at) /\ Carries(frames, on_line)
  BY DEF LineCarries
<1>2. PICK at \in [1..Len(frames) + 1 -> Nat] : Framed(frames, at) /\ Carries(frames, on_line)
  BY <1>1
<1>3. /\ line \in Seq(Byte) /\ arrived \in Seq(Byte) /\ \A j \in 1..Len(arrived) : arrived[j] # 0
  BY DEF RxRoom
<1>4. /\ line' \in Seq(Byte) /\ \A j \in 1..Len(arrived') : arrived'[j] # 0
      /\ Framed(frames, at)'
  BY <1>2, <1>3, StoreFramed
<1>5. Carries(frames, on_line)'
  BY <1>2 DEF Carries
<1> QED
  BY <1>4, <1>5 DEF LineCarries

\* What the line carries is a matter of its bytes and those that have arrived.
LEMMA LineUnchanged ==
  ASSUME LineCarries, UNCHANGED <<line, arrived, on_line>>
  PROVE  LineCarries'
<1>1. PICK frames \in Seq(LineFrame) :
        \E at \in [1..Len(frames) + 1 -> Nat] : Framed(frames, at) /\ Carries(frames, on_line)
  BY DEF LineCarries
<1>2. PICK at \in [1..Len(frames) + 1 -> Nat] : Framed(frames, at) /\ Carries(frames, on_line)
  BY <1>1
<1>3. Framed(frames, at)' /\ Carries(frames, on_line)'
  BY <1>2 DEF Framed, Stream, Carries
<1> QED
  BY <1>3 DEF LineCarries

\* A frame is written behind the others.
LEMMA LineAppended ==
  ASSUME RxRoom, on_line \in Seq(Outcomes), LineCarries,
         NEW e \in LineFrame, line' = line \o (e \o << 0 >>), arrived' = arrived,
         on_line' = Append(on_line, Decode(e))
  PROVE  line' \in Seq(Byte) /\ LineCarries'
<1>1. PICK frames \in Seq(LineFrame) :
        \E at \in [1..Len(frames) + 1 -> Nat] : Framed(frames, at) /\ Carries(frames, on_line)
  BY DEF LineCarries
<1>2. PICK at \in [1..Len(frames) + 1 -> Nat] : Framed(frames, at) /\ Carries(frames, on_line)
  BY <1>1
<1>3. line \in Seq(Byte) /\ arrived \in Seq(Byte)
  BY DEF RxRoom
<1>4. PICK more \in [1..Len(frames) + 2 -> Nat] :
        line' \in Seq(Byte) /\ Framed(Append(frames, e), more)'
  BY <1>2, <1>3, FramedMore
<1>5. PICK t, r : t = Append(frames, e) /\ r = Append(on_line, Decode(e))
  OBVIOUS
<1>6. /\ t \in Seq(LineFrame) /\ Len(t) + 1 = Len(frames) + 2 /\ Len(t) = Len(frames) + 1
      /\ Len(frames) \in Nat
      /\ \A k \in 1..Len(frames) : t[k] = frames[k]
      /\ t[Len(frames) + 1] = e
  BY <1>5
<1>7. Len(on_line) = Len(frames) /\ \A k \in 1..Len(frames) : on_line[k] = Decode(frames[k])
  BY <1>2 DEF Carries
<1>8. /\ Len(r) = Len(on_line) + 1 /\ \A k \in 1..Len(on_line) : r[k] = on_line[k]
      /\ r[Len(on_line) + 1] = Decode(e)
  BY <1>5
<1>9. ASSUME NEW k \in 1..Len(t) PROVE r[k] = Decode(t[k])
  <2>1. CASE k \in 1..Len(frames)
    BY <1>6, <1>7, <1>8, <2>1
  <2>2. CASE k = Len(frames) + 1
    BY <1>6, <1>7, <1>8, <2>2
  <2> QED
    BY <1>6, <2>1, <2>2
<1>10. Carries(t, on_line)'
  BY <1>5, <1>6, <1>7, <1>8, <1>9 DEF Carries
<1>11. more \in [1..Len(t) + 1 -> Nat] /\ Framed(t, more)'
  BY <1>4, <1>5, <1>6
<1> QED
  BY <1>4, <1>6, <1>10, <1>11 DEF LineCarries


-----------------------------------------------------------------------------
(* What the receiver will have, step by step. *)

\* A step that leaves all of this alone.
LEMMA OwedUnchanged ==
  ASSUME PacketsOwed,
         UNCHANGED <<assembled, on_line, promised, buffer, buffer_offset, intact, ended>>,
         Tx!InLoop' <=> Tx!InLoop
  PROVE  PacketsOwed'
<1>1. PICK had \in [1..Len(on_line) + 1 -> Owing] :
        Collects(assembled, on_line, promised, had) /\ SentOn(had[Len(on_line) + 1])
  BY DEF PacketsOwed
<1>2. PICK s, q, o : s = assembled /\ q = on_line /\ o = promised
  OBVIOUS
<1>3. Collects(s, q, o, had)
  BY <1>1, <1>2
<1>4. Collects(assembled, on_line, promised, had)'
  <2>1. Collects(assembled', on_line', promised', had)
    BY <1>2, <1>3, Zenon
  <2> QED
    BY <2>1 DEF Collects, Follows, Only, GoesOn, Ends, Rx!EndsMessage, Rx!Packet, Rx!Flag
<1>5. SentOn(had[Len(on_line) + 1])'
  BY <1>1 DEF SentOn, Transmitted, Tx!SentOf, Tx!data_chunk_size
<1> QED
  BY <1>4, <1>5 DEF PacketsOwed

\* The frame that process() takes, for a packet or for none, is the first one, and a message
\* that is promised with it is then complete.
LEMMA OwedTaken ==
  ASSUME LossyType, PacketsOwed, on_line # <<>>,
         on_line' = Tail(on_line), promised' = Tail(promised),
         NEW packet \in on_line[1],
         packet # NoPacket => packet.data \in Seq(Byte),
         packet = NoPacket => assembled' = assembled,
         packet # NoPacket =>
           assembled' = IF Rx!EndsMessage(packet) THEN <<>> ELSE assembled \o packet.data,
         UNCHANGED <<txVars, buffer, intact, ended>>
  PROVE  /\ LossyType' /\ PacketsOwed'
         /\ promised[1].exact => /\ packet # NoPacket /\ Rx!EndsMessage(packet)
                                 /\ promised[1].message = assembled \o packet.data
<1>1. PICK had \in [1..Len(on_line) + 1 -> Owing] :
        Collects(assembled, on_line, promised, had) /\ SentOn(had[Len(on_line) + 1])
  BY DEF PacketsOwed
<1>2. PICK s, q, o, s2 : s = assembled /\ q = on_line /\ o = promised /\ s2 = assembled'
  OBVIOUS
<1>3. /\ s \in Seq(Byte) /\ q \in Seq(Outcomes) /\ q # <<>> /\ Len(q) \in Nat \ {0}
      /\ o \in Seq(Owing) /\ Len(o) = Len(q)
      /\ had \in [1..Len(q) + 1 -> Owing] /\ Collects(s, q, o, had)
      /\ SentOn(had[Len(q) + 1])
  BY <1>1, <1>2 DEF LossyType
<1>4. Follows(q[1], o[1], had[1], had[2]) /\ (had[1].exact => had[1].message = s)
  <2>1. 1 \in 1..Len(q) /\ 1 + 1 = 2
    BY <1>3
  <2>2. Follows(q[1], o[1], had[1], had[1 + 1])
    BY <1>3, <2>1 DEF Collects
  <2> QED
    BY <1>3, <2>1, <2>2 DEF Collects
<1>5. /\ had[2].exact => packet # NoPacket /\ GoesOn(packet, had[1], had[2])
      /\ o[1].exact => packet # NoPacket /\ Ends(packet, had[1], o[1])
  BY <1>2, <1>4, Taken
<1>6. had[2].exact => had[2].message = s2
  BY <1>2, <1>4, <1>5, Zenon DEF GoesOn
<1>7. o[1].exact => /\ packet # NoPacket /\ Rx!EndsMessage(packet)
                    /\ o[1].message = s \o packet.data
  BY <1>4, <1>5, Zenon DEF Ends
<1>8. s2 \in Seq(Byte)
  <2>1. CASE packet = NoPacket
    BY <1>2, <1>3, <2>1
  <2>2. CASE packet # NoPacket
    <3>1. packet.data \in Seq(Byte) /\ s \o packet.data \in Seq(Byte) /\ <<>> \in Seq(Byte)
      BY <1>3, <2>2
    <3> QED
      BY <1>2, <2>2, <3>1
  <2> QED
    BY <2>1, <2>2
<1>9. /\ Tail(q) \in Seq(Outcomes) /\ Tail(o) \in Seq(Owing)
      /\ Len(Tail(q)) = Len(q) - 1 /\ Len(Tail(o)) = Len(q) - 1
      /\ Len(Tail(q)) + 1 = Len(q)
  BY <1>3
<1>10. LossyType'
  BY <1>2, <1>8, <1>9 DEF LossyType
<1>11. PICK rest \in [1..Len(q) -> Owing] :
         Collects(s2, Tail(q), Tail(o), rest) /\ rest[Len(q)] = had[Len(q) + 1]
  <2>1. MayCollect(s2, Tail(q), Tail(o), Len(q), had[Len(q) + 1])
    BY <1>3, <1>6, CollectsTail, Zenon
  <2> QED
    BY <2>1 DEF MayCollect
<1>12. SentOn(rest[Len(q)])'
  <2>1. Tx!InLoop' <=> Tx!InLoop
    BY DEF txVars, Tx!InLoop, Tx!total_chunks, Tx!Chunks, Tx!data_chunk_size
  <2> QED
    BY <1>3, <1>11, <2>1 DEF txVars, SentOn, Transmitted, Tx!SentOf, Tx!data_chunk_size
<1>13. PICK t, u : t = Tail(q) /\ u = Tail(o)
  OBVIOUS
<1>14. t = on_line' /\ u = promised' /\ s2 = assembled'
  BY <1>2, <1>13
<1>15. Collects(assembled, on_line, promised, rest)'
  <2>1. Collects(assembled', on_line', promised', rest)
    BY <1>11, <1>13, <1>14, Zenon
  <2> QED
    BY <2>1 DEF Collects, Follows, Only, GoesOn, Ends, Rx!EndsMessage, Rx!Packet, Rx!Flag
<1>16. PacketsOwed'
  BY <1>9, <1>12, <1>13, <1>14, <1>15 DEF PacketsOwed
<1> QED
  BY <1>2, <1>7, <1>10, <1>16

\* send() has another packet to build unless it has built the last one.
LEMMA LoopGoesOn ==
  ASSUME TxProof!Inv, Sending, NEW ok \in BOOLEAN, Tx!TransmitPacket(ok)
  PROVE  /\ Tx!InLoop /\ buffer_offset' = Tx!NextOffset
         /\ Tx!InLoop' <=> ~EndsSending
<1>1. /\ Tx!InLoop /\ i' = i + 1 /\ pc' = pc /\ size' = size /\ buffer_offset' = Tx!NextOffset
  BY DEF Tx!TransmitPacket
<1>2. EndsSending <=> i + 1 = Tx!total_chunks
  BY <1>1, BuiltFacts DEF EndsSending, Rx!EndsMessage
<1>3. Tx!InLoop' <=> i + 1 < Tx!total_chunks
  <2>1. Tx!total_chunks' = Tx!total_chunks
    BY <1>1 DEF Tx!total_chunks, Tx!Chunks, Tx!data_chunk_size
  <2> QED
    BY <1>1, <2>1 DEF Tx!InLoop
<1>4. i \in Nat /\ i < Tx!total_chunks /\ Tx!total_chunks \in Nat
  <2>1. i \in Nat /\ i < Tx!total_chunks /\ buffer \in Message /\ size = Len(buffer)
    BY <1>1 DEF Tx!InLoop, Sending, TxProof!Inv, TxProof!TypeOK
  <2> QED
    BY <2>1, SomeChunk DEF Tx!total_chunks
<1> QED
  BY <1>1, <1>2, <1>3, <1>4

\* Another frame on the line.
LEMMA OwedMore ==
  ASSUME LossyType, NEW had \in [1..Len(on_line) + 1 -> Owing],
         Collects(assembled, on_line, promised, had),
         NEW entry \in Outcomes, NEW promise \in Owing, NEW h \in Owing,
         Follows(entry, promise, had[Len(on_line) + 1], h), SentOn(h)',
         on_line' = Append(on_line, entry), promised' = Append(promised, promise),
         assembled' = assembled, intact' \in BOOLEAN, ended' \in BOOLEAN
  PROVE  LossyType' /\ PacketsOwed'
<1>1. PICK s, q, o : s = assembled /\ q = on_line /\ o = promised
  OBVIOUS
<1>2. /\ s \in Seq(Byte) /\ q \in Seq(Outcomes) /\ o \in Seq(Owing) /\ Len(o) = Len(q)
      /\ had \in [1..Len(q) + 1 -> Owing] /\ Collects(s, q, o, had)
      /\ entry \in Outcomes /\ promise \in Owing /\ h \in Owing
      /\ Follows(entry, promise, had[Len(q) + 1], h)
  BY <1>1 DEF LossyType
<1>3. PICK more \in [1..Len(q) + 2 -> Owing] :
        /\ Collects(s, Append(q, entry), Append(o, promise), more)
        /\ more[Len(q) + 2] = h
  <2>1. MayCollect(s, Append(q, entry), Append(o, promise), Len(q) + 2, h)
    BY <1>2, CollectsMore, Zenon
  <2> QED
    BY <2>1 DEF MayCollect
<1>4. PICK t, u : t = Append(q, entry) /\ u = Append(o, promise)
  OBVIOUS
<1>5. /\ t \in Seq(Outcomes) /\ Len(t) = Len(q) + 1 /\ Len(t) + 1 = Len(q) + 2
      /\ u \in Seq(Owing) /\ Len(u) = Len(t)
  BY <1>2, <1>4
<1>6. t = on_line' /\ u = promised' /\ s = assembled'
  BY <1>1, <1>4
<1>7. LossyType'
  BY <1>2, <1>5, <1>6 DEF LossyType
<1>8. Collects(assembled, on_line, promised, more)'
  <2>1. Collects(assembled', on_line', promised', more)
    BY <1>3, <1>4, <1>6, Zenon
  <2> QED
    BY <2>1 DEF Collects, Follows, Only, GoesOn, Ends, Rx!EndsMessage, Rx!Packet, Rx!Flag
<1>9. PacketsOwed'
  <2>1. more[Len(t) + 1] = h /\ more \in [1..Len(t) + 1 -> Owing]
    BY <1>3, <1>5
  <2> QED
    BY <1>6, <1>8, <2>1 DEF PacketsOwed
<1> QED
  BY <1>7, <1>9

\* A part of a sequence that goes on where a beginning of it ends.
LEMMA BeginningGoesOn ==
  ASSUME NEW t \in Seq(Byte), NEW a \in Nat, NEW d \in Seq(Byte), a + Len(d) <= Len(t),
         \A j \in 1..Len(d) : d[j] = t[a + j]
  PROVE  /\ SubSeq(t, 1, a) \in Seq(Byte) /\ SubSeq(t, 1, a + Len(d)) \in Seq(Byte)
         /\ SubSeq(t, 1, a) \o d = SubSeq(t, 1, a + Len(d))
<1> DEFINE x == SubSeq(t, 1, a)
           y == SubSeq(t, 1, a + Len(d))
           z == x \o d
<1>1. Len(d) \in Nat /\ Len(t) \in Nat /\ a <= Len(t)
  OBVIOUS
<1>2. x \in Seq(Byte) /\ Len(x) = a /\ \A j \in 1..a : x[j] = t[j]
  BY <1>1
<1>3. y \in Seq(Byte) /\ Len(y) = a + Len(d) /\ \A j \in 1..a + Len(d) : y[j] = t[j]
  BY <1>1
<1> HIDE DEF x, y
<1>4. /\ z \in Seq(Byte) /\ Len(z) = a + Len(d)
      /\ \A j \in 1..a : z[j] = x[j]
      /\ \A j \in a+1..a+Len(d) : z[j] = d[j - a]
  BY <1>1, <1>2
<1> HIDE DEF z
<1>5. ASSUME NEW j \in 1..a + Len(d) PROVE z[j] = y[j]
  <2>1. CASE j \in 1..a
    BY <1>2, <1>3, <1>4, <2>1
  <2>2. CASE j \in a+1..a+Len(d)
    <3>1. j - a \in 1..Len(d) /\ a + (j - a) = j
      BY <1>1, <2>2
    <3> QED
      BY <1>3, <1>4, <2>2, <3>1
  <2> QED
    BY <1>1, <2>1, <2>2
<1>6. z = y
  BY <1>3, <1>4, <1>5, SeqEqual
<1> QED
  BY <1>2, <1>3, <1>6 DEF x, y, z

\* With the whole message the receiver has it, before the first byte it has nothing.
LEMMA WholeAndNothing == \A t \in Seq(Byte) : SubSeq(t, 1, Len(t)) = t /\ SubSeq(t, 1, 0) = <<>>
<1> SUFFICES ASSUME NEW t \in Seq(Byte) PROVE SubSeq(t, 1, Len(t)) = t /\ SubSeq(t, 1, 0) = <<>>
  OBVIOUS
<1>1. Len(t) \in Nat
  OBVIOUS
<1> DEFINE x == SubSeq(t, 1, Len(t))
<1>2. x \in Seq(Byte) /\ Len(x) = Len(t) /\ \A j \in 1..Len(t) : x[j] = t[j]
  BY <1>1
<1> HIDE DEF x
<1>3. x = t
  BY <1>2, SeqEqual
<1>4. SubSeq(t, 1, 0) = <<>>
  BY <1>1
<1> QED
  BY <1>3, <1>4 DEF x

\* The packet that is sent goes on with its message, or ends it.
LEMMA OwedSent ==
  ASSUME TxProof!Inv, Sending, LossyType, PacketsOwed, TransmitWhole
  PROVE  LossyType' /\ PacketsOwed'
<1>1. PICK had \in [1..Len(on_line) + 1 -> Owing] :
        Collects(assembled, on_line, promised, had) /\ SentOn(had[Len(on_line) + 1])
  BY DEF PacketsOwed
<1>2. PICK p, t, last : /\ p = [data |-> Built.data, flag |-> Built.flag]
                        /\ t = Transmitted(buffer) /\ last = had[Len(on_line) + 1]
  OBVIOUS
<1>3. /\ Tx!InLoop /\ buffer_offset' = Tx!NextOffset
      /\ Tx!InLoop' <=> ~EndsSending
  BY LoopGoesOn DEF TransmitWhole
<1>4. /\ Built \in LinkPacket /\ Survives(Built) /\ buffer \in Message
      /\ buffer_offset \in Nat /\ Tx!NextOffset = buffer_offset + Len(Built.data)
      /\ Tx!NextOffset <= Len(t)
      /\ \A j \in 1..Len(Built.data) : Built.data[j] = t[buffer_offset + j]
      /\ EndsSending => Tx!NextOffset = Len(t)
  BY <1>2, <1>3, BuiltFacts DEF EndsSending, Rx!EndsMessage
<1>5. /\ p \in Rx!Packet /\ p.data = Built.data /\ Built.data \in Seq(Byte)
      /\ Rx!EndsMessage(p) <=> EndsSending
  BY <1>2, <1>4 DEF LinkPacket, Rx!Packet, Rx!EndsMessage, EndsSending
<1>6. p # NoPacket
  BY <1>2, <1>4 DEF Survives
<1>7. t \in Seq(Byte)
  BY <1>2, <1>4, TransmittedFacts
<1>8. /\ on_line' = Append(on_line, {p})
      /\ promised' = Append(promised, IF EndsSending THEN Promise ELSE Spoilt)
      /\ ended' = (ended \/ EndsSending)
      /\ UNCHANGED <<assembled, buffer, intact>>
  BY <1>2 DEF TransmitWhole, PutOnLine, rxVars
<1>9. PICK b, c : b = SubSeq(t, 1, buffer_offset) /\ c = SubSeq(t, 1, Tx!NextOffset)
  OBVIOUS
<1>10. b \in Seq(Byte) /\ c \in Seq(Byte) /\ b \o p.data = c /\ (EndsSending => c = t)
  <2>1. /\ SubSeq(t, 1, buffer_offset) \in Seq(Byte)
        /\ SubSeq(t, 1, buffer_offset + Len(p.data)) \in Seq(Byte)
        /\ SubSeq(t, 1, buffer_offset) \o p.data = SubSeq(t, 1, buffer_offset + Len(p.data))
    BY <1>4, <1>5, <1>7, BeginningGoesOn
  <2>2. EndsSending => c = t
    BY <1>4, <1>7, <1>9, WholeAndNothing
  <2> QED
    BY <1>4, <1>5, <1>9, <2>1, <2>2
<1>11. intact /\ ended => last.exact /\ last.message = b
  BY <1>1, <1>2, <1>3, <1>9 DEF SentOn
<1>12. Only({p}, p) /\ {p} \in Outcomes
  BY <1>5, <1>6 DEF Only, Outcomes
<1>13. Transmitted(buffer)' = t
  BY <1>2, <1>8 DEF Transmitted
<1>14. /\ intact' \in BOOLEAN /\ ended' \in BOOLEAN
  <2>1. intact \in BOOLEAN /\ ended \in BOOLEAN /\ EndsSending \in BOOLEAN
    BY DEF LossyType, EndsSending
  <2> QED
    BY <1>8, <2>1
<1>15. CASE EndsSending
  <2>1. PICK h, promise : h = Exactly(<< >>) /\ promise = Promise
    OBVIOUS
  <2>2. h \in Owing /\ h.exact /\ h.message = <<>>
    <3>1. <<>> \in Seq(Byte)
      OBVIOUS
    <3> QED
      BY <2>1, <3>1, ExactFacts
  <2>3. promise \in Owing /\ (promise.exact => intact /\ ended /\ promise.message = t)
    <3>1. Exactly(t) \in Owing /\ Exactly(t).message = t
      BY <1>7, ExactFacts
    <3>2. promise = IF intact /\ ended THEN Exactly(t) ELSE Spoilt
      BY <1>2, <2>1 DEF Promise, Exactly
    <3> QED
      BY <3>1, <3>2, SpoiltFacts
  <2>4. Follows({p}, promise, last, h)
    <3>1. GoesOn(p, last, h)
      BY <1>5, <1>15, <2>2 DEF GoesOn
    <3>2. promise.exact => Ends(p, last, promise)
      BY <1>5, <1>10, <1>11, <1>15, <2>3 DEF Ends
    <3> QED
      BY <1>12, <3>1, <3>2, Zenon DEF Follows
  <2>5. SentOn(h)'
    BY <1>3, <1>15, <2>2 DEF SentOn
  <2>6. promised' = Append(promised, promise)
    BY <1>8, <1>15, <2>1
  <2> QED
    BY <1>1, <1>2, <1>8, <1>12, <1>14, <2>2, <2>3, <2>4, <2>5, <2>6, OwedMore
<1>16. CASE ~EndsSending
  <2>1. PICK h, promise :
          h = (IF intact /\ ended THEN Exactly(c) ELSE Spoilt) /\ promise = Spoilt
    OBVIOUS
  <2>2. h \in Owing /\ (h.exact <=> intact /\ ended) /\ (h.exact => h.message = c)
    BY <1>10, <2>1, ExactFacts, SpoiltFacts
  <2>3. promise \in Owing /\ ~promise.exact
    BY <2>1, SpoiltFacts
  <2>4. Follows({p}, promise, last, h)
    <3>1. h.exact => GoesOn(p, last, h)
      BY <1>5, <1>10, <1>11, <1>16, <2>2 DEF GoesOn
    <3> QED
      BY <1>12, <2>3, <3>1, Zenon DEF Follows
  <2>5. SentOn(h)'
    <3>1. Tx!InLoop' /\ (intact' <=> intact) /\ (ended' <=> ended)
      BY <1>3, <1>8, <1>16
    <3>2. c = SubSeq(Transmitted(buffer), 1, buffer_offset)'
      BY <1>3, <1>9, <1>13
    <3> QED
      BY <2>2, <3>1, <3>2 DEF SentOn
  <2>6. promised' = Append(promised, promise)
    BY <1>8, <1>16, <2>1
  <2> QED
    BY <1>1, <1>2, <1>8, <1>12, <1>14, <2>2, <2>3, <2>4, <2>5, <2>6, OwedMore
<1> QED
  BY <1>15, <1>16

\* What follows a frame that is hit is uncertain until a message ends.
LEMMA HitUncertain ==
  ASSUME TxProof!Inv, Sending, NEW ok \in BOOLEAN, Tx!TransmitPacket(ok), Hit, ended \in BOOLEAN
  PROVE  intact' \in BOOLEAN /\ ended' \in BOOLEAN /\ \A h : SentOn(h)'
<1>1. intact' = FALSE /\ ended' = (ended /\ ~EndsSending)
  BY DEF Hit
<1>2. Tx!InLoop' <=> ~EndsSending
  BY LoopGoesOn
<1>3. intact' \in BOOLEAN /\ ended' \in BOOLEAN
  BY <1>1
<1>4. ASSUME NEW h PROVE SentOn(h)'
  BY <1>1, <1>2 DEF SentOn
<1> QED
  BY <1>3, <1>4

\* A damaged frame may be taken for anything.
LEMMA OwedDamaged ==
  ASSUME TxProof!Inv, Sending, LossyType, PacketsOwed, DamageFrame
  PROVE  LossyType' /\ PacketsOwed'
<1>1. PICK had \in [1..Len(on_line) + 1 -> Owing] :
        Collects(assembled, on_line, promised, had) /\ SentOn(had[Len(on_line) + 1])
  BY DEF PacketsOwed
<1>2. Tx!TransmitPacket(TRUE) /\ Hit /\ Tx!InLoop
  BY DEF DamageFrame, Tx!TransmitPacket
<1>3. PICK bytes \in Damaged(Encode(Built)) : PutOnLine(bytes \o <<0>>, Decode(bytes), Spoilt)
  BY DEF DamageFrame
<1>4. PICK entry : entry = Decode(bytes)
  OBVIOUS
<1>5. entry \in Outcomes
  BY <1>2, <1>4, DamageFacts DEF Outcomes
<1>6. /\ on_line' = Append(on_line, entry) /\ promised' = Append(promised, Spoilt)
      /\ assembled' = assembled
  BY <1>2, <1>3, <1>4 DEF PutOnLine, Hit, rxVars
<1>7. intact' \in BOOLEAN /\ ended' \in BOOLEAN /\ SentOn(Spoilt)'
  BY <1>2, HitUncertain DEF LossyType
<1>8. Follows(entry, Spoilt, had[Len(on_line) + 1], Spoilt)
  BY SpoiltFacts DEF Follows
<1> QED
  BY <1>1, <1>5, <1>6, <1>7, <1>8, SpoiltFacts, OwedMore

\* Nor does the receiver have what follows a frame that does not reach the line.
LEMMA OwedLost ==
  ASSUME TxProof!Inv, Sending, LossyType, PacketsOwed,
         NEW ok \in BOOLEAN, Tx!TransmitPacket(ok), Hit,
         UNCHANGED <<assembled, on_line, promised>>
  PROVE  LossyType' /\ PacketsOwed'
<1>1. PICK had \in [1..Len(on_line) + 1 -> Owing] :
        Collects(assembled, on_line, promised, had) /\ SentOn(had[Len(on_line) + 1])
  BY DEF PacketsOwed
<1>2. intact' \in BOOLEAN /\ ended' \in BOOLEAN /\ \A h : SentOn(h)'
  BY HitUncertain DEF LossyType
<1>3. PICK h : h = had[Len(on_line) + 1]
  OBVIOUS
<1>4. SentOn(h)'
  BY <1>2
<1>5. SentOn(had[Len(on_line) + 1])'
  BY <1>3, <1>4
<1>6. Collects(assembled, on_line, promised, had)'
  <2>1. Collects(assembled', on_line', promised', had)
    BY <1>1
  <2> QED
    BY <2>1 DEF Collects, Follows, Only, GoesOn, Ends, Rx!EndsMessage, Rx!Packet, Rx!Flag
<1> QED
  BY <1>2, <1>5, <1>6 DEF LossyType, PacketsOwed

\* A new message starts where the one before it ended, if the frame that ends it was not hit.
LEMMA OwedAnnounced ==
  ASSUME LossyType, PacketsOwed, NEW m \in Message, LossySend(m)
  PROVE  PacketsOwed'
<1>1. PICK had \in [1..Len(on_line) + 1 -> Owing] :
        Collects(assembled, on_line, promised, had) /\ SentOn(had[Len(on_line) + 1])
  BY DEF PacketsOwed
<1>2. /\ ~Tx!InLoop /\ pc' = "loop" /\ i' = 0 /\ size' = Len(m) /\ buffer_offset' = 0
      /\ buffer' = m /\ intact' = TRUE
      /\ UNCHANGED <<assembled, on_line, promised, ended>>
  BY DEF LossySend, Tx!send, Tx!InLoop, rxVars
<1>3. Tx!InLoop'
  <2>1. Tx!total_chunks' = Tx!Chunks(Len(m))
    BY <1>2 DEF Tx!total_chunks, Tx!Chunks, Tx!data_chunk_size
  <2> QED
    BY <1>2, <2>1, SomeChunk DEF Tx!InLoop
<1>4. PICK last : last = had[Len(on_line) + 1]
  OBVIOUS
<1>5. ended => last.exact /\ last.message = <<>>
  BY <1>1, <1>2, <1>4 DEF SentOn
<1>6. SubSeq(Transmitted(buffer), 1, buffer_offset)' = <<>>
  <2>1. Transmitted(m) \in Seq(Byte)
    BY TransmittedFacts
  <2>2. SubSeq(Transmitted(m), 1, 0) = <<>>
    BY <2>1, WholeAndNothing
  <2> QED
    BY <1>2, <2>2 DEF Transmitted
<1>7. SentOn(last)'
  BY <1>2, <1>3, <1>5, <1>6 DEF SentOn
<1>8. SentOn(had[Len(on_line) + 1])'
  BY <1>2, <1>4, <1>7
<1>9. Collects(assembled, on_line, promised, had)'
  <2>1. Collects(assembled', on_line', promised', had)
    BY <1>1, <1>2
  <2> QED
    BY <2>1 DEF Collects, Follows, Only, GoesOn, Ends, Rx!EndsMessage, Rx!Packet, Rx!Flag
<1> QED
  BY <1>2, <1>8, <1>9 DEF PacketsOwed

\* At the start nothing is owed and nothing is on the line.
LEMMA LossyInitInv == LossyInit => LossyInv
<1> SUFFICES ASSUME LossyInit PROVE LossyInv
  OBVIOUS
<1>1. TxProof!Inv
  BY LossySenderInv
<1>2. RxProof!Inv
  <2>1. RxProof!Init
    BY DEF LossyInit, Init, Rx!Init, RxProof!Init, Rx!Zeroed, RxProof!Zeroed
  <2> QED
    BY <2>1, RxAssumptions, RxProof!InitInv DEF RxProof!InitInv
<1>3. /\ line = <<>> /\ arrived = <<>> /\ assembled = <<>> /\ on_line = <<>> /\ promised = <<>>
      /\ pc = "idle" /\ leaked = 0 /\ p_rx_buffer = 0 /\ ~failed
      /\ intact = TRUE /\ ended = TRUE /\ due = Spoilt
  BY DEF LossyInit, Init, Tx!Init, Rx!Init
<1>4. Sending /\ LossyType
  BY <1>3 DEF Sending, LossyType
<1>5. RxState
  <2>1. RxRoom
    <3>1. line \in Seq(Byte) /\ \A j \in 1..Len(arrived) : arrived[j] # 0
      BY <1>3
    <3> QED
      BY <1>2, <3>1, RoomOf
  <2> QED
    BY <1>2, <1>3, <2>1 DEF RxState
<1>6. LineCarries
  <2> DEFINE at == [k \in 1..1 |-> 0]
  <2>1. <<>> \in Seq(LineFrame) /\ Len(<<>>) = 0 /\ Len(<<>>) + 1 = 1
    OBVIOUS
  <2>2. at \in [1..1 -> Nat] /\ at[1] = 0
    OBVIOUS
  <2> HIDE DEF at
  <2>3. Stream = <<>>
    BY <1>3 DEF Stream
  <2>4. Framed(<<>>, at)
    BY <2>1, <2>2, <2>3 DEF Framed
  <2>5. Carries(<<>>, on_line)
    BY <1>3, <2>1 DEF Carries
  <2> QED
    BY <2>1, <2>2, <2>4, <2>5 DEF LineCarries
<1>7. PacketsOwed
  <2> DEFINE had == [k \in 1..1 |-> Exactly(<<>>)]
  <2>1. <<>> \in Seq(Byte)
    OBVIOUS
  <2>2. Exactly(<<>>) \in Owing /\ Exactly(<<>>).exact /\ Exactly(<<>>).message = <<>>
    BY <2>1, ExactFacts
  <2>3. had \in [1..1 -> Owing] /\ had[1].exact /\ had[1].message = <<>>
    BY <2>2
  <2> HIDE DEF had
  <2>4. Len(on_line) = 0 /\ Len(on_line) + 1 = 1
    BY <1>3
  <2>5. Collects(assembled, on_line, promised, had)
    BY <1>3, <2>3, <2>4 DEF Collects
  <2>6. ~Tx!InLoop
    BY <1>3 DEF Tx!InLoop
  <2>7. SentOn(had[1])
    BY <2>3, <2>6 DEF SentOn
  <2> QED
    BY <2>3, <2>4, <2>5, <2>7 DEF PacketsOwed
<1>8. IntactMessageExact
  BY <1>3 DEF IntactMessageExact, Spoilt
<1> QED
  BY <1>1, <1>4, <1>5, <1>6, <1>7, <1>8 DEF LossyInv


-----------------------------------------------------------------------------
(* Every step keeps the invariant. *)

\* A step of the sender leaves the receiver as it is.
LEMMA RxStateUnchanged ==
  ASSUME RxState, UNCHANGED <<rxVars, failed>>, line' \in Seq(Byte)
  PROVE  RxState'
<1>1. RxRoom'
  BY DEF RxState, RxRoom, rxVars, RxProof!RoomAccounted, RxProof!RxBufferFaithful
<1>2. ~overrun => RxProof!Inv'
  <2>1. UNCHANGED RxProof!vars
    BY DEF rxVars, RxProof!vars, RxProof!rxVars, RxProof!packetVars, RxProof!upVars
  <2> QED
    BY <2>1, RxAssumptions, RxProof!NextInv DEF RxProof!NextInv, RxState
<1> QED
  BY <1>1, <1>2 DEF RxState, rxVars

\* A packet of send() takes its place on the line, or what is left of it.
LEMMA TransmitKeeps ==
  ASSUME LossyInv, TxProof!Inv', NEW ok \in BOOLEAN, Tx!TransmitPacket(ok),
         UNCHANGED <<rxVars, buffer, failed, due>>,
         LossyType', PacketsOwed', line' \in Seq(Byte), LineCarries'
  PROVE  LossyInv'
<1>1. RxState'
  BY RxStateUnchanged DEF LossyInv
<1>2. Sending' /\ IntactMessageExact'
  BY DEF LossyInv, Sending, IntactMessageExact, Queue!Padded, Tx!TransmitPacket, rxVars
<1> QED
  BY <1>1, <1>2 DEF LossyInv

\* The frame of a packet reaches the line as it was sent.
LEMMA WholeKeeps == LossyInv /\ TxProof!Inv' /\ TransmitWhole => LossyInv'
<1> SUFFICES ASSUME LossyInv, TxProof!Inv', TransmitWhole PROVE LossyInv'
  OBVIOUS
<1>1. /\ Tx!TransmitPacket(TRUE) /\ Tx!InLoop /\ arrived' = arrived
      /\ UNCHANGED <<rxVars, buffer, failed, due>>
  BY DEF TransmitWhole, Tx!TransmitPacket, rxVars
<1>2. PICK e : e = Encode(Built)
  OBVIOUS
<1>3. e \in LineFrame /\ Decode(e) = {[data |-> Built.data, flag |-> Built.flag]}
  <2>1. Survives(Built)
    BY <1>1, BuiltFacts DEF LossyInv
  <2> QED
    BY <1>2, <2>1 DEF Survives, LineFrame
<1>4. line' = line \o (e \o <<0>>) /\ on_line' = Append(on_line, Decode(e))
  BY <1>2, <1>3 DEF TransmitWhole, PutOnLine, Encoded
<1>5. RxRoom /\ on_line \in Seq(Outcomes) /\ LineCarries
  BY DEF LossyInv, RxState, LossyType
<1>6. line' \in Seq(Byte) /\ LineCarries'
  BY <1>1, <1>3, <1>4, <1>5, LineAppended, Zenon
<1>7. LossyType' /\ PacketsOwed'
  BY OwedSent DEF LossyInv
<1> QED
  BY <1>1, <1>6, <1>7, TransmitKeeps

\* The line damages a frame.
LEMMA DamageKeeps == LossyInv /\ TxProof!Inv' /\ DamageFrame => LossyInv'
<1> SUFFICES ASSUME LossyInv, TxProof!Inv', DamageFrame PROVE LossyInv'
  OBVIOUS
<1>1. /\ Tx!TransmitPacket(TRUE) /\ Tx!InLoop /\ arrived' = arrived
      /\ UNCHANGED <<rxVars, buffer, failed, due>>
  BY DEF DamageFrame, Hit, Tx!TransmitPacket, rxVars
<1>2. PICK e \in Damaged(Encode(Built)) : PutOnLine(e \o <<0>>, Decode(e), Spoilt)
  BY DEF DamageFrame
<1>3. e \in LineFrame
  BY <1>1, <1>2, DamageFacts DEF LossyInv
<1>4. line' = line \o (e \o <<0>>) /\ on_line' = Append(on_line, Decode(e))
  BY <1>2 DEF PutOnLine
<1>5. RxRoom /\ on_line \in Seq(Outcomes) /\ LineCarries
  BY DEF LossyInv, RxState, LossyType
<1>6. line' \in Seq(Byte) /\ LineCarries'
  BY <1>1, <1>3, <1>4, <1>5, LineAppended, Zenon
<1>7. LossyType' /\ PacketsOwed'
  BY OwedDamaged DEF LossyInv
<1> QED
  BY <1>1, <1>6, <1>7, TransmitKeeps

\* A frame of which nothing reaches the line.
LEMMA LossKeeps ==
  ASSUME LossyInv, TxProof!Inv', NEW ok \in BOOLEAN, Tx!TransmitPacket(ok), Hit,
         UNCHANGED <<line, on_line, promised>>
  PROVE  LossyInv'
<1>1. UNCHANGED <<rxVars, buffer, failed, due>> /\ UNCHANGED <<arrived, assembled>>
  BY DEF Hit, rxVars
<1>2. LossyType' /\ PacketsOwed'
  BY <1>1, OwedLost DEF LossyInv
<1>3. line' \in Seq(Byte)
  BY DEF LossyInv, RxState, RxRoom
<1>4. LineCarries'
  BY <1>1, LineUnchanged DEF LossyInv
<1> QED
  BY <1>1, <1>2, <1>3, <1>4, TransmitKeeps

\* send() is called with the next message.
LEMMA SendKeeps ==
  ASSUME LossyInv, TxProof!Inv', NEW m \in Message, LossySend(m)
  PROVE  LossyInv'
<1>1. PacketsOwed'
  BY OwedAnnounced DEF LossyInv
<1>2. /\ size' = Len(m) /\ buffer' = m /\ intact' = TRUE
      /\ UNCHANGED <<rxVars, line, arrived, assembled, payload>>
      /\ UNCHANGED <<failed, on_line, promised, ended, due>>
  BY DEF LossySend, Tx!send, rxVars
<1>3. Sending'
  BY <1>2 DEF Sending
<1>4. LineCarries'
  BY <1>2, LineUnchanged DEF LossyInv
<1>5. RxState'
  <2>1. line' \in Seq(Byte)
    BY <1>2 DEF LossyInv, RxState, RxRoom
  <2> QED
    BY <1>2, <2>1, RxStateUnchanged DEF LossyInv
<1>6. LossyType' /\ IntactMessageExact'
  BY <1>2 DEF LossyInv, LossyType, IntactMessageExact, Queue!Padded
<1> QED
  BY <1>1, <1>3, <1>4, <1>5, <1>6 DEF LossyInv

\* The driver's reset after a failed call, between frames.
LEMMA RecoverKeeps == LossyInv /\ TxProof!Inv' /\ Recover => LossyInv'
<1> SUFFICES ASSUME LossyInv, TxProof!Inv', Recover PROVE LossyInv'
  OBVIOUS
<1>1. /\ rx_buffer' = Rx!Zeroed(RX_SIZE) /\ rx_buffer_remaining' = RX_SIZE /\ leaked' = 0
      /\ ~failed' /\ p_rx_buffer = 0
      /\ UNCHANGED <<p_rx_buffer, arrived, assembled, payload, overrun, line, buffer, txVars>>
      /\ UNCHANGED <<on_line, promised, intact, ended, due>>
  BY DEF Recover, Rx!reset_rx_buffer, Rx!packetVars, Rx!upVars, lineVars, LossyInv, RxState
<1>2. RxState'
  <2>1. RxRoom'
    <3>1. Rx!Zeroed(RX_SIZE) \in [0..RX_SIZE-1 -> Byte]
      BY ReceiverAssumption DEF Rx!Zeroed
    <3>2. RxProof!RoomAccounted'
      BY <1>1, ReceiverAssumption DEF RxProof!RoomAccounted
    <3>3. RxProof!RxBufferFaithful'
      <4>1. Len(arrived) = p_rx_buffer
        BY DEF LossyInv, RxState, RxRoom, RxProof!RxBufferFaithful
      <4> QED
        BY <1>1, <4>1 DEF RxProof!RxBufferFaithful
    <3> QED
      BY <1>1, <3>1, <3>2, <3>3, ReceiverAssumption DEF LossyInv, RxState, RxRoom
  <2>2. ~overrun => RxProof!Inv'
    <3>1. RxProof!ResetBetweenFrames
      BY <1>1 DEF Recover, Rx!reset_rx_buffer, RxProof!ResetBetweenFrames,
                  RxProof!reset_rx_buffer, Rx!Zeroed, RxProof!Zeroed,
                  Rx!packetVars, RxProof!packetVars, Rx!upVars, RxProof!upVars
    <3>2. RxProof!Next
      BY <3>1 DEF RxProof!Next
    <3> QED
      BY <3>2, RxAssumptions, RxProof!NextInv DEF RxProof!NextInv, LossyInv, RxState
  <2> QED
    BY <1>1, <2>1, <2>2 DEF RxState
<1>3. LineCarries'
  BY <1>1, LineUnchanged DEF LossyInv
<1>4. PacketsOwed'
  <2>1. Tx!InLoop' <=> Tx!InLoop
    BY <1>1 DEF txVars, Tx!InLoop, Tx!total_chunks, Tx!Chunks, Tx!data_chunk_size
  <2> QED
    BY <1>1, <2>1, OwedUnchanged DEF txVars, LossyInv
<1>5. LossyType' /\ Sending' /\ IntactMessageExact'
  BY <1>1 DEF txVars, LossyInv, LossyType, Sending, IntactMessageExact, Queue!Padded
<1> QED
  BY <1>2, <1>3, <1>4, <1>5 DEF LossyInv

\* A piece of the line is passed to process().
LEMMA ReceiveKeeps ==
  ASSUME LossyInv, TxProof!Inv', NEW n \in PieceSize, LossyReceive(n)
  PROVE  LossyInv'
<1>1. PICK frames \in Seq(LineFrame) :
        \E at \in [1..Len(frames) + 1 -> Nat] : Framed(frames, at) /\ Carries(frames, on_line)
  BY DEF LossyInv, LineCarries
<1>2. PICK at \in [1..Len(frames) + 1 -> Nat] : Framed(frames, at) /\ Carries(frames, on_line)
  BY <1>1
<1>3. /\ RxState /\ LossyType /\ Sending /\ PacketsOwed /\ LineCarries /\ RxRoom
      /\ line \in Seq(Byte) /\ on_line \in Seq(Outcomes)
  BY DEF LossyInv, RxState, RxRoom, LossyType
<1>4. PICK len \in 1..Len(line) :
        Piece(n) = SubSeq(line, 1, len) /\ \A j \in 1..len-1 : line[j] # 0
  BY <1>3, PieceFacts DEF LossyReceive
<1> DEFINE piece == Piece(n)
<1>5. /\ ~failed /\ Rx!process(piece) /\ failed' = ~retval'
      /\ line' = SubSeq(line, Len(piece) + 1, Len(line))
      /\ Rx!CompletesFrame(piece) => on_line' = Tail(on_line) /\ promised' = Tail(promised)
      /\ ~Rx!CompletesFrame(piece) => UNCHANGED <<on_line, promised>>
      /\ due' = IF Delivers(piece) THEN Head(promised) ELSE due
      /\ UNCHANGED <<txVars, buffer, intact, ended>>
  BY DEF LossyReceive
<1>6. piece = SubSeq(line, 1, len)
  BY <1>4
<1>7. Delivers(piece) <=>
        /\ Rx!CompletesFrame(piece)
        /\ \E packet \in Rx!DecodedPackets(piece) : Rx!EndsMessage(packet)
  BY DEF Delivers
<1> HIDE DEF piece
<1>8. /\ piece \in Seq(Byte) \ {<<>>} /\ Len(piece) = len /\ Rx!Accepts(piece) /\ ~overrun
      /\ line[len] # 0 => Rx!StoreChunk(piece) /\ ~Rx!CompletesFrame(piece)
      /\ line[len] = 0 =>
           /\ frames # <<>> /\ on_line # <<>> /\ Len(arrived) + len = at[2]
           /\ Rx!CompletesFrame(piece) /\ Rx!DecodedPackets(piece) = on_line[1] \ {NoPacket}
           /\ \/ /\ NoPacket \in on_line[1]
                 /\ Rx!BadFrame(piece) /\ RxProof!BadFrame(piece)
              \/ \E packet \in Rx!Packet :
                   /\ packet \in on_line[1] \ {NoPacket}
                   /\ Rx!GoodFrame(piece, packet) /\ RxProof!GoodFrame(piece, packet)
  BY ZenonT(30), <1>2, <1>3, <1>4, <1>5, <1>6, LossyOutcome
<1>9. Sending'
  BY <1>3, <1>5 DEF Sending, txVars
<1>10. CASE line[len] # 0
  <2>1. Rx!StoreChunk(piece) /\ UNCHANGED <<on_line, promised, due>>
    BY <1>5, <1>7, <1>8, <1>10
  <2>2. assembled' = assembled /\ payload' = payload
    BY <2>1 DEF Rx!StoreChunk, Rx!packetVars, Rx!upVars
  <2>3. line' \in Seq(Byte) /\ LineCarries' /\ \A j \in 1..Len(arrived') : arrived'[j] # 0
    BY <1>3, <1>4, <1>5, <1>6, <1>10, <2>1, LineStored
  <2>4. RxState'
    BY <1>3, <1>5, <1>8, <2>1, <2>3, RxStateKept
  <2>5. Tx!InLoop' <=> Tx!InLoop
    BY <1>5 DEF txVars, Tx!InLoop, Tx!total_chunks, Tx!Chunks, Tx!data_chunk_size
  <2>6. PacketsOwed'
    BY <1>3, <1>5, <2>1, <2>2, <2>5, OwedUnchanged DEF txVars
  <2>7. LossyType' /\ IntactMessageExact'
    BY <1>3, <1>5, <2>1, <2>2 DEF LossyType, LossyInv, IntactMessageExact, Queue!Padded
  <2> QED
    BY <1>9, <2>3, <2>4, <2>6, <2>7 DEF LossyInv
<1>11. CASE line[len] = 0
  <2>1. /\ frames # <<>> /\ on_line # <<>> /\ Len(arrived) + len = at[2]
        /\ on_line' = Tail(on_line) /\ promised' = Tail(promised)
        /\ line' = SubSeq(line, len + 1, Len(line))
    BY <1>5, <1>8, <1>11
  <2>2. ASSUME arrived' = <<>>,
               \/ RxProof!BadFrame(piece)
               \/ \E packet \in Rx!Packet : RxProof!GoodFrame(piece, packet)
        PROVE  RxState' /\ LineCarries'
    <3>1. line' \in Seq(Byte) /\ LineCarries'
      BY <1>2, <1>3, <2>1, <2>2, FrameTaken
    <3>2. \A j \in 1..Len(arrived') : arrived'[j] # 0
      BY <2>2
    <3> QED
      BY <1>3, <1>5, <1>8, <2>2, <3>1, <3>2, RxStateKept
  <2>3. due' = IF \E packet \in on_line[1] \ {NoPacket} : Rx!EndsMessage(packet)
               THEN promised[1] ELSE due
    <3>1. Head(promised) = promised[1]
      OBVIOUS
    <3> QED
      BY <1>5, <1>7, <1>8, <1>11, <3>1
  <2>4. ASSUME NoPacket \in on_line[1], Rx!BadFrame(piece), RxProof!BadFrame(piece)
        PROVE  LossyInv'
    <3>1. /\ arrived' = <<>> /\ assembled' = assembled /\ payload' = payload
      BY <2>4 DEF Rx!BadFrame, Rx!StartNextFrame, Rx!packetVars, Rx!upVars
    <3>2. RxState' /\ LineCarries'
      BY <2>2, <2>4, <3>1
    <3>3. LossyType' /\ PacketsOwed' /\ ~promised[1].exact
      BY <1>3, <1>5, <2>1, <2>4, <3>1, OwedTaken
    <3>4. IntactMessageExact'
      <4>1. due' = promised[1] \/ due' = due
        BY <2>3
      <4> QED
        BY <3>1, <3>3, <4>1 DEF LossyInv, IntactMessageExact, Queue!Padded
    <3> QED
      BY <1>9, <3>2, <3>3, <3>4 DEF LossyInv
  <2>5. ASSUME NEW p \in Rx!Packet, p \in on_line[1] \ {NoPacket},
               Rx!GoodFrame(piece, p), RxProof!GoodFrame(piece, p)
        PROVE  LossyInv'
    <3>1. /\ p.data \in Seq(Byte)
          /\ Rx!EndsMessage(p) => assembled' = <<>> /\ payload' = Queue!Padded(assembled \o p.data)
          /\ ~Rx!EndsMessage(p) => assembled' = assembled \o p.data /\ payload' = payload
      BY <1>3, <1>8, <2>5, PacketTaken DEF RxState
    <3>2. RxState' /\ LineCarries'
      <4>1. arrived' = <<>>
        BY <2>5 DEF Rx!GoodFrame, Rx!StartNextFrame
      <4> QED
        BY <2>2, <2>5, <4>1
    <3>3. assembled' = IF Rx!EndsMessage(p) THEN <<>> ELSE assembled \o p.data
      BY <3>1, Zenon
    <3>4. /\ LossyType' /\ PacketsOwed'
          /\ promised[1].exact => Rx!EndsMessage(p) /\ promised[1].message = assembled \o p.data
      BY <1>3, <1>5, <2>1, <2>5, <3>1, <3>3, OwedTaken
    <3>5. IntactMessageExact'
      <4>1. CASE due' = promised[1]
        BY <3>1, <3>4, <4>1 DEF IntactMessageExact, Queue!Padded
      <4>2. CASE due' # promised[1]
        <5>1. due' = due /\ ~Rx!EndsMessage(p)
          BY <2>3, <2>5, <4>2
        <5>2. payload' = payload
          BY <3>1, <5>1
        <5> QED
          BY <5>1, <5>2 DEF LossyInv, IntactMessageExact, Queue!Padded
      <4> QED
        BY <4>1, <4>2
    <3> QED
      BY <1>9, <3>2, <3>4, <3>5 DEF LossyInv
  <2> QED
    BY <1>8, <1>11, <2>4, <2>5
<1> QED
  BY <1>10, <1>11

\* Every step of the link keeps the invariant.
LEMMA LossyNextInv == LossyInv /\ [LossyNext]_lossyVars => LossyInv'
<1> SUFFICES ASSUME LossyInv, [LossyNext]_lossyVars PROVE LossyInv'
  OBVIOUS
<1>1. TxProof!Inv'
  BY LossySenderInv DEF LossyInv
<1>2. ASSUME UNCHANGED <<rxVars, lossVars, buffer, line, buffer_offset>>, Tx!InLoop' <=> Tx!InLoop,
             pc' = "loop" => pc = "loop" /\ size' = size
      PROVE  LossyInv'
  <2>1. RxState'
    <3>1. line' \in Seq(Byte)
      BY <1>2 DEF LossyInv, RxState, RxRoom
    <3> QED
      BY <1>2, <3>1, RxStateUnchanged DEF LossyInv, lossVars
  <2>2. LineCarries'
    BY <1>2, LineUnchanged DEF LossyInv, rxVars, lossVars
  <2>3. PacketsOwed'
    BY <1>2, OwedUnchanged DEF LossyInv, rxVars, lossVars
  <2>4. LossyType' /\ Sending'
    BY <1>2 DEF LossyInv, LossyType, Sending, rxVars, lossVars
  <2>5. IntactMessageExact'
    BY <1>2 DEF LossyInv, IntactMessageExact, Queue!Padded, rxVars, lossVars
  <2> QED
    BY <1>1, <2>1, <2>2, <2>3, <2>4, <2>5 DEF LossyInv
<1>3. CASE LossyConnect
  <2>1. UNCHANGED <<rxVars, lossVars, buffer, line, buffer_offset, pc, i, size>>
    BY <1>3 DEF LossyConnect, Connect, Tx!register_tx_handler, Tx!sendVars, lineVars
  <2>2. Tx!InLoop' <=> Tx!InLoop
    BY <2>1 DEF Tx!InLoop, Tx!total_chunks, Tx!Chunks, Tx!data_chunk_size
  <2> QED
    BY <1>2, <2>1, <2>2
<1>4. ASSUME NEW m \in Message, LossySend(m) PROVE LossyInv'
  BY <1>1, <1>4, SendKeeps
<1>5. CASE TransmitWhole
  BY <1>1, <1>5, WholeKeeps
<1>6. CASE DamageFrame
  BY <1>1, <1>6, DamageKeeps
<1>7. CASE LoseFrame
  BY <1>1, <1>7, LossKeeps DEF LoseFrame
<1>8. CASE RefuseFrame
  BY <1>1, <1>8, LossKeeps DEF RefuseFrame
<1>9. CASE LossyFinishSend
  <2>1. /\ UNCHANGED <<rxVars, lossVars, buffer, line, buffer_offset>> /\ pc' = "returned"
        /\ i >= Tx!total_chunks /\ pc = "loop"
    BY <1>9 DEF LossyFinishSend, FinishSend, Tx!FinishSend, lineVars
  <2>2. ~Tx!InLoop /\ ~Tx!InLoop'
    <3>1. i \in Nat /\ buffer \in Message /\ size = Len(buffer)
      BY <2>1 DEF LossyInv, Sending, TxProof!Inv, TxProof!TypeOK
    <3>2. Tx!total_chunks \in Nat
      BY <3>1, SomeChunk DEF Tx!total_chunks
    <3> QED
      BY <2>1, <3>1, <3>2 DEF Tx!InLoop
  <2> QED
    BY <1>2, <2>1, <2>2
<1>10. CASE Recover
  BY <1>1, <1>10, RecoverKeeps
<1>11. ASSUME NEW n \in PieceSize, LossyReceive(n) PROVE LossyInv'
  BY <1>1, <1>11, ReceiveKeeps
<1>12. CASE UNCHANGED lossyVars
  <2>1. UNCHANGED <<rxVars, lossVars, buffer, line, buffer_offset, pc, i, size>>
    BY <1>12 DEF lossyVars, vars, txVars, lineVars
  <2>2. Tx!InLoop' <=> Tx!InLoop
    BY <2>1 DEF Tx!InLoop, Tx!total_chunks, Tx!Chunks, Tx!data_chunk_size
  <2> QED
    BY <1>2, <2>1, <2>2
<1> QED
  BY <1>3, <1>4, <1>5, <1>6, <1>7, <1>8, <1>9, <1>10, <1>11, <1>12
     DEF LossyNext, LossySender, LossyReceiver

\* Every reachable state of the link satisfies the invariant.
LEMMA LossyInvHolds == LossySpec => []LossyInv
<1>1. LossyInit => LossyInv
  BY LossyInitInv
<1>2. LossyInv /\ [LossyNext]_lossyVars => LossyInv'
  BY LossyNextInv
<1> QED
  BY <1>1, <1>2, PTL DEF LossySpec


-----------------------------------------------------------------------------
\* With the driver's reset after each failed call, process() refuses no piece of the line for
\* lack of room, however many frames are lost or damaged, whatever damaged ones are taken for
\* and wherever the line is cut: only the room of the frame that has just failed is missing,
\* and only until that reset.
THEOREM LossyNothingRefused == LossySpec => []NothingRefused
<1>1. LossyInv => NothingRefused
  BY NothingRefusedNow DEF LossyInv
<1> QED
  BY <1>1, LossyInvHolds, PTL

\* A message none of whose frames was hit is handed over byte for byte as it was sent, with
\* zeros behind it, whatever damaged frames of the messages before it were taken for,
\* provided the frame that ends the message before it arrived as it was sent.
THEOREM LossyIntactMessageExact == LossySpec => []IntactMessageExact
<1>1. LossyInv => IntactMessageExact
  BY DEF LossyInv
<1> QED
  BY <1>1, LossyInvHolds, PTL

-----------------------------------------------------------------------------
(* The link implements PacketQueue: what is safety of it. *)

\* A process() call that completes a frame uses the first frame on the line for one of the
\* packets it may be taken for, or for none; any other changes nothing of what the
\* application sees.
LEMMA TakeStep ==
  ASSUME LossyInv, NEW n \in PieceSize, LossyReceive(n)
  PROVE  Queue!Take \/ UNCHANGED <<on_line, assembled, payload>>
<1>1. PICK frames \in Seq(LineFrame) :
        \E at \in [1..Len(frames) + 1 -> Nat] : Framed(frames, at) /\ Carries(frames, on_line)
  BY DEF LossyInv, LineCarries
<1>2. PICK at \in [1..Len(frames) + 1 -> Nat] : Framed(frames, at) /\ Carries(frames, on_line)
  BY <1>1
<1>3. RxState /\ LossyType /\ line \in Seq(Byte)
  BY DEF LossyInv, RxState, RxRoom
<1>4. PICK len \in 1..Len(line) :
        Piece(n) = SubSeq(line, 1, len) /\ \A j \in 1..len-1 : line[j] # 0
  BY <1>3, PieceFacts DEF LossyReceive
<1> DEFINE piece == Piece(n)
<1>5. /\ ~failed /\ Rx!process(piece)
      /\ Rx!CompletesFrame(piece) => on_line' = Tail(on_line)
      /\ ~Rx!CompletesFrame(piece) => on_line' = on_line
  BY DEF LossyReceive
<1>6. piece = SubSeq(line, 1, len)
  BY <1>4
<1> HIDE DEF piece
<1>7. /\ ~overrun
      /\ line[len] # 0 => Rx!StoreChunk(piece) /\ ~Rx!CompletesFrame(piece)
      /\ line[len] = 0 =>
           /\ on_line # <<>> /\ Rx!CompletesFrame(piece)
           /\ \/ NoPacket \in on_line[1] /\ Rx!BadFrame(piece)
              \/ \E packet \in Rx!Packet :
                   packet \in on_line[1] \ {NoPacket} /\ Rx!GoodFrame(piece, packet)
  BY <1>2, <1>3, <1>4, <1>5, <1>6, LossyOutcome
<1>8. CASE line[len] # 0
  BY <1>5, <1>7, <1>8 DEF Rx!StoreChunk, Rx!packetVars, Rx!upVars
<1>9. CASE line[len] = 0
  <2>1. on_line # <<>> /\ on_line' = Tail(on_line)
    BY <1>5, <1>7, <1>9
  <2>2. CASE NoPacket \in on_line[1] /\ Rx!BadFrame(piece)
    <3>1. UNCHANGED <<assembled, payload>>
      BY <2>2 DEF Rx!BadFrame, Rx!packetVars, Rx!upVars
    <3>2. NoPacket \in Head(on_line)
      BY <2>2
    <3> QED
      BY <2>1, <3>1, <3>2 DEF Queue!Take
  <2>3. ASSUME NEW p \in Rx!Packet, p \in on_line[1] \ {NoPacket}, Rx!GoodFrame(piece, p)
        PROVE  Queue!Take
    <3>1. /\ Rx!EndsMessage(p) =>
               assembled' = <<>> /\ payload' = Queue!Padded(assembled \o p.data)
          /\ ~Rx!EndsMessage(p) => assembled' = assembled \o p.data /\ payload' = payload
      BY <1>3, <1>7, <2>3, PacketTaken DEF RxState
    <3>2. Queue!Use(p)
      BY <3>1 DEF Queue!Use, Rx!EndsMessage
    <3>3. p \in Head(on_line) \ {NoPacket}
      BY <2>3
    <3> QED
      BY <2>1, <3>2, <3>3 DEF Queue!Take
  <2> QED
    BY <1>7, <1>9, <2>2, <2>3
<1> QED
  BY <1>8, <1>9

\* What a frame may be taken for joins the queue with it.
LEMMA JoinStep ==
  ASSUME LossyInv, NEW entry \in Outcomes, on_line' = Append(on_line, entry),
         UNCHANGED <<assembled, payload>>
  PROVE  Queue!Send
<1>1. PICK q, r : q = on_line /\ r = on_line'
  OBVIOUS
<1>2. q \in Seq(Outcomes) /\ r = Append(q, entry)
  BY <1>1 DEF LossyInv, LossyType
<1>3. /\ r \in Seq(Outcomes) /\ Len(r) = Len(q) + 1 /\ Len(q) \in Nat
      /\ \A j \in 1..Len(q) : r[j] = q[j]
  BY <1>2
<1>4. SubSeq(r, 1, Len(q)) = q
  <2> DEFINE s == SubSeq(r, 1, Len(q))
  <2>1. s \in Seq(Outcomes) /\ Len(s) = Len(q) /\ \A j \in 1..Len(q) : s[j] = r[j]
    BY <1>3
  <2> HIDE DEF s
  <2>2. s = q
    BY <1>2, <1>3, <2>1, SeqEqual
  <2> QED
    BY <2>2 DEF s
<1> QED
  BY <1>1, <1>3, <1>4 DEF Queue!Send, Outcomes

\* A frame that reaches the line, as it was sent or damaged.
LEMMA SendStep ==
  ASSUME LossyInv, TransmitWhole \/ DamageFrame
  PROVE  Queue!Send
<1>1. Tx!InLoop /\ UNCHANGED <<assembled, payload>>
  BY DEF TransmitWhole, DamageFrame, Hit, Tx!TransmitPacket, rxVars
<1>2. CASE TransmitWhole
  <2>1. PICK entry : entry = {[data |-> Built.data, flag |-> Built.flag]}
    OBVIOUS
  <2>2. on_line' = Append(on_line, entry)
    BY <1>2, <2>1 DEF TransmitWhole, PutOnLine
  <2>3. entry \in Outcomes
    <3>1. Built \in LinkPacket
      BY <1>1, BuiltFacts DEF LossyInv
    <3> QED
      BY <2>1, <3>1 DEF LinkPacket, Rx!Packet, Outcomes
  <2> QED
    BY <1>1, <2>2, <2>3, JoinStep
<1>3. CASE DamageFrame
  <2>1. PICK bytes \in Damaged(Encode(Built)) : PutOnLine(bytes \o <<0>>, Decode(bytes), Spoilt)
    BY <1>3 DEF DamageFrame
  <2>2. PICK entry : entry = Decode(bytes)
    OBVIOUS
  <2>3. on_line' = Append(on_line, entry) /\ entry \in Outcomes
    BY <1>1, <2>1, <2>2, DamageFacts DEF PutOnLine, Outcomes, LossyInv
  <2> QED
    BY <1>1, <2>3, JoinStep
<1> QED
  BY <1>2, <1>3

\* Every frame that reaches the line is used once and in order, one that arrives as it was
\* sent for its packet, a damaged one for what it decodes to, if it does; and the application
\* is given the data of the packets from one end of a message to the next, zero padded.
\* (That each is used sooner or later is fairness and stays with TLC.)
THEOREM LossStaysLocalSafety == LossySpec => Queue!Init /\ [][Queue!Next]_(Queue!vars)
<1>1. LossyInit => Queue!Init
  BY DEF LossyInit, Init, Rx!Init, Rx!Zeroed, Queue!Init, Queue!Padded
<1>2. LossyInv /\ [LossyNext]_lossyVars => [Queue!Next]_(Queue!vars)
  <2> SUFFICES ASSUME LossyInv, [LossyNext]_lossyVars PROVE [Queue!Next]_(Queue!vars)
    OBVIOUS
  <2>1. CASE TransmitWhole \/ DamageFrame
    BY <2>1, SendStep DEF Queue!Next
  <2>2. ASSUME NEW n \in PieceSize, LossyReceive(n) PROVE [Queue!Next]_(Queue!vars)
    BY <2>2, TakeStep DEF Queue!Next, Queue!vars
  <2>3. ASSUME NEW m \in Message, LossySend(m) PROVE UNCHANGED Queue!vars
    BY <2>3 DEF LossySend, rxVars, Queue!vars
  <2>4. CASE LoseFrame \/ RefuseFrame
    BY <2>4 DEF LoseFrame, RefuseFrame, Hit, rxVars, Queue!vars
  <2>5. CASE LossyConnect \/ LossyFinishSend \/ Recover \/ UNCHANGED lossyVars
    BY <2>5 DEF LossyConnect, Connect, LossyFinishSend, FinishSend, Recover, Rx!reset_rx_buffer,
                Rx!packetVars, Rx!upVars, lossVars, lossyVars, vars, rxVars, Queue!vars
  <2> QED
    BY <2>1, <2>2, <2>3, <2>4, <2>5 DEF LossyNext, LossySender, LossyReceiver
<1> QED
  BY <1>1, <1>2, LossyInvHolds, PTL DEF LossySpec

=============================================================================
