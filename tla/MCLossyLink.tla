---------------------------- MODULE MCLossyLink ----------------------------
(***************************************************************************)
(* TLC instance of LossyLink with the codec of MCPacketLink.               *)
(***************************************************************************)
EXTENDS LossyLink, MCPacketLink

CONSTANT Kept      \* how many bytes before the delimiter may be left of a frame

\* One packet and three.  The last eleven bytes of the first one's frame are a frame themselves,
\* of a packet without data that ends a message.
LossyMessage == {<<9, 10, 8>>, <<1, 2, 0, 0, 0, 6, 7>>}

\* Its end is left, or the fifth byte is another one, which may be data, or the last one, the
\* flag: the end of a message becomes its middle or the other way round.
LossyDamage(frame) ==
  LET length == Len(frame) IN
  ({SubSeq(frame, length - n + 1, length) : n \in {k \in Kept : k < length}} \union
   {[frame EXCEPT ![5] = 9]} \union
   {[frame EXCEPT ![length] = flag] : flag \in {1, 2}}) \ {frame}

\* The packets, their frames, and what these decode to, whole or damaged; nothing else
\* reaches the receiver.
LossyPacket ==
  [data : {Part(m, k, n) : m \in LossyMessage, k \in {1, 4, 7}, n \in 0..DATA_MAX - 1},
   sequence_number : 0..2, flag : {"FIRST", "CONTINUE", "LAST", "FIRSTLAST"}]
LossyFrames == <<>> @@ [packet \in LossyPacket |-> Frames!Stuffing(packet).out]
LossyTable == <<>> @@
  [frame \in UNION {{LossyFrames[p]} \union LossyDamage(LossyFrames[p]) : p \in LossyPacket} |->
     Frames!DecodeFrame(frame)]
LossyEncode(packet) == LET frames == LossyFrames IN frames[packet]
LossyDecode(frame) == LET table == LossyTable IN table[frame]
=============================================================================
