---------------------------- MODULE PacketQueue ----------------------------
(***************************************************************************)
(* What PacketSerial promises on a line that loses and damages frames:     *)
(* every frame that arrives is used once and in order, for one of the      *)
(* packets it may be taken for, or for none, and the application is given  *)
(* the data of the packets between one end of a message and the next.      *)
(* What was lost in between is not noticed, nor what a damaged frame was   *)
(* taken for, but a fault costs nothing except the frames it hit.          *)
(***************************************************************************)
EXTENDS Naturals, Sequences

CONSTANTS
  Packet,     \* records with data, a sequence of bytes, and flag
  NoPacket,   \* a frame that is none
  SIZE        \* bytes in what the receiver's handler is given

VARIABLES
  queue,      \* frames on their way, each as the set of what it may be taken for
  collected,  \* data of the message being received
  delivered   \* what the handler was last given

vars == <<queue, collected, delivered>>

Padded(data) == [k \in 0..SIZE-1 |-> IF k < Len(data) THEN data[k+1] ELSE 0]

Init == queue = <<>> /\ collected = <<>> /\ delivered = Padded(<<>>)

\* Some frame joins the queue.
Send ==
  /\ queue' \in Seq(SUBSET (Packet \union {NoPacket}))
  /\ Len(queue') = Len(queue) + 1
  /\ SubSeq(queue', 1, Len(queue)) = queue
  /\ UNCHANGED <<collected, delivered>>

Use(packet) ==
  LET all == collected \o packet.data IN
  IF packet.flag \in {"LAST", "FIRSTLAST"}
  THEN collected' = <<>> /\ delivered' = Padded(all)
  ELSE collected' = all /\ UNCHANGED delivered

Take ==
  /\ queue # <<>>
  /\ queue' = Tail(queue)
  /\ \/ NoPacket \in Head(queue) /\ UNCHANGED <<collected, delivered>>
     \/ \E packet \in Head(queue) \ {NoPacket} : Use(packet)

Next == Send \/ Take

Spec == Init /\ [][Next]_vars /\ WF_vars(Take)
=============================================================================
