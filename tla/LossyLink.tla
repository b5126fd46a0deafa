----------------------------- MODULE LossyLink -----------------------------
(***************************************************************************)
(* PacketLink on a line that fails: a frame is lost or arrives damaged, or *)
(* tx_handler refuses it.  A damaged frame may well decode, as the receiver*)
(* compares no crc.  Delimiters are neither lost without their frames nor  *)
(* made of other bytes.  PacketSerial repeats nothing and reports a failure*)
(* only as process() returning false; the driver then calls                *)
(* reset_rx_buffer().                                                      *)
(*                                                                         *)
(* Messages whose end was lost grow together in packet_buffer, which must  *)
(* have room for as many as that happens to.                               *)
(***************************************************************************)
EXTENDS PacketLink

CONSTANTS
  Damaged(_),   \* what the line may make of the bytes before a delimiter
  MAX_ON_LINE,  \* bound: frames on the line when another message is sent
  MAX_FAULTS    \* bound: how often the line fails

\* A damaged frame is not longer than rx_buffer.  It is taken for any packet, or none.
ASSUME DamageAssumption ==
  \A m \in Message :
    \A k \in 0..Tx!Chunks(Len(m)) - 1, n \in 0..Tx!data_chunk_size, flag \in Rx!Flag :
      k * Tx!data_chunk_size + n <= Len(m) =>
        \A bytes \in Damaged(Encode(PacketOf(m, k, n, flag))) :
          /\ bytes \in Seq(Byte \ {0}) /\ Len(bytes) < RX_SIZE
          /\ Decode(bytes) \subseteq Rx!Packet \union {NoPacket}

VARIABLES
  faults,       \* how often the line has failed
  failed,       \* process() returned false and the driver has not reacted yet
  on_line,      \* history: for each frame on the line, what it may be taken for
  promised,     \* history: for each of them, what is due if it ends a message
  intact,       \* history: no frame of the message being sent was hit
  ended,        \* history: the frame that ends the message before it was not hit
  due           \* history: the message handed over last, if it must have arrived as sent

lossVars == <<faults, failed, on_line, promised, intact, ended, due>>
lossyVars == <<vars, lossVars>>

Spoilt == [exact |-> FALSE]

LossyInit ==
  /\ Init
  /\ faults = 0
  /\ failed = FALSE
  /\ on_line = <<>> /\ promised = <<>>
  /\ intact = TRUE /\ ended = TRUE
  /\ due = Spoilt

-----------------------------------------------------------------------------
(* The sender. *)

LossyConnect == Connect /\ UNCHANGED lossVars

LossySend(m) ==
  /\ tx_handler # NULL
  /\ Len(on_line) <= MAX_ON_LINE
  /\ Tx!send(Len(m))
  /\ buffer' = m
  /\ intact' = TRUE
  /\ UNCHANGED <<rxVars, line, in_flight, faults, failed, on_line, promised, ended, due>>

EndsSending == Built.flag \in {"LAST", "FIRSTLAST"}

\* What the application must be given when the last packet of a message arrives.
Promise ==
  IF intact /\ ended THEN [exact |-> TRUE, message |-> Transmitted(buffer)] ELSE Spoilt

\* A frame, its delimiter included, behind the others.
PutOnLine(bytes, taken, promise) ==
  /\ line' = line \o bytes
  /\ on_line' = Append(on_line, taken)
  /\ promised' = Append(promised, promise)

TransmitWhole ==
  /\ Tx!TransmitPacket(TRUE)
  /\ PutOnLine(Encoded, {[data |-> Built.data, flag |-> Built.flag]},
               IF EndsSending THEN Promise ELSE Spoilt)
  /\ ended' = (ended \/ EndsSending)
  /\ UNCHANGED <<rxVars, buffer, in_flight, faults, failed, intact, due>>

Hit ==
  /\ faults < MAX_FAULTS
  /\ faults' = faults + 1
  /\ intact' = FALSE
  /\ ended' = (ended /\ ~EndsSending)
  /\ UNCHANGED <<rxVars, buffer, in_flight, failed, due>>

DamageFrame ==
  /\ Tx!TransmitPacket(TRUE)
  /\ \E bytes \in Damaged(Encode(Built)) : PutOnLine(bytes \o <<0>>, Decode(bytes), Spoilt)
  /\ Hit

LoseFrame == Tx!TransmitPacket(TRUE) /\ Hit /\ UNCHANGED <<line, on_line, promised>>

\* send() goes on with the next chunk.
RefuseFrame == Tx!TransmitPacket(FALSE) /\ Hit /\ UNCHANGED <<line, on_line, promised>>

LossyFinishSend == FinishSend /\ UNCHANGED lossVars

-----------------------------------------------------------------------------
(* The receiver. *)

LossyReceive(n) ==
  /\ line # <<>> /\ ~failed
  /\ Rx!process(Piece(n))
  /\ failed' = ~retval'
  /\ line' = SubSeq(line, Len(Piece(n)) + 1, Len(line))
  /\ IF Rx!CompletesFrame(Piece(n))
     THEN on_line' = Tail(on_line) /\ promised' = Tail(promised)
     ELSE UNCHANGED <<on_line, promised>>
  /\ due' = IF Delivers(Piece(n)) THEN Head(promised) ELSE due
  /\ UNCHANGED <<txVars, buffer, in_flight, faults, intact, ended>>

IgnoreFailure ==                    \* a mutant: the driver does not call reset_rx_buffer()
  /\ failed
  /\ failed' = FALSE
  /\ UNCHANGED <<vars, faults, on_line, promised, intact, ended, due>>

\* The driver's reaction, between frames as PacketSerialRx wants it.
Recover ==
  /\ failed
  /\ Rx!reset_rx_buffer
  /\ failed' = FALSE
  /\ UNCHANGED <<txVars, lineVars, faults, on_line, promised, intact, ended, due>>

-----------------------------------------------------------------------------
LossySender == TransmitWhole \/ DamageFrame \/ LoseFrame \/ RefuseFrame \/ LossyFinishSend
LossyReceiver == Recover \/ \E n \in PieceSize : LossyReceive(n)

LossyNext == LossyConnect \/ (\E m \in Message : LossySend(m)) \/ LossySender \/ LossyReceiver

LossySpec ==
  /\ LossyInit /\ [][LossyNext]_lossyVars
  /\ WF_lossyVars(LossySender) /\ WF_lossyVars(LossyReceiver)

-----------------------------------------------------------------------------
\* A fault stays where it happened: every frame that arrives is used, in order, once and
\* sooner or later; an intact one for the packet that was sent, a damaged one for what it
\* decodes to, if it does, and nothing else is ever used.
Queue == INSTANCE PacketQueue
           WITH queue <- on_line, collected <- assembled, delivered <- payload,
                SIZE <- PACKET_BUFFER_SIZE, Packet <- Rx!Packet
LossStaysLocal == Queue!Spec

\* With the driver's reset after each failed frame process() refuses no piece for lack of
\* room, however many damaged frames came before: the room they took is back in time.
NothingRefused == \A n \in PieceSize : line # <<>> /\ ~failed => Rx!Accepts(Piece(n))

\* A message none of whose frames was hit is handed over as it was sent, provided the frame
\* that ends the message before it arrived intact, and whatever the damaged frames before
\* that were taken for.  Without the latter it is not: the receiver looks neither at the
\* sequence_number nor at the crc nor for a FIRST flag.
IntactMessageExact ==
  due.exact => payload = Queue!Padded(due.message)
=============================================================================
