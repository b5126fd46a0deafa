--------------------------- MODULE PacketSerialTx ---------------------------
(***************************************************************************)
(* The transmit half of src/src/PacketSerial.c: send() cuts a buffer into  *)
(* chunks, wraps each in a Packet and passes its frame to tx_handler.      *)
(*                                                                         *)
(* The loop is one action per iteration, because tx_handler is called in   *)
(* every iteration and the handler may be exchanged between two of them.   *)
(* A packet is described by the part of the caller's buffer it carries;    *)
(* what the bytes are does not matter here.                                *)
(***************************************************************************)
EXTENDS Integers, Sequences

CONSTANTS
  DATA_MAX,   \* sizeof(Packet.data.bytes)
  SEQ_MOD,    \* 2^8: sequence_number is a u8
  SIZE_MOD,   \* 2^w: size_t and unsigned int have w bits
  Size,       \* sizes the application may pass to send()
  Handler,    \* functions it may register as tx_handler
  NULL

ASSUME DataAssumption == DATA_MAX \in Nat /\ DATA_MAX > 1
ASSUME ModAssumption == SEQ_MOD \in Nat \ {0} /\ SIZE_MOD \in Nat /\ SIZE_MOD > DATA_MAX
ASSUME SendSizeAssumption == Size \subseteq 0..SIZE_MOD-1
ASSUME TxHandlerAssumption == NULL \notin Handler

VARIABLES
  pc,               \* "idle", "loop" inside send(), "returned" after it
  size, i, buffer_offset, return_status,   \* send()'s parameter and locals
  tx_handler,
  packets,          \* history: packets of this send() that tx_handler was given
  refused           \* history: tx_handler returned false for one of them

sendVars == <<pc, size, i, buffer_offset, return_status, packets, refused>>
vars == <<sendVars, tx_handler>>

-----------------------------------------------------------------------------
data_chunk_size == DATA_MAX - 1

RoundedDown(n) == n \div data_chunk_size      \* a mutant
\* The ceiling of n / data_chunk_size, in size_t arithmetic.
Chunks(n) == ((n + data_chunk_size - 1) % SIZE_MOD) \div data_chunk_size

total_chunks == Chunks(size)

FlagNoSingle(k) ==                                  \* a mutant: no FIRSTLAST
  CASE k = 0                         -> "FIRST"
    [] k > 0 /\ k < total_chunks - 1 -> "CONTINUE"
    [] OTHER                         -> "LAST"

\* The flag and the amount of data of the k-th packet, in the order of send()'s tests.
FlagOf(k) ==
  CASE k = 0 /\ total_chunks = 1     -> "FIRSTLAST"
    [] k = 0 /\ total_chunks > 1     -> "FIRST"
    [] k > 0 /\ k < total_chunks - 1 -> "CONTINUE"
    [] OTHER                         -> "LAST"

WholeChunk(k) == data_chunk_size                    \* a mutant
ChunkSize(k) ==
  CASE k = 0 /\ total_chunks = 1                 -> size
    [] k < total_chunks - 1                      -> data_chunk_size
    [] OTHER                                     -> size % data_chunk_size

\* build_packet() of the iteration's data.
build_packet ==
  [offset |-> buffer_offset, size |-> ChunkSize(i),
   sequence_number |-> i % SEQ_MOD, flag |-> FlagOf(i)]

NextOffsetFixed == buffer_offset + data_chunk_size   \* a mutant
NextOffset == buffer_offset + ChunkSize(i)

-----------------------------------------------------------------------------
Init ==
  /\ pc = "idle"
  /\ size = 0 /\ i = 0 /\ buffer_offset = 0
  /\ return_status = TRUE
  /\ tx_handler = NULL
  /\ packets = <<>>
  /\ refused = FALSE

send(n) ==
  /\ pc # "loop"
  /\ pc' = "loop"
  /\ size' = n
  /\ i' = 0
  /\ buffer_offset' = 0
  /\ return_status' = TRUE
  /\ packets' = <<>>
  /\ refused' = FALSE
  /\ UNCHANGED tx_handler

InLoop == pc = "loop" /\ i < total_chunks

LastResult(ok) == ok                               \* a mutant
StatusAfter(ok) == return_status /\ ok

\* An iteration with a tx_handler, which returns ok.  A refusal does not end the loop.
TransmitPacket(ok) ==
  /\ InLoop
  /\ tx_handler # NULL
  /\ packets' = Append(packets, build_packet)
  /\ buffer_offset' = NextOffset
  /\ return_status' = StatusAfter(ok)
  /\ refused' = (refused \/ ~ok)
  /\ i' = i + 1
  /\ UNCHANGED <<pc, size, tx_handler>>

WaitForHandler ==                                  \* a mutant: no early return
  /\ InLoop
  /\ tx_handler = NULL
  /\ UNCHANGED vars

\* An iteration without one: the packet is built and thrown away, send() returns false.
TxHandlerUndefined ==
  /\ InLoop
  /\ tx_handler = NULL
  /\ buffer_offset' = NextOffset
  /\ return_status' = FALSE
  /\ pc' = "returned"
  /\ UNCHANGED <<size, i, packets, refused, tx_handler>>

FinishSend ==
  /\ pc = "loop"
  /\ i >= total_chunks
  /\ pc' = "returned"
  /\ UNCHANGED <<size, i, buffer_offset, return_status, packets, refused, tx_handler>>

register_tx_handler(h) ==
  /\ tx_handler' = h
  /\ UNCHANGED sendVars

\* PacketSerial.clear_handlers(): rx_handler is not cleared.
clear_handlers ==
  /\ tx_handler' = NULL
  /\ UNCHANGED sendVars

SendStep ==
  \/ \E ok \in BOOLEAN : TransmitPacket(ok)
  \/ TxHandlerUndefined
  \/ FinishSend

Next ==
  \/ \E n \in Size : send(n)
  \/ SendStep
  \/ \E h \in Handler : register_tx_handler(h)
  \/ clear_handlers

Spec == Init /\ [][Next]_vars

\* send() runs to its end once called.
FairSpec == Spec /\ WF_vars(SendStep)

-----------------------------------------------------------------------------
Flag == {"FIRST", "CONTINUE", "LAST", "FIRSTLAST"}
Packet == [offset : Nat, size : 0..DATA_MAX, sequence_number : 0..SEQ_MOD-1, flag : Flag]

\* A packet's data never exceeds Packet.data.bytes: build_packet()'s memcpy of a size
\* computed in size_t arithmetic stays inside the struct.
TypeOK ==
  /\ pc \in {"idle", "loop", "returned"}
  /\ size \in 0..SIZE_MOD-1
  /\ i \in Nat
  /\ buffer_offset \in Nat
  /\ return_status \in BOOLEAN
  /\ tx_handler \in Handler \union {NULL}
  /\ packets \in Seq(Packet)
  /\ refused \in BOOLEAN

\* send() never reads behind the size bytes it was given, also for the (size_t)-1 that
\* a failed marshal() returns: the wrapped ceiling then yields no chunk at all.
ReadsInBounds == buffer_offset <= size

\* Where the data handed to tx_handler ends.
Handed ==
  IF packets = <<>> THEN 0
  ELSE packets[Len(packets)].offset + packets[Len(packets)].size

\* Whatever was handed to tx_handler so far is a prefix of the buffer, in order, without
\* a gap and without an overlap.
Contiguous ==
  /\ \A k \in 1..Len(packets) :
       packets[k].offset = IF k = 1 THEN 0 ELSE packets[k-1].offset + packets[k-1].size
  /\ pc = "loop" => buffer_offset = Handed

\* The receiver can tell messages apart: the first packet of a message and only that one
\* is flagged FIRST(LAST), the last packet of a complete one and only that one (FIRST)LAST.
FlagProtocol ==
  \A k \in 1..Len(packets) :
    /\ packets[k].flag \in {"FIRST", "FIRSTLAST"} <=> k = 1
    /\ packets[k].flag \in {"LAST", "FIRSTLAST"} <=> k = total_chunks

\* true is returned only when every chunk went to a tx_handler that accepted it, whatever
\* happened to tx_handler in the meantime.
TrueMeansAccepted ==
  pc = "returned" /\ return_status => Len(packets) = total_chunks /\ ~refused

SentOf(n) ==
  IF n > data_chunk_size /\ n % data_chunk_size = 0 THEN n - data_chunk_size ELSE n
SentSize == SentOf(size)

\* How much of the buffer the packets of a completed send() carry: everything, except that
\* a last chunk that should be full is empty (size % data_chunk_size is 0 then).
FullLastChunkIsEmpty ==
  pc = "returned" /\ Len(packets) = total_chunks /\ total_chunks > 0 =>
    buffer_offset = SentSize

\* send() returns, for every size, with or without a tx_handler.
SendReturns == pc = "loop" ~> pc = "returned"

\* A payload of any size is sent as a whole.
AllBytesSent ==
  pc = "returned" /\ return_status => buffer_offset = size
=============================================================================
