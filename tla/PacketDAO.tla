----------------------------- MODULE PacketDAO -----------------------------
(***************************************************************************)
(* PacketDAO.c, which keeps the frames a host process makes for the SPI    *)
(* master that a notebook drives: the rows of packet_buffer.  handler is   *)
(* what PacketSerial has registered: NULL or "tx_handler".                 *)
(***************************************************************************)
EXTENDS Framing

CONSTANT Pulse   \* what marshal() makes of the message of generate_neopixel_pulse()

ROWS == 10
ROW_SIZE == 32

\* A row has room for the longest Packet the generator expects.
ASSUME RowAssumption == Packet_size <= ROW_SIZE

clean_buffer == [index \in 0..ROWS - 1 |-> [k \in 1..ROW_SIZE |-> 0]]

\* Always the first row; what a longer frame has left behind it stays.
tx_handler(packet_buffer, frame) ==
  [packet_buffer EXCEPT ![0] = frame \o SubSeq(@, Len(frame) + 1, ROW_SIZE)]

get_packet_buffer(packet_buffer, index) == packet_buffer[index]

init == "tx_handler"
unregistered == "NULL"

\* The packets PacketSerial.send() makes of a buffer; the last has the remainder.
Packets(buffer) ==
  LET chunk == DATA_MAX - 1
      total == (Len(buffer) + chunk - 1) \div chunk
      size(i) == IF total = 1 THEN Len(buffer)
                 ELSE IF i < total - 1 THEN chunk ELSE Len(buffer) % chunk
      flag(i) == IF total = 1 THEN "FIRSTLAST" ELSE IF i = 0 THEN "FIRST"
                 ELSE IF i < total - 1 THEN "CONTINUE" ELSE "LAST"
  IN  [k \in 1..total |->
         [data |-> SubSeq(buffer, (k-1) * chunk + 1, (k-1) * chunk + size(k-1)),
          sequence_number |-> (k - 1) % 256, flag |-> flag(k-1)]]

\* The rows after each of the packets.
Sent(packet_buffer, packets) ==
  LET rows[k \in 0..Len(packets)] ==
        IF k = 0 THEN packet_buffer ELSE tx_handler(rows[k-1], EncodePacket(packets[k]))
  IN  rows[Len(packets)]

\* For a message that does not fit my_buffer send() is given (size_t)-1, of which it makes
\* no packet.  The number returned is packet_cnt, which nothing but clean_buffer() sets.
send_msg(packet_buffer, handler, marshalled) ==
  LET packets == IF marshalled.ok THEN Packets(marshalled.bytes) ELSE <<>> IN
  IF handler = unregistered /\ packets # <<>>
  THEN [packet_buffer |-> packet_buffer, value |-> -1]
  ELSE [packet_buffer |-> Sent(packet_buffer, packets), value |-> 0]

generate_neopixel_pulse(handler) == send_msg(clean_buffer, handler, Pulse)
=============================================================================
