---------------------------- MODULE PacketFrames ----------------------------
(***************************************************************************)
(* What frames, checksums, rows and texts of the log have to be for every  *)
(* packet: a state is one packet, whose data grows byte by byte.           *)
(***************************************************************************)
EXTENDS PacketDAO, HexHelper

CONSTANTS
  Data,        \* the data of packets
  ByteValue,   \* values of a data byte, and of what takes its place on a disturbed line
  SeqNo,       \* values of a sequence number
  Prefix       \* how many bytes may be in front of data in a source of COBS

ASSUME DataAssumption ==
  /\ \A data \in Data : data \in Seq(Octet) /\ Len(data) <= DATA_MAX
  /\ ByteValue \subseteq Octet /\ SeqNo \subseteq Octet /\ Residue \subseteq Octet
  /\ Residue # {} /\ Prefix \subseteq Nat

\* The pulse's message fits my_buffer, and is not empty.
ASSUME PulseAssumption == Pulse.ok = TRUE /\ Pulse.bytes \in Seq(Octet) \ {<<>>}

Packet == [data : Data, sequence_number : SeqNo, flag : Flags]
LongestPacket == [data |-> [k \in 1..DATA_MAX |-> 255], sequence_number |-> 255, flag |-> "LAST"]
SentPackets == Packet \union {LongestPacket} \union Range(Packets(Pulse.bytes))

\* marshal() writes the wire format of a Packet, and fails if that does not fit.
ASSUME MarshalAssumption ==
  \A p \in SentPackets :
    Marshalled(p) = [ok |-> Len(Wire(p)) <= Packet_size, bytes |-> Wire(p)]

\* A Packet is found in what marshal() made of it, whatever the byte behind it.
ASSUME UnmarshalAssumption ==
  \A p \in Packet, residue \in Residue :
    Unmarshalled(Wire(p) \o <<residue>>) = [data |-> p.data, flag |-> p.flag]

-----------------------------------------------------------------------------
VARIABLE packet

Init == packet \in [data : {<<>>} \intersect Data, sequence_number : SeqNo, flag : Flags]

Grow(b) ==
  /\ Append(packet.data, b) \in Data
  /\ packet' = [packet EXCEPT !.data = Append(@, b)]

Next == \E b \in ByteValue : Grow(b)

Spec == Init /\ [][Next]_packet

-----------------------------------------------------------------------------
\* The receiver gets back the data and the flag, whatever is in the unwritten byte of its
\* decoded_data_array.
RoundTrip ==
  LET encoded == EncodePacket(packet) IN
  DecodeFrame(SubSeq(encoded, 1, Len(encoded) - 1))
    = {[data |-> packet.data, flag |-> packet.flag]}

\* The only zero of a frame is its delimiter: strlen() in process() finds the frame's end.
DelimiterOnlyAtEnd ==
  LET encoded == EncodePacket(packet) IN
  \A k \in 1..Len(encoded) : encoded[k] = 0 <=> k = Len(encoded)

\* The marshalled packet fits unencoded_buffer, and the frame with its delimiter fits
\* encoded_buffer and the receiver's rx_buffer.
FrameFits ==
  /\ Marshalled(packet).ok
  /\ Len(Marshalled(packet).bytes) <= Packet_size
  /\ Stuffing(packet).ok
  /\ Len(EncodePacket(packet)) <= Packet_size + 1

\* What a line that sends the highest bit first can do to neighbouring bytes: the bits that
\* change, of the first and the second one, are within eight bits.
Burst(first, second) == \A i \in first, j \in second : i < j
Changed(a, b) == Xor(BitsOf[a], BitsOf[b])
Replaced(data, k, a, b) ==
  [i \in 1..Len(data) |-> IF i = k THEN a ELSE IF i = k + 1 THEN b ELSE data[i]]

\* The only bits, 253 as a number, in which two neighbours may differ without the CRC taking
\* notice of their exchange: the polynomial divided by x + 1.
SwapUnseen == {0, 2, 3, 4, 5, 6, 7}

\* The CRC of the data is another one after every change within eight neighbouring bits, and
\* after an exchange of two neighbouring bytes, unless they are the same or differ in the bits
\* of 253.
CrcTellsApart ==
  LET data == packet.data
      crc == calculate_crc(data)
  IN  /\ \A k \in 1..Len(data), a \in ByteValue :
           a # data[k] => calculate_crc([data EXCEPT ![k] = a]) # crc
      /\ \A k \in 1..Len(data) - 1, a \in ByteValue, b \in ByteValue :
           /\ Burst(Changed(data[k], a), Changed(data[k+1], b))
           /\ Replaced(data, k, a, b) # data
           => calculate_crc(Replaced(data, k, a, b)) # crc
      /\ \A k \in 1..Len(data) - 1 :
           calculate_crc(Replaced(data, k, data[k+1], data[k])) = crc
             <=> Changed(data[k], data[k+1]) \in {{}, SwapUnseen}

\* COBS and COBS/R with the data, alone or behind bytes that make up a block which is just not
\* long enough to be closed, or just long enough.
Sources == {[k \in 1..n |-> 255] \o packet.data : n \in Prefix}
StuffingRoundTrip == \A s \in Sources \ {<<>>} : RoundTrips(s)

\* The text of a chunk that process() is called with stays in its hex_str.
LogFits(chunk) == Len(stringn2hexstring(chunk, Len(chunk))) <= 2 * Len(chunk) + 1
ChunksOf(frame) == {SubSeq(frame, m, n) : m, n \in 1..Len(frame)} \ {<<>>}

\* It does so unless the chunk is a single byte, or has up to five bytes and the last of the
\* third of them that is printed takes eight digits.
LogHasRoom(chunk) ==
  LET n == Len(chunk) IN n >= 6 \/ (n >= 2 /\ chunk[(n + 2) \div 3] < 128)

\* The texts that send() and process() log of a whole frame stay in the arrays they have for
\* them, although a byte from 128 on is written as eight digits: no frame ends with one.  Of
\* the chunks of a frame, on the other hand, exactly those with LogHasRoom have a text that
\* stays in the array: a driver that passes single bytes to process() overruns it with each.
HexTextFits ==
  LET frame == EncodePacket(packet)
      n == Len(frame)
  IN  /\ Len(string2hexstring(Marshalled(packet).bytes)) <= 2 * n + 1
      /\ Len(string2hexstring(frame)) <= 2 * (n - 1) + 1
      /\ \A chunk \in ChunksOf(frame) : LogFits(chunk) <=> LogHasRoom(chunk)

\* The 32 bytes of row 0, which the notebook transmits, are for process() the one frame of
\* the last packet, whatever was sent before it, the packets of a pulse included; without
\* a handler they are as they were.  Of the two packets of a pulse, then, only the second
\* is left: tx_handler writes both to row 0, and the first one is lost.
UpToDelimiter(row) == SubSeq(row, 1, Min({k \in 1..Len(row) : row[k] = 0}))
Holds(rows, frame) ==
  LET row == get_packet_buffer(rows, 0) IN
  Len(row) = ROW_SIZE /\ row[ROW_SIZE] = 0 /\ UpToDelimiter(row) = frame
PulseSent == generate_neopixel_pulse(init).packet_buffer
RowIsOneFrame ==
  LET frame == EncodePacket(packet) IN
  /\ \A rows \in {clean_buffer, PulseSent, tx_handler(clean_buffer, EncodePacket(LongestPacket))} :
       Holds(tx_handler(rows, frame), frame)
  /\ Holds(PulseSent, EncodePacket(Last(Packets(Pulse.bytes))))
  /\ generate_neopixel_pulse(unregistered) = [packet_buffer |-> clean_buffer, value |-> -1]
=============================================================================
