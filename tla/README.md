# packetserial in TLA+

Specifications, model-checking runs and machine-checked proofs for packetserial, a C library
that sends byte buffers or Protocol Buffers messages between two devices over a serial line.

## The system

| part | source | state it keeps | operations |
|---|---|---|---|
| PacketSerial sender | `src/src/PacketSerial.c` 15-113 | `tx_handler`; the locals of `send` | `send`, `build_packet`, `calculate_crc`, `register_tx_handler`, `clear_handlers` |
| PacketSerial receiver | `src/src/PacketSerial.c` 3-12, 101-196 | `rx_buffer`, `p_rx_buffer`, `rx_buffer_remaining`, `packet_buffer`, `packet_buffer_offset`, `rx_handler` | `process`, `packet_parser`, `reset_rx_buffer`, `reset_packet_buffer`, `register_rx_handler` |
| ProtoBuff handler table | `src/src/ProtoBuff.c` 1-4, 61-158 | `handlers`, `handlers_usage_mask` | `add_handler`, `clear_handlers`, the lookup of `unmarshal` |
| ProtoBuff codec calls | `src/src/ProtoBuff.c` 6-124 | none | `marshal`, `unmarshal`, `explicit_unmarshal`, `decode_union` |
| Message types | `src/src/messages` | none | the `pb_field_t` arrays and declared sizes |
| nanopb | `src/lib/nanopb-0.3.9.3` | the message being decoded, the blocks it owns | `pb_decode*`, `pb_encode*`, `pb_release`, the field decoders and encoders |
| COBS, COBS/R | `src/lib/cobs-c-0.5.0` | none | `cobs_encode`, `cobs_decode`, `cobsr_encode`, `cobsr_decode` |
| CRC-8 | `src/lib/crc8/Crc8.c` | none | `Crc8` |
| PacketDAO | `src/python/swig/PacketDAO.c` | ten rows for packets | `send_msg`, `tx_handler`, `clean_buffer`, `get_packet_buffer`, `generate_neopixel_pulse` |
| hexhelper, log | `src/src/hexhelper.c`, `src/lib/log` | none | text for the log |

**How they interact.** An application marshals a message with ProtoBuff and calls `send`. `send`
cuts the buffer into chunks of 15 bytes, wraps each in a `Packet` (data, sequence number, CRC,
flag), marshals it, encodes it with COBS, adds the delimiter 0 and calls `tx_handler`
synchronously. On the other device the UART driver calls `process`, usually from an interrupt,
with one byte or with a DMA block. `process` collects bytes until a chunk ends with the
delimiter, decodes the frame and has `packet_parser` append the packet's data to
`packet_buffer`; a `LAST` or `FIRSTLAST` packet hands the whole `packet_buffer` to `rx_handler`
or, without one, to `ProtoBuff.unmarshal`, which looks the message's type up in the handler
table and calls the handler, which takes the message with `decode_union`. There is no
acknowledgement, no retry and no timeout. PacketSerial's storage is static; nanopb allocates for
pointer fields.

**What is hard.**

- The interrupt looks into the handler table while the main program is adding or clearing, and
  calls `process` while the main program is inside one of the resets.
- Two counters describe the room in `rx_buffer` and part ways over failed frames and resets.
- Frames get lost or damaged, and the receiver looks at neither sequence number nor CRC.
- The application gets `packet_buffer` as a whole, however short the message is.
- Sizes are remainders and ceilings in `size_t`, and a failed `marshal` passes `(size_t)-1` on.
- The handler of a running `send` can refuse, or be exchanged.
- Chunk borders, COBS block borders, packet borders and message borders are independent.
- A decoder is given whatever arrives: fields missing, repeated, unknown, cut off or with the
  wrong type, and must neither overrun a struct nor lose an allocated block.

**What makes each part correct.** Sender: what is handed to `tx_handler` is the buffer, in order
and once, with flags by which the receiver can tell messages apart, and `true` means that all of
it was accepted. Receiver: no `strncpy` or `memcpy` leaves `rx_buffer` or `packet_buffer`, and the
application is given the data of the packets of one message and nothing else; an interrupted reset
spoils at most the message that interrupts it. (The array for the log's text does
overflow: see Findings.) Handler table: an atomic map from types to callbacks, whenever it is looked
at. Codec: frames round-trip, contain one zero and fit their buffers. nanopb: messages round-trip, and
what is accepted of any bytes fits its struct and owns exactly what `pb_release` frees. Together:
a line that loses nothing is a queue of messages; one that loses or damages frames is a queue of
those that arrive, each used once for what it decodes to, if anything.

## Modules

| module | what it is |
|---|---|
| `PacketSerialRx` | the receiver; every way through `process` is an action (`RejectChunk`, `StoreChunk`, `BadFrame`, `GoodFrame`, `UnhandledMessage`) |
| `Device` | the receiver with the two resets of the main program byte by byte and `process` in the interrupt between them |
| `PacketSerialTx` | the sender; an iteration of `send`'s loop is an action, because `tx_handler` is called, and may change, in each |
| `HandlerTable` | the table of `ProtoBuff.c`; one step per write that an interrupt can observe |
| `HandlerMap` | the abstract map that `HandlerTable` implements |
| `PacketLink` | one sender and one receiver (`INSTANCE` of both), the line between them, and the codec |
| `MessageLink` | the abstract message queue that `PacketLink` implements |
| `LossyLink` | `PacketLink` on a line that loses or damages frames, or whose `tx_handler` refuses them |
| `PacketQueue` | the abstract queue of frames, each a set of packets it may be taken for, that `LossyLink` implements |
| `NanopbStream` | nanopb's wire format: varints, tags, lengths, skipping, in both directions |
| `Descriptors` | `pb_field_t` and the macros of `pb.h` that build it |
| `Messages` | the descriptors of this repository's messages |
| `Nanopb` | `pb_decode.c`, `pb_encode.c` and `pb_common.c` on any message a descriptor array describes |
| `ProtoBuffCodec` | `marshal`, `unmarshal` and `decode_union` of `ProtoBuff.c` |
| `Cobs` | COBS and COBS/R |
| `PacketFormat` | a `Packet`: flags, size, CRC-8, its bytes on the wire |
| `Framing` | a frame from a marshalled packet and back, over what `marshal` and `unmarshal` do as parameters |
| `PacketCodec` | these parameters as nanopb and `ProtoBuffCodec` fill them in |
| `PacketDAO` | the rows, and what a pulse leaves in them |
| `PacketFrames` | every packet, its data growing byte by byte, and what its frame, CRC, row and texts must be |
| `HexHelper` | the texts of the log, as what is written where |
| `MC*` | instances for TLC |
| `*_proofs` | theorems of the module they extend |

**Receiver.** Variables have the C names; arrays are functions on `0..size-1` and pointers are
offsets. `retval` and `payload` are what the caller and the application see. `overrun` records
that a `strncpy` or `memcpy` left its array: C promises nothing from there on, so `process` is
not enabled any more. The reset in `GoodFrame`, the return of `p_rx_buffer` after every frame and
the emptying of `packet_buffer` after every message belong to the step that receives the
delimiter, as they do in the code. `arrived`, `leaked`, `assembled` and `message` are history. The
codec is the parameter `Decode`, a set of possible results because `decoded_data_array` has one
byte that is never written; `Unmarshal` is a set because handlers are up to the application.
`StrNCpy` stops at a NUL and pads, which matters when a chunk has a delimiter inside. The bytes
that may arrive are any (`Chunk`), with two restrictions that the specification `Spec` states by
name: `PeerRespectsSize` (a message fits `packet_buffer`; `SpecAnyPeer` does without) and
`ResetBetweenFrames` (`reset_rx_buffer` is not called inside a frame: it does not touch
`p_rx_buffer`). Empty chunks are left out, because `process` then reads the byte before its
argument.

**Device.** A reset is an assignment and a `memset`; the interrupt comes before, between and
after any of its bytes. `process` runs to completion, as an interrupt handler does. A reset of
`rx_buffer` starts between frames, but a frame may begin, arrive and end while it runs. `torn` and
`torn_payload` are history: a packet came during `reset_packet_buffer`.

**Sender.** A packet is described by the part of the buffer it carries (`offset`, `size`), its
sequence number modulo 2^8 and its flag. `size_t` and `unsigned int` have the same width
(`SIZE_MOD`), as on the 32-bit targets. `TransmitPacket`'s parameter is what `tx_handler` returns.

**Handler table.** `add_handler` claims a slot (the bit), writes the callback, then the type;
`clear_handlers` runs `memset` word by word, `type` before `callback` as in the struct, then
clears the mask. Writes are assumed to happen in program order and to be atomic per word:
`handlers` is `volatile` in the source, `handlers_usage_mask` is not. The lookup is one step: the
interrupt is not pre-empted by the main program.

**Links.** `Transmit` is an iteration of `send` together with a `tx_handler` that writes to the
line; `Receive` passes a piece of the line to `process`. A piece ends with a delimiter or holds
none, the assumption under which `process` works (a delimiter inside a chunk is covered by the
receiver alone). `in_flight` is history: it is appended to by `Send` and shortened when a piece
completes a message. In `LossyLink` the driver answers a `process` that returned false with
`reset_rx_buffer` (`Recover`) before it passes on more; nothing in the code repeats a frame.
`DamageFrame` puts one of `Damaged` of a frame on the line: the code compares no CRC, so what is
left may be no packet, the packet that was sent, or another one, with other data or another flag.
`on_line` is the set of what each frame may be taken for.
Delimiters are lost only with their frames: a lost delimiter alone glues two frames together and
leaves the receiver inside a frame, out of which no operation leads without risk (see the hazard
at `PacketSerial.c:122`). `on_line`, `promised`, `intact`, `ended` and `due` are history: `promised`
is what the application must be given when a frame ends its message, or `Spoilt` if nothing is.
What the links need of the codec are assumptions on constants, which TLC evaluates for the
codec of its instances. `CodecAssumption`: a packet that `send` may make of a message `Survives`,
which means that its frame holds no zero, has room in `rx_buffer` and decodes to its data and
flag. `DamageAssumption`, of `LossyLink` alone: a damaged frame has no more bytes than `rx_buffer`,
none of them the delimiter, and what it decodes to is a packet or none. A damaged frame is as long as
the one that was sent or shorter; that the codec yields packets is what the C type says. Which
packet is left open.

**nanopb.** A message maps each tag to a slot: a sequence that is empty where a `has_`
variable is false or a pointer `NULL`. Integers are the sets of their one bits, so that 64-bit
values stay within what TLC can count. Decoding, as in the C code, is a loop over tags with the
field iterator, the fixed-count array being filled, the set of required fields seen, and a
decoder for each combination of type, repetition and allocation. `live` counts blocks allocated
minus blocks freed. The build's flags are `PB_FIELD_16BIT` and `PB_ENABLE_MALLOC`. Assumed:
`realloc` succeeds; the destination was zeroed before, as `_init_zero` and static storage do; no
oneof has both static and pointer members; callbacks are in the outer message. The only callback
and extension handlers are one that reads and writes varints and nanopb's default one.

**Codec.** `Framing` is COBS over what `marshal` has written, and the delimiter; back,
`DecodeFrame` does not look at the status of COBS, as `process` does not, and yields one result for
each value that the unwritten byte may have. What `marshal` and `unmarshal` do is a pair of
parameters, `Marshalled` and `Unmarshalled`, because nanopb's messages recur through submessages.
The proofs know of nanopb what two assumptions of `PacketFrames` say. `MarshalAssumption`:
what `marshal` makes of a `Packet` is `Wire`, the wire format of Protocol Buffers as
`PacketFormat` writes it out (tags, lengths, varints, the CRC of the data), or a failure if that
does not fit. `UnmarshalAssumption`: a `Packet` is found in its own wire format, whatever the byte
behind it. TLC evaluates both for every packet of `codec` with nanopb's own `marshal` and
`unmarshal` (`PacketCodec`), so that the format is compared with the translation of
`pb_encode.c` and `pb_decode.c`. `Packet_size` is the generator's bound for
`packetserial.options`. A CRC is the set of its one bits; `Remainder` is the eight shifts of
`Crc8`. COBS is written block by block: the C loops copy bytes and patch the code of a block when
it ends. `StuffedFrom` and `UnstuffedFrom` are recursive functions on the positions at which a
block, or a code, may begin. Where a COBS encoding does not fit its buffer the part that is
written by then is left out; only the status is kept.

## Runs

| run | asks | bounds |
|---|---|---|
| `rx` | is the receiver memory-safe, its bookkeeping right, its payload exact? | `rx_buffer` 5, `packet_buffer` 3, bytes {0,1,2}, chunks up to 2 bytes |
| `rx_leak` | is `rx_buffer_remaining` the room that remains? **no** | same |
| `rx_any_peer` | can a message be of any size? **no** | same |
| `device` | what can an interrupt inside a reset do? | `rx_buffer` 4, `packet_buffer` 2, six chunks |
| `tx` | are chunks, flags and results right, does `send` return? | chunks of 3 bytes, sizes 0..20 and (size_t)-1, sequence numbers modulo 4 |
| `tx_all_bytes` | is every byte sent? **no** | same, without (size_t)-1 |
| `handlers` | is the table an atomic map for the interrupt? | 2 slots, 3 types, 2 callbacks |
| `handlers_any_type` | also for messages of unknown types? **no** | same |
| `link` | is a lossless line a message queue? | chunks of 3 bytes, `packet_buffer` 8, 5 messages of 1 to 3 packets, 2 in flight, pieces of 1, 6 or 21 bytes |
| `lossy` | does a fault stay where it happened? | 2 faults, 2 messages of 1 and 3 packets, pieces of 5 and 15 bytes, four kinds of damage, `packet_buffer` 21 |
| `codec` | do frames round-trip, have one zero, fit; what does the CRC notice; which log texts of them and of their chunks fit; does PacketDAO's row hold them? | data of every length 0..16; all data up to 2 bytes over {0,2,128,255}, then a repeated byte; sequence numbers 0 and 128 |
| `nanopb` | does a message survive the wire, what do other bytes do to the decoder, are the declared sizes right? | ten types; up to 2 fields assigned, or all of them; one fault: foreign field, truncation or a changed byte in the first 9, encoding sent twice |

Why the bounds are enough. `rx`: five bytes are room for two failed frames and a good one, for a
frame that exactly fills the buffer and for a chunk that does not fit; three bytes of
`packet_buffer` are filled by two packets and shortened by a third; the stand-in codec has frames
of every flag, one with no data, one that never decodes and one that may or may not. `device`:
two bytes of `packet_buffer` are enough for a packet on either side of the byte being cleared,
four of `rx_buffer` for a frame that grows through the one being cleared and for a refused chunk.
`tx`: sizes 0..20 cover no chunk, one, exactly one, several, and the exact multiples, and wrap the
sequence number. `handlers`: three types for two slots make the table full and let a type be
refused for either reason. `link`: messages start and end with zeros, cross packet borders with
zeros, and include a multiple of the chunk size. `lossy`: two faults hit two packets of one
message, two messages in a row, or a first and a last packet. A damaged frame is the bare delimiter;
or the last eleven bytes, which of the one-packet message are themselves a frame, of a packet
without data that ends a message; or its fifth byte is another one, which is data if there is any;
or its last byte is, the flag, so that the end of a message becomes its middle or the other way
round. 15 bytes of `rx_buffer` are just one frame, so that room kept by one damaged frame already
refuses the next; `packet_buffer` holds as many messages as two lost ends can join.
`codec`: the sequence number 128 and most CRCs take two bytes as a varint, 0 is the delimiter,
bytes from 128 on are those the log prints sign-extended; 2 and 255 differ in the bits of 253, the
one difference of neighbours whose exchange the CRC does not notice (see below); COBS is also
checked behind 252 to 254 bytes of another value, where its block ends.
`nanopb`: between them the types have every integer encoding, strings, bytes and submessages,
required, optional, singular, repeated, of a fixed count and in oneofs, static, as pointers, in a
callback and in extensions, each assigned its longest legal value on the wire or a zero; two fields
are enough for both members of a oneof and for a field on either side of a foreign one; all fields
at their longest is where the sizes of `alarmclock.pb.h` are reached, exactly but for the
terminators of strings; a changed byte turns tags, lengths, wire types and values into one another.

`codec` and `nanopb` have states without a successor (data of 16 bytes; a message that was
changed on its way), so they do not check deadlock; every other run does.

**Findings.** `tx_all_bytes`: a payload of two or more full chunks loses its last chunk and `send`
returns true. `rx_leak`: a failed frame keeps its bytes out of `rx_buffer_remaining`, so the
receiver stops accepting after a few bad frames. `rx_any_peer`: `packet_buffer` is filled without
a bound. `handlers_any_type`: a message of a type this build does not know is looked up as `NULL`
and can call a `NULL` callback while a slot is being filled or cleared. `link` and `lossy` compare
with what `send` transmits (`Transmitted`), so that the first finding does not hide what else they
show. `device` shows that a packet which arrives during `reset_packet_buffer` may be spoilt
(`ExactUnlessTorn` excepts it): no document promises otherwise, so it is not listed as a finding.

One more flaw is part of what a passing run says. `process` logs what it is given through
`stringn2hexstring` into `hex_str`, which has two characters for each byte and a `NUL`. Of a single
byte, which is how the repository's README passes them, the `NUL` is written one behind that array,
and a byte from 128 on as nine characters into three. `HexTextFits` of `codec` says of every chunk
of a frame which it is: the text stays in the array exactly if the chunk has six bytes or more, or
two or more with the last one printed below 128 (`LogHasRoom`). The overflow itself is undefined in
C and not modelled: the receiver's properties are about what the code says behind it.

**Fairness.** `PacketSerialTx` assumes weak fairness of the steps inside `send`: the loop is
synchronous C code and its handlers return. `PacketLink` and `LossyLink` assume it of the sender's
steps and of the driver that passes arrived bytes on and, in `LossyLink`, reacts to a failure;
`PacketQueue` promises in return that what is in the queue is taken sooner or later. Nothing is
assumed of the application, which need not send, nor of the line, which need not fail. The safety
properties need no fairness.

## Proofs

| module | theorems |
|---|---|
| `PacketSerialRx_proofs` | `RxTypeCorrect`, `RxNoOverrun`, `RxRoomAccounted`, `RxFrameFaithful`, `RxPacketBufferFaithful`, `RxPayloadExact` |
| `Device_proofs` | `DeviceNoOverrun`, `DeviceRoomAccounted`, `DeviceFramePrefix`, `DeviceExactUnlessTorn` |
| `PacketSerialTx_proofs` | `TxTypeCorrect`, `TxReadsInBounds`, `TxContiguous`, `TxFlagProtocol`, `TxTrueMeansAccepted`, `TxSentSize` |
| `HandlerTable_proofs` | `TableTypeCorrect`, `TableOneSlotPerType`, `TableSlotsConsistent`, `TableCallsRegistered`, `TableImplementsMap` |
| `PacketLink_proofs` | `LinkReceiverKeepsUp`, `LinkSafety` |
| `LossyLink_proofs` | `LossyNothingRefused`, `LossyIntactMessageExact`, `LossStaysLocalSafety` |
| `Cobs_proofs` | `CobsRoundTrips` |
| `PacketFrames_proofs` | `FramesRoundTrip`, `OneDelimiter`, `FramesFit`, `ChangesSeen`, `StuffingLosesNothing`, `TextsFit`, `LastFrameInRow`, `PacketSurvives`, `IntegersReadBack`, `FieldsReadBack`, `FieldsPassedOver`, `PacketIsWritten`, `PacketReadBack` |

They hold for every value of the constants that satisfies the named assumptions of the module,
which TLC evaluates for the instances.

- **Receiver.** `NoOverrun` is not inductive. That a chunk which passes the test against
  `rx_buffer_remaining` also fits behind `p_rx_buffer` needs `RoomAccounted`: the two and the
  bytes of failed frames add up to the array. That `strlen` finds the end of this frame, and not
  something a longer, failed frame left behind, needs `RxBufferFaithful`. That the payload is
  padded with zeros needs `PacketBufferFaithful` between packets. `Inv` is their conjunction with
  the types; a lemma says what `StrNCpy` and `MemCpy` leave alone.
- **Device.** `RxBufferFaithful` and `PacketBufferFaithful` fail while a reset is at work.
  `DeviceInv` has `FramePrefix` for the first: what is not zero up to `p_rx_buffer` is of this
  frame, which a byte cleared by `memset` keeps true. For the second it has `ClearedBehind`: as
  long as no packet has come during the reset, the bytes behind `memset` are zero, so that a
  reset that returns untorn leaves an empty buffer.
- **Sender.** `Inv` adds that after k iterations the offset is k full chunks (or everything that
  is going to be sent), that there are as many packets as iterations, and what the result says
  about refusals. The arithmetic of the ceiling and the remainder is in `ChunksFacts` and its
  neighbours.
- **Handler table.** `Inv` adds to the listed properties that while a slot is being filled its
  type is in no slot, and that during `memset` the slots passed are empty.
- **Refinement.** The map of the table gives a type the callback of the slot `find_handler` finds.
  `MapFacts` says this without `find_handler`; from it, `SetType` adds one entry (`SetTypeAdds`),
  a word cleared in `memset` drops at most one (`ClearWordDrops`), and every other step leaves the
  map alone. That `add_handler` refuses for want of a slot only when the map is full needs
  `UsedSlotsTyped` and a bijection between typed slots and registered types.
- **Lossless link.** Every step of the link is a step or a stutter of the sender and of the
  receiver, so that the invariants of both, instantiated as `TxProof!Inv` and `RxProof!Inv`, hold of
  it. `IInv` adds what ties the two together. `Sending`: the loop of `send` works on one message and
  its length. `Undisturbed`: nothing has failed and no room is lost. `Linked`: the line, behind the
  part of a frame that is already in `rx_buffer`, is a sequence of whole frames, and the packets in
  them, behind what `packet_buffer` holds, are the messages of `in_flight` one after the other, the
  last of them as far as it has been sent. From `CodecAssumption` each frame then decodes to its
  packet, whatever pieces it comes in. `LinkReceiverKeepsUp` follows, and `LinkSafety`: every step
  maps to a step of `MessageLink` or to a stutter. It is `LinkImplemented` without its fairness.
- **Lossy link.** `LossyInv` replaces `Linked`. `LineCarries`: the line is a sequence of frames, whole
  or damaged, and each decodes to its entry of `on_line`. `PacketsOwed`: there is a `had` that says,
  before each of these frames, what `packet_buffer` will hold, where that is certain. It is certain
  behind a frame that can only be taken for one packet (`Follows`): behind one that ends a message,
  where it is nothing, and behind one that continues what was certain before. An entry of `promised`
  that must be met is what `had` and the frame's packet make up together, and behind the last frame
  `had` is what has been sent of an intact message. After a damaged frame nothing is certain until a
  frame that arrived as it was sent ends a message, whatever packets the damaged ones are taken for.
  `RxState`: room is missing only while the driver has not yet reacted to a failure. A packet for
  which `packet_buffer` has no room ends `process` for good, so the theorems need no bound on how
  many messages grow together. `LossStaysLocalSafety` is `LossStaysLocal` without its fairness.
- **COBS.** `CobsRoundTrips` holds for every sequence of bytes that is not empty, where the run
  checks one or two bytes, alone or behind the 252 to 254 that make up a long block. `StuffedFromIs`
  and `UnstuffedFromIs` first show that the recursive functions exist: a function that satisfies the
  definition from some position on can be continued to the position before it. The round trip goes
  from the end of the source to its beginning (`Backwards`, by a least counterexample): what is
  written from a block on, behind any other bytes, is read as the source from there on. `BackMiddle`
  is the case of a block that others follow, `BackLast` that of the last one, which COBS/R may have
  reduced.
- **Frames.** The seven properties of `codec` hold for any data of up to `DATA_MAX` bytes, any
  sequence number, flag and residue, and any `DATA_MAX` from 2 to 117; the code has 16. The only
  invariant they need is that `packet` is a packet (`PacketAlways`): each is then a statement about
  the operators. `WireFacts` bounds the wire format, from 9 bytes to `DATA_MAX` + 11, and knows its
  last three bytes to be below 128. `StuffedShort`: COBS adds one byte to it, because it is shorter
  than a block. `FrameFacts` collects what follows for the frame; `OneDelimiter`, `FramesFit` and
  `FramesRoundTrip` use it, the last with `CobsRoundTrips`. `TextsFit`: a byte from 128 on is
  written as eight digits and a NUL over the room of the bytes behind it. The two texts that show
  every byte stay in their arrays because none of the last three bytes of a frame is one. The third
  shows the first third of a chunk, three characters apart: `ChunkTextFits` settles for every chunk
  whether it stays in the array, from the longest and the last thing written. `LastFrameInRow` goes
  by induction over the packets of a pulse (`SentFacts`): after each, the row is its frame up to
  the first zero, and a zero is in its last byte. That the packets of a pulse have proper data is
  the arithmetic of `send` once more (`PacketsFacts`).
- **CRC.** `Crc8` is linear over the sets of bits, with exclusive or as the sum: `RemainderTrace`
  follows the eight shifts of any byte bit by bit, `RemainderFacts` draws from it that `Remainder`
  is linear and injective and has exactly two fixed points, the empty set and `SwapUnseen`, and
  that no burst over two bytes comes out as its second byte. `CrcsFollow` takes a difference of
  two CRCs to the end of the data: what differs after some byte differs at the end, if the bytes
  behind are the same. `ChangesSeen` follows, and says exactly which swaps go unnoticed: the
  exchange of two neighbours that differ in the bits of 253, the polynomial divided by x + 1. That
  every swap is noticed would be false.
- **Codec of the links.** `PacketSurvives` shows that `Framing` meets what `PacketLink` and
  `LossyLink` assume of `Encode` and `Decode` (`Survives`, in an `rx_buffer` of the size it has in
  the code), for every packet about which the two assumptions on nanopb hold.
- **Wire format.** `NanopbStream` has no `RECURSIVE` operator, so what it writes and reads of any
  value is proved. Integers are sets of bits: `NumberFacts` says what a bit adds to their sum, and
  `NumberOfBits` and `BitsOfNumber` that numbers below 2^30 and sets of bits below 30 stand for each
  other. `GroupsJoined` puts groups of seven or eight bits together again. `IsVarint` says what
  `pb_encode_varint` writes, `VarintFound` that it is found at the beginning of any stream;
  `IntegersReadBack` draws on both, for the five bytes of `pb_decode_varint32`, the ten of a negative
  value and zigzag too. Tags and strings follow (`FieldsReadBack`), and that a field which is skipped
  is the field that was written, no more and no less (`FieldsPassedOver`). `PacketIsWritten` shows
  that `Wire`, over which everything about frames is proved, is made of the bytes these encoders
  write of the four fields; `PacketReadBack`, that the decoders find the four fields in it again.

**Only model-checked.** `SendReturns` and the liveness halves of `LinkImplemented` and
`LossStaysLocal`: liveness under fairness and `ENABLED` are out of the prover's reach. The six
properties of `nanopb` and the two assumptions on it: its messages recur through submessages, so
`Nanopb` and what uses it has `RECURSIVE` operators and cannot be used in a proof. That is why the
proofs take nanopb as parameters with assumptions, which TLC evaluates for the real one. After
`PacketIsWritten` and `PacketReadBack` what they assume is the loops over field descriptors: that
`pb_encode` writes the four fields in their order, behind the length, and `pb_decode` stores each
where its tag says, until a zero byte or the end.

## Not modelled

- `log`: prints, and keeps a level and a quiet flag that no other part reads.
- Unity and the tests, build files, the container and the notebook.
- Of nanopb: `realloc` failing, streams and extension handlers of the application's own,
  `PB_WITHOUT_64BIT` and the other build flags, the error texts.
- Of COBS: what an encoder has written when it reports an overflow.
- The getters of PacketSerial, `PacketDAO` beyond its own C file.
- Delimiters lost without their frames, resets inside a frame, chunks of size 0: see the hazards
  in `PROJECT.json` that say so.

Hazards that no property covers are listed with the reason under `hazards` in `PROJECT.json`.

## Plan

Done: the receiver, sender, handler table and their proofs; the lossless and the lossy link and
the proofs of their safety; the device with its interrupt; nanopb with all message types; COBS/R,
hexhelper and PacketDAO; the proofs that COBS and COBS/R return every source, of every property
of frames, checksums, rows and log texts, and of nanopb's wire format.

What is left, in this order:

1. A delimiter that is lost alone, with a driver that may reset at any time.
2. `decode_unionmessage_type` composed with the handler table, with `decode_union` in the handler.
