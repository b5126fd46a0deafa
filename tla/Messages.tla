------------------------------ MODULE Messages ------------------------------
(***************************************************************************)
(* The message types of the repository: alarmclock.pb.c as generated, and  *)
(* hid.proto and packetserial.proto as the generator of nanopb 0.3.9.3     *)
(* describes them, with the sizes and integer widths of the .options files *)
(* next to them.  A type is named as in its .proto.                        *)
(***************************************************************************)
EXTENDS Descriptors

RequiredUINT32(tag) == PB_REQUIRED_STATIC(tag, "UVARINT", 4, NULL)
RequiredString(tag, size) == PB_REQUIRED_STATIC(tag, "STRING", size, NULL)
\* The decoder does not look at the size of a submessage.
OptionalMessage(tag, type) == PB_OPTIONAL_STATIC(tag, "SUBMESSAGE", 0, type)

SpeechSynthMsg_fields == <<RequiredString(1, 256)>>
TimeMsg_fields == <<RequiredUINT32(1), RequiredUINT32(2), RequiredUINT32(3)>>
AlarmMsg_fields ==
  <<RequiredUINT32(1), RequiredUINT32(2), RequiredUINT32(3),
    PB_REQUIRED_STATIC(4, "VARINT", 1, NULL)>>
NeoPixelMsg_Color_fields == <<RequiredUINT32(1), RequiredUINT32(2), RequiredUINT32(3)>>
NeoPixelMsg_fields ==
  <<PB_REQUIRED_STATIC(1, "SUBMESSAGE", 0, "NeoPixelMsg_Color"),
    OptionalMessage(2, "NeoPixelMsg_Color"),
    RequiredUINT32(3), RequiredUINT32(4), PB_OPTIONAL_STATIC(5, "UVARINT", 4, NULL)>>

DeviceDescriptor_fields == <<RequiredString(1, 64), RequiredString(2, 64), RequiredUINT32(3)>>
HIDReport_fields == <<RequiredString(1, 256)>>
InputReport_fields == <<RequiredString(1, 64)>>

UnionMessage_fields ==
  <<OptionalMessage(1, "DeviceDescriptor"), OptionalMessage(2, "HIDReport"),
    OptionalMessage(3, "InputReport"), OptionalMessage(4, "SpeechSynthMsg"),
    OptionalMessage(5, "TimeMsg"), OptionalMessage(6, "AlarmMsg"),
    OptionalMessage(7, "NeoPixelMsg")>>

\* sequence_number and crc are one byte wide; data is a pb_bytes_array_t of data_max bytes.
Packet_fields(data_max) ==
  <<PB_REQUIRED_STATIC(1, "BYTES", data_max + 2, NULL),
    PB_REQUIRED_STATIC(2, "UVARINT", 1, NULL), PB_REQUIRED_STATIC(3, "UVARINT", 1, NULL),
    RequiredUINT32(4)>>

ApplicationFields ==
  [SpeechSynthMsg |-> SpeechSynthMsg_fields, TimeMsg |-> TimeMsg_fields,
   AlarmMsg |-> AlarmMsg_fields, NeoPixelMsg |-> NeoPixelMsg_fields,
   NeoPixelMsg_Color |-> NeoPixelMsg_Color_fields,
   DeviceDescriptor |-> DeviceDescriptor_fields, HIDReport |-> HIDReport_fields,
   InputReport |-> InputReport_fields, UnionMessage |-> UnionMessage_fields]

\* The largest encoding of each type, from alarmclock.pb.h.
DeclaredSize ==
  [SpeechSynthMsg |-> 259, TimeMsg |-> 18, AlarmMsg |-> 20, NeoPixelMsg |-> 54,
   NeoPixelMsg_Color |-> 18]
=============================================================================
