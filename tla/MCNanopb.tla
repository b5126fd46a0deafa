------------------------------ MODULE MCNanopb ------------------------------
(***************************************************************************)
(* ProtoBuffCodec and Nanopb on messages of the application and on types   *)
(* that have every kind of field: a message is filled in field by field,   *)
(* each time encoded, and its encoding may then reach the decoder changed. *)
(***************************************************************************)
EXTENDS ProtoBuffCodec, Messages

CONSTANTS
  Roots,      \* the types that are sent
  MAX_SET,    \* fields assigned in one message
  MAX_AT,     \* the last position changed in an encoding
  Garbage,    \* what a changed byte may become
  \* The calls under test, the MC definitions below.  As constants they are leaves for TLC's
  \* coverage, which otherwise follows every path of calls through the codec.
  Encoding(_, _), Decoding(_, _), DelimitedDecoding(_, _), TerminatedDecoding(_, _),
  Freed(_, _), Cleared(_, _, _), Found(_), Taken(_, _)

VARIABLES type, msg, set, stream, fault
vars == <<type, msg, set, stream, fault>>

TestFields ==
  [Leaf     |-> <<PB_OPTIONAL_STATIC(1, "SVARINT", 1, NULL),
                  PB_OPTIONAL_POINTER(2, "STRING", 1, NULL)>>,
   Arrays   |-> <<PB_REPEATED_STATIC(1, "UVARINT", 1, 2, NULL),
                  PB_REPEATED_FIXED_COUNT(2, "FIXED32", 4, 2, NULL),
                  PB_REPEATED_STATIC(3, "SUBMESSAGE", 0, 2, "Leaf")>>,
   Pointers |-> <<PB_REQUIRED_POINTER(1, "BYTES", 1, NULL),
                  PB_REPEATED_POINTER(2, "STRING", 1, NULL),
                  PB_OPTIONAL_POINTER(3, "SUBMESSAGE", 0, "Leaf"),
                  PB_REPEATED_POINTER(4, "UVARINT", 2, NULL)>>,
   Oneofs   |-> <<PB_ONEOF_POINTER("content", 1, "SUBMESSAGE", 0, "Leaf"),
                  PB_ONEOF_POINTER("content", 2, "STRING", 1, NULL),
                  PB_ONEOF_STATIC("choice", 3, "FIXED64", 8, NULL),
                  PB_ONEOF_STATIC("choice", 4, "BYTES", 4, NULL)>>,
   Extended |-> <<PB_SINGULAR_STATIC(1, "VARINT", 2, NULL),
                  PB_REPEATED_CALLBACK(2, "UVARINT"),
                  PB_REQUIRED_STATIC(3, "FIXED_LENGTH_BYTES", 2, NULL),
                  EXTENSION(10)>>]
MCFields == ApplicationFields @@ TestFields @@ [Packet |-> Packet_fields(2)]

\* The extensions an application links into Extended.
Extensions(number, text) ==
  <<Extension(PB_OPTEXT_STATIC(11, "UVARINT", 1, NULL), TRUE, <<number>>),
    Extension(PB_OPTEXT_POINTER(12, "STRING", 1, NULL), text # <<>>, text)>>

\* A receiver's zeroed message, its callbacks set and its extensions linked.
Destination(t) ==
  [tag \in Tags(t) |->
     IF FieldAt(t, tag).ltype = "EXTENSION" THEN Extensions({}, <<>>)
     ELSE IF FieldAt(t, tag).atype = "CALLBACK" THEN << <<>> >>
     ELSE Zeroed(t)[tag]]

-----------------------------------------------------------------------------
(* Messages to send. *)

\* The value of a field that is longest on the wire, in a submessage that of every field.
RECURSIVE Longest(_)
LongestSlot(f) ==
  CASE f.atype = "POINTER" /\ f.htype = "REPEATED" ->
         IF IsString(f) THEN << << << <<>> >>, <<Longest(f)>> >> >> ELSE << <<{}, Longest(f)>> >>
    [] f.atype = "STATIC" /\ f.htype = "REPEATED" -> [k \in 1..f.array_size |-> Longest(f)]
    [] f.atype = "CALLBACK" /\ f.ltype # "EXTENSION" -> << <<{}, 0..63>> >>
    [] f.ltype = "EXTENSION" -> Extensions(0..7, << <<66>> >>)
    [] OTHER -> <<Longest(f)>>
Longest(f) ==
  CASE f.ltype = "UVARINT" -> 0..8 * f.data_size - 1
    [] f.ltype = "VARINT"  -> IF f.data_size = 1 THEN {0} ELSE 8 * f.data_size - 1..63
    [] f.ltype = "SVARINT" -> 8 * f.data_size - 1..63
    [] f.ltype = "FIXED32" -> 0..31
    [] f.ltype = "FIXED64" -> {0, 63}
    [] f.ltype = "BYTES"   -> <<0, 255>>
    [] f.ltype = "STRING"  -> [k \in 1..IF f.atype = "STATIC" THEN f.data_size - 1 ELSE 2 |-> 65]
    [] f.ltype = "SUBMESSAGE" -> [tag \in Tags(f.ptr) |-> LongestSlot(FieldAt(f.ptr, tag))]
    [] OTHER -> [k \in 1..f.data_size |-> k]

\* The longest slot that is legal: an enum holds one of the values its .proto declares, PULSE
\* and FIRSTLAST being the largest.
LegalSlot(f) ==
  CASE type = "NeoPixelMsg" /\ f.tag = 4 -> << {1, 2} >>
    [] type = "Packet" /\ f.tag = 4 -> << {0, 1} >>
    [] OTHER -> LongestSlot(f)

\* Beside the longest one, a single zero and, for an array, a single item.
Slots(f) ==
  {LegalSlot(f)} \union
  CASE f.atype = "CALLBACK" \/ f.ltype = "EXTENSION" \/ FixedCount(f) -> {}
    [] f.atype = "STATIC" /\ f.htype = "REPEATED" -> {<<Fresh(f)>>}
    [] f.atype = "POINTER" /\ f.htype = "REPEATED" ->
         {<< <<IF IsString(f) THEN <<Zero(f)>> ELSE Fresh(f)>> >>}
    [] OTHER -> {<<Fresh(f)>>}

Start(t) == pb_message_set_to_defaults(t, Destination(t))

MCEncoding(t, m) == LET r == marshal(t, m, PB_SIZE_MAX, FALSE) IN r
MCDecoding(t, s) == LET r == pb_decode(t, s, Destination(t)) IN r
\* From a buffer that goes on behind the length of the message, or its terminating zero.
MCDelimitedDecoding(t, m) ==
  LET bytes == pb_encode_delimited(t, m).bytes IN
  pb_decode_delimited_noinit(t, bytes \o <<255>>, Start(t))
MCTerminatedDecoding(t, m) ==
  LET bytes == pb_encode_nullterminated(t, m).bytes IN
  pb_decode_nullterminated(t, bytes \o <<255>>, Destination(t))
MCFreed(t, m) == LET r == pb_release(t, m) IN r
MCCleared(t, f, m) == LET r == pb_release_union_field(t, f, m) IN r
MCFound(s) == LET bytes == pb_encode_string(s) IN unmarshal(bytes \o <<0>>, TRUE)
MCTaken(s, t) == LET r == decode_union(s, t, Zeroed(t)) IN r

Init ==
  /\ type \in Roots
  /\ msg = [tag \in Tags(type) |-> IF FieldAt(type, tag).ltype = "EXTENSION"
                                   THEN Destination(type)[tag] ELSE Start(type)[tag]]
  /\ set = {} /\ stream = Encoding(type, msg).bytes /\ fault = "none"

\* The application fills in a field; setting a member of a oneof takes away the other one.
Assign(f) ==
  /\ fault = "none" /\ f.tag \notin set /\ Cardinality(set) < MAX_SET
  /\ set' = set \union {f.tag}
  /\ \E slot \in Slots(f) :
       msg' = [Cleared(type, f, msg).value EXCEPT ![f.tag] = slot]
  /\ stream' = Encoding(type, msg').bytes
  /\ UNCHANGED <<type, fault>>

\* The application fills in all fields of a message without oneofs.
FillIn ==
  /\ fault = "none" /\ set = {}
  /\ \A tag \in Tags(type) : FieldAt(type, tag).union = NULL
  /\ set' = Tags(type)
  /\ msg' = [tag \in Tags(type) |-> LegalSlot(FieldAt(type, tag))]
  /\ stream' = Encoding(type, msg').bytes
  /\ UNCHANGED <<type, fault>>

\* A peer with a newer .proto has written a field nobody knows here: a varint whose byte
\* is the tag of a known one.
Foreign == <<120, 10>>
AddForeign ==
  /\ fault = "none"
  /\ stream' \in {Foreign \o stream, stream \o Foreign}
  /\ fault' = "foreign" /\ UNCHANGED <<type, msg, set>>

Changed(changed) ==
  /\ fault = "none"
  /\ stream' = changed
  /\ fault' = "changed" /\ UNCHANGED <<type, msg, set>>

Truncate == \E k \in 0..MAX_AT : k < Len(stream) /\ Changed(SubSeq(stream, 1, k))
Corrupt ==
  \E k \in 1..MAX_AT, byte \in Garbage :
    k <= Len(stream) /\ Changed([stream EXCEPT ![k] = byte])
\* Two encodings in one buffer; the fields of the second are merged into the first.
Repeat == Changed(stream \o stream)

Next ==
  \/ \E k \in DOMAIN Fields[type] : Assign(Fields[type][k])
  \/ FillIn \/ AddForeign \/ Truncate \/ Corrupt \/ Repeat
Spec == Init /\ [][Next]_vars

-----------------------------------------------------------------------------
\* A message that was encoded is decoded as it was, also from a buffer that goes on behind
\* its length or its terminating zero, and fields that the receiver does not know change
\* nothing.
Restored(r) == r.ok /\ r.value = msg
RoundTrip ==
  fault \in {"none", "foreign"} /\ Encoding(type, msg).ok =>
    /\ Restored(Decoding(type, stream))
    /\ Restored(DelimitedDecoding(type, msg))
    /\ Restored(TerminatedDecoding(type, msg))

\* Whatever bytes arrive: a message that is refused leaves no block allocated, and one that
\* is accepted owns exactly the blocks pb_release() frees.
NothingLeaks ==
  LET r == Decoding(type, stream) IN
  r.live = IF r.ok THEN Freed(type, r.value).freed ELSE 0

\* Whatever bytes arrive, what is accepted has its required fields and at most one member of
\* each oneof, and fits the arrays and integers of its struct.
RECURSIVE FitsStruct(_, _)
ItemFits(f, item) ==
  CASE f.ltype = "UVARINT" -> item \subseteq 0..8 * f.data_size - 1
    [] f.ltype \in {"VARINT", "SVARINT"} -> Fits(f, item)
    [] f.ltype = "FIXED32" -> item \subseteq 0..31
    [] f.ltype = "FIXED64" -> item \subseteq 0..63
    [] f.ltype = "BYTES"   -> f.atype = "POINTER" \/ 2 + Len(item) <= f.data_size
    [] f.ltype = "STRING"  -> f.atype = "POINTER" \/ Len(item) < f.data_size
    [] f.ltype = "SUBMESSAGE" -> FitsStruct(f.ptr, item)
    [] OTHER -> Len(item) = f.data_size
SlotFits(f, slot) ==
  CASE f.ltype = "EXTENSION" \/ f.atype = "CALLBACK" -> TRUE
    [] f.atype = "POINTER" /\ f.htype = "REPEATED" -> TRUE
    [] OTHER -> /\ Len(slot) <= IF f.htype = "REPEATED" THEN f.array_size ELSE 1
                /\ \A k \in DOMAIN slot : ItemFits(f, slot[k])
FitsStruct(t, m) ==
  /\ \A tag \in Tags(t) : SlotFits(FieldAt(t, tag), m[tag])
  /\ \A tag \in Tags(t) : FieldAt(t, tag).htype = "REQUIRED" => m[tag] # <<>>
  /\ \A a, b \in Tags(t) :
       FieldAt(t, a).union # NULL /\ FieldAt(t, a).union = FieldAt(t, b).union
         => a = b \/ m[a] = <<>> \/ m[b] = <<>>
DecodedFits ==
  LET r == Decoding(type, stream) IN r.ok => FitsStruct(type, r.value)

\* Whatever bytes arrive: what is accepted can be encoded and is decoded from there as it
\* was, so that a device which passes a message on changes nothing.
Linked(m) ==
  [tag \in DOMAIN m |-> IF FieldAt(type, tag).ltype = "EXTENSION"
                        THEN [k \in DOMAIN m[tag] |-> m[tag][k].slot] ELSE m[tag]]
PassedOnUnchanged ==
  LET r == Decoding(type, stream)
      again == Encoding(type, r.value)
      r2 == Decoding(type, again.bytes)
  IN  r.ok => again.ok /\ r2.ok /\ Linked(r2.value) = Linked(r.value)


\* No message is longer than alarmclock.pb.h tells its senders to make their buffers, and
\* what it tells them is no more than the longest values take, but for the byte that a
\* string's terminator would need.
FitsDeclaredSize ==
  type \in DOMAIN DeclaredSize /\ fault = "none" =>
    /\ Len(stream) <= DeclaredSize[type]
    /\ set = Tags(type) /\ (\A tag \in Tags(type) : msg[tag] = LegalSlot(FieldAt(type, tag))) =>
         Len(stream) = DeclaredSize[type] - Cardinality({tag \in Tags(type) :
                                                IsString(FieldAt(type, tag))})
=============================================================================
