------------------------------- MODULE Nanopb -------------------------------
(***************************************************************************)
(* nanopb 0.3.9.3: pb_decode(), pb_encode() and pb_release() on a message   *)
(* described by its pb_field_t array, as the Makefile builds them           *)
(* (PB_FIELD_16BIT, PB_ENABLE_MALLOC).                                     *)
(*                                                                         *)
(* A message maps the tag of each field to a slot, a sequence:             *)
(*   static     <<value>>; <<>> for an optional or oneof member that is    *)
(*              not there; the items of a repeated one                     *)
(*   pointer    <<>> for NULL, else <<what it points to>>; for a repeated  *)
(*              one <<items>>, a string or bytes item being a pointer too  *)
(*   callback   <<>> for NULL, else <<the values it was called with>>      *)
(*   extension  the list of [field, found, slot] the application linked    *)
(* Integers are sets of bits, strings end before their NUL.                *)
(*                                                                         *)
(* A decoding operator returns what it stored also when it fails, for      *)
(* pb_release() to free; live is the number of blocks it allocated minus   *)
(* those it freed.  realloc() succeeds, the destination was zeroed, and    *)
(* no oneof has both static and pointer members.                           *)
(***************************************************************************)
EXTENDS NanopbStream, Descriptors, TLC

CONSTANT Fields   \* the descriptor array of each message type

PB_SIZE_MAX == 65535

ASSUME FieldsAssumption ==
  \A type \in DOMAIN Fields : \A k \in DOMAIN Fields[type] :
    LET f == Fields[type][k] IN
    /\ f.tag \in 1..PB_SIZE_MAX
    /\ f.ltype \in LType /\ f.htype \in HType /\ f.atype \in AType
    /\ f.ltype = "SUBMESSAGE" => f.ptr \in DOMAIN Fields

FieldAt(type, tag) == SelectSeq(Fields[type], LAMBDA f : f.tag = tag)[1]
Tags(type) == {Fields[type][k].tag : k \in DOMAIN Fields[type]}
pb_field_iter_find(type, tag) ==
  SelectSeq(Fields[type], LAMBDA f : f.tag = tag /\ f.ltype # "EXTENSION")
find_extension_field(type) == SelectSeq(Fields[type], LAMBDA f : f.ltype = "EXTENSION")

FixedCount(f) == f.htype = "REPEATED" /\ f.atype = "STATIC" /\ ~f.has
IsString(f) == f.ltype \in {"STRING", "BYTES"}

\* Operators on messages recur through submessages.
RECURSIVE pb_message_set_to_defaults(_, _), pb_decode_noinit(_, _, _), DecodeFields(_, _),
          pb_decode(_, _, _), pb_release(_, _), pb_encode(_, _), ProtoDefault(_, _),
          PackedItems(_, _, _), CallbackValues(_)

-----------------------------------------------------------------------------
(* Defaults. *)

Zero(f) == CASE f.ltype \in Packable -> {}
             [] f.ltype = "FIXED_LENGTH_BYTES" -> [k \in 1..f.data_size |-> 0]
             [] OTHER -> <<>>
Zeroed(type) ==
  [tag \in Tags(type) |->
     LET f == FieldAt(type, tag) IN
     IF FixedCount(f) THEN [k \in 1..f.array_size |-> Zero(f)] ELSE <<>>]

Initial(f, slot) ==
  IF f.ltype = "SUBMESSAGE"
  THEN pb_message_set_to_defaults(f.ptr, IF slot = <<>> THEN Zeroed(f.ptr) ELSE slot[1])
  ELSE IF f.ptr # NULL THEN f.ptr
  ELSE Zero(f)

pb_field_set_to_default(f, slot) ==
  CASE f.ltype = "EXTENSION" ->
         [k \in DOMAIN slot |->
            [slot[k] EXCEPT !.found = FALSE,
                            !.slot = IF slot[k].field.atype = "POINTER" THEN <<>>
                                     ELSE <<Initial(slot[k].field, @)>>]]
    [] f.ltype # "EXTENSION" /\ f.atype = "CALLBACK" -> slot
    [] FixedCount(f) -> slot
    [] f.atype = "STATIC" /\ ~f.has /\ ~FixedCount(f) -> <<Initial(f, slot)>>
    [] OTHER -> <<>>

pb_message_set_to_defaults(type, dest) ==
  [tag \in Tags(type) |-> pb_field_set_to_default(FieldAt(type, tag), dest[tag])]

Default(type) == pb_message_set_to_defaults(type, Zeroed(type))

-----------------------------------------------------------------------------
(* Release: freed counts the blocks given back. *)

Total(seq) == FoldLeft(LAMBDA sum, r : sum + r.freed, 0, seq)

ReleaseItems(type, items) == [k \in DOMAIN items |-> pb_release(type, items[k])]
Values(released) == [k \in DOMAIN released |-> released[k].value]

\* A static slot: what its submessages point to.
ReleaseStatic(f, slot) ==
  LET items == ReleaseItems(f.ptr, slot) IN
  IF f.ltype = "SUBMESSAGE" THEN [freed |-> Total(items), value |-> Values(items)]
  ELSE [freed |-> 0, value |-> slot]

\* What a pointer's block points to.
Inner(f, target) ==
  CASE f.ltype = "SUBMESSAGE" ->
         Total(ReleaseItems(f.ptr, IF f.htype = "REPEATED" THEN target ELSE <<target>>))
    [] IsString(f) /\ f.htype = "REPEATED" ->
         Cardinality({k \in DOMAIN target : target[k] # <<>>})
    [] OTHER -> 0

ReleaseField(f, slot) ==
  CASE f.atype = "CALLBACK" -> [freed |-> 0, value |-> slot]
    [] f.atype = "POINTER" ->
         [freed |-> IF slot = <<>> THEN 0 ELSE 1 + Inner(f, slot[1]), value |-> <<>>]
    [] OTHER -> ReleaseStatic(f, slot)

pb_release_single_field(f, slot) ==
  LET exts == [k \in DOMAIN slot |-> ReleaseField(slot[k].field, slot[k].slot)] IN
  IF f.ltype = "EXTENSION"
  THEN [freed |-> Total(exts),
        value |-> [k \in DOMAIN slot |-> [slot[k] EXCEPT !.slot = exts[k].value]]]
  ELSE ReleaseField(f, slot)

pb_release(type, dest) ==
  LET Released(tag) == pb_release_single_field(FieldAt(type, tag), dest[tag]) IN
  [freed |-> MapThenSumSet(LAMBDA tag : Released(tag).freed, Tags(type)),
   value |-> [tag \in Tags(type) |-> Released(tag).value]]

-----------------------------------------------------------------------------
(* Field decoders. *)

\* An integer in the size of its field.
Fits(f, value) == SignExtended(Low(value, 8 * f.data_size), 8 * f.data_size) = value
Checked(r, fits) == IF ~r.ok THEN r ELSE IF fits THEN r ELSE Failed(r.rest)

pb_dec_varint(f, stream) ==
  LET r == pb_decode_varint(stream)
      svalue == IF f.data_size = 8 THEN r.value ELSE SignExtended(Low(r.value, 32), 32)
  IN  IF ~r.ok THEN r ELSE Checked(Value(svalue, r.rest), Fits(f, svalue))

pb_dec_uvarint(f, stream) ==
  LET r == pb_decode_varint(stream) IN Checked(r, r.value \subseteq 0..8 * f.data_size - 1)

pb_dec_svarint(f, stream) ==
  LET r == pb_decode_svarint(stream) IN Checked(r, Fits(f, r.value))

BytesFit(f, n) == f.atype = "POINTER" \/ PB_BYTES_ARRAY_T_ALLOCSIZE(n) <= f.data_size
StringFits(f, n) == f.atype = "POINTER" \/ n + 1 <= f.data_size

\* Where the length of a bytes or string field is accepted and its storage is there.
Stored(f, stream) ==
  LET length == pb_decode_varint32(stream)
      n == Number(length.value)
  IN  IF ~length.ok THEN FALSE
      ELSE IF f.ltype = "BYTES" THEN n <= PB_SIZE_MAX /\ BytesFit(f, n)
      ELSE StringFits(f, n)

UpToNul(bytes) ==
  LET nuls == {k \in DOMAIN bytes : bytes[k] = 0} IN
  IF nuls = {} THEN bytes ELSE SubSeq(bytes, 1, Min(nuls) - 1)

pb_dec_bytes(f, stream) ==
  IF Stored(f, stream) THEN LengthDelimited(stream) ELSE Failed(stream)
pb_dec_string(f, stream) ==
  LET r == pb_dec_bytes(f, stream) IN
  IF r.ok THEN [r EXCEPT !.value = UpToNul(@)] ELSE r

pb_dec_fixed32(f, stream) == pb_decode_fixed32(stream)
pb_dec_fixed64(f, stream) == pb_decode_fixed64(stream)

pb_dec_fixed_length_bytes(f, stream) ==
  LET length == pb_decode_varint32(stream)
      n == Number(length.value)
  IN  IF ~length.ok THEN length
      ELSE IF n = 0 THEN Value(Zero(f), length.rest)
      ELSE IF n # f.data_size THEN Failed(length.rest)
      ELSE pb_read(length.rest, f.data_size)

\* New array entries are initialised, other submessages are merged into what is there.
pb_dec_submessage(f, stream, dest) ==
  LET sub == LengthDelimited(stream)
      r == IF f.htype = "REPEATED" THEN pb_decode(f.ptr, sub.value, dest)
           ELSE pb_decode_noinit(f.ptr, sub.value, dest)
  IN  IF sub.ok THEN [r EXCEPT !.rest = sub.rest]
      ELSE [ok |-> FALSE, value |-> dest, rest |-> sub.rest, live |-> 0]

Scalar(f, stream) ==
  CASE f.ltype = "VARINT"  -> pb_dec_varint(f, stream)
    [] f.ltype = "UVARINT" -> pb_dec_uvarint(f, stream)
    [] f.ltype = "SVARINT" -> pb_dec_svarint(f, stream)
    [] f.ltype = "FIXED32" -> pb_dec_fixed32(f, stream)
    [] f.ltype = "FIXED64" -> pb_dec_fixed64(f, stream)
    [] f.ltype = "BYTES"   -> pb_dec_bytes(f, stream)
    [] f.ltype = "STRING"  -> pb_dec_string(f, stream)
    [] OTHER               -> pb_dec_fixed_length_bytes(f, stream)

PB_DECODERS(f, stream, dest) ==
  LET r == Scalar(f, stream) IN
  IF f.ltype = "SUBMESSAGE" THEN pb_dec_submessage(f, stream, dest)
  ELSE [ok |-> r.ok, value |-> IF r.ok THEN r.value ELSE dest, rest |-> r.rest, live |-> 0]

-----------------------------------------------------------------------------
(* Decoding into the slot of a field. *)

Fresh(f) == IF f.ltype = "SUBMESSAGE" THEN Default(f.ptr) ELSE Zero(f)

\* A decoder's result r, stored as slot; items tells how many were decoded.
InSlot(r, slot) ==
  [ok |-> r.ok, slot |-> slot, rest |-> r.rest, live |-> r.live, items |-> 1]
NotStored(slot, rest) ==
  [ok |-> FALSE, slot |-> slot, rest |-> rest, live |-> 0, items |-> 0]

\* The items of a packed array of which room more fit.
PackedItems(f, stream, room) ==
  LET item == Scalar(f, stream)
      others == PackedItems(f, item.rest, room - 1)
  IN  IF stream = <<>> THEN [ok |-> TRUE, values |-> <<>>]
      ELSE IF room = 0 THEN [ok |-> FALSE, values |-> <<>>]
      ELSE IF ~item.ok THEN [ok |-> FALSE, values |-> <<>>]
      ELSE [ok |-> others.ok, values |-> <<item.value>> \o others.values]
Packed(f, wire) == wire = WT_STRING /\ f.ltype \in Packable

\* The items behind the first count ones.
Overwrite(slot, count, values) ==
  SubSeq(slot, 1, count) \o values \o Drop(slot, count + Len(values))

RoomForOneMore(f, count) == f.array_size - count + 1                   \* a mutant
RoomFor(f, count) == f.array_size - count

StaticArray(f, wire, slot, count, stream) ==
  LET sub == LengthDelimited(stream)
      packed == PackedItems(f, sub.value, RoomFor(f, count))
      r == PB_DECODERS(f, stream, Fresh(f))
  IN  IF Packed(f, wire)
      THEN IF ~sub.ok THEN NotStored(slot, sub.rest)
           ELSE [ok |-> packed.ok, slot |-> Overwrite(slot, count, packed.values),
                 rest |-> sub.rest, live |-> 0, items |-> Len(packed.values)]
      ELSE IF RoomFor(f, count) <= 0 THEN NotStored(slot, stream)
      ELSE InSlot(r, Overwrite(slot, count, <<r.value>>))

\* count items are there.  A oneof submessage is set to its defaults first, others are
\* merged into what the slot holds.
decode_static_field(f, wire, slot, count, stream) ==
  LET dest == IF slot = <<>> \/ f.htype = "ONEOF" THEN Fresh(f) ELSE slot[1]
      r == PB_DECODERS(f, stream, dest)
  IN  IF f.htype = "REPEATED" THEN StaticArray(f, wire, slot, count, stream)
      ELSE InSlot(r, <<r.value>>)

\* A block is allocated for a NULL pointer, else the old one is resized.
Grown(slot) == IF slot = <<>> THEN 1 ELSE 0

\* A submessage that is there already is released first, not merged.
SinglePointer(f, slot, stream) ==
  LET old == IF f.ltype = "SUBMESSAGE" THEN pb_release_single_field(f, slot)
             ELSE [freed |-> 0, value |-> slot]
      r == PB_DECODERS(f, stream, Fresh(f))
  IN  IF IsString(f) /\ ~Stored(f, stream) THEN NotStored(slot, r.rest)
      ELSE [InSlot(r, <<r.value>>) EXCEPT !.live = @ + Grown(old.value) - old.freed]

PointerArray(f, wire, slot, stream) ==
  LET items == IF slot = <<>> THEN <<>> ELSE slot[1]
      sub == LengthDelimited(stream)
      packed == PackedItems(f, sub.value, PB_SIZE_MAX - Len(items))
      r == PB_DECODERS(f, stream, Fresh(f))
      block == IsString(f) /\ Stored(f, stream)
      item == IF ~IsString(f) THEN r.value ELSE IF block THEN <<r.value>> ELSE <<>>
  IN  IF Packed(f, wire)
      THEN IF ~sub.ok \/ sub.value = <<>> THEN [NotStored(slot, sub.rest) EXCEPT !.ok = sub.ok]
           ELSE [ok |-> packed.ok, slot |-> <<items \o packed.values>>, rest |-> sub.rest,
                 live |-> Grown(slot), items |-> Len(packed.values)]
      ELSE IF Len(items) = PB_SIZE_MAX THEN NotStored(slot, stream)
      ELSE [InSlot(r, <<Append(items, item)>>) EXCEPT
              !.live = @ + Grown(slot) + IF block THEN 1 ELSE 0]

decode_pointer_field(f, wire, slot, stream) ==
  IF f.htype = "REPEATED" THEN PointerArray(f, wire, slot, stream)
  ELSE SinglePointer(f, slot, stream)

\* The application's callback takes one varint a call, and is called until none is left.
CallbackValues(stream) ==
  LET r == pb_decode_varint(stream)
      others == CallbackValues(r.rest)
  IN  IF ~r.ok THEN [ok |-> FALSE, values |-> <<>>]
      ELSE IF r.rest = <<>> THEN [ok |-> TRUE, values |-> <<r.value>>]
      ELSE [ok |-> others.ok, values |-> <<r.value>> \o others.values]

decode_callback_field(wire, slot, stream) ==
  LET r == CASE slot = <<>>       -> pb_skip_field(stream, wire)
             [] wire = WT_STRING  -> LengthDelimited(stream)
             [] OTHER             -> read_raw_value(stream, wire)
      called == IF wire = WT_STRING THEN CallbackValues(r.value)
                ELSE LET one == pb_decode_varint(r.value) IN
                     [ok |-> one.ok, values |-> IF one.ok THEN <<one.value>> ELSE <<>>]
  IN  IF slot = <<>> \/ ~r.ok THEN [NotStored(slot, r.rest) EXCEPT !.ok = r.ok]
      ELSE [ok |-> called.ok, slot |-> <<slot[1] \o called.values>>, rest |-> r.rest,
            live |-> 0, items |-> Len(called.values)]

decode_field(f, wire, slot, count, stream) ==
  CASE f.atype = "STATIC"  -> decode_static_field(f, wire, slot, count, stream)
    [] f.atype = "POINTER" -> decode_pointer_field(f, wire, slot, stream)
    [] OTHER               -> decode_callback_field(wire, slot, stream)

\* The other member of the oneof is released before f overwrites it.
NothingFreed(type, tags, msg) == 0                               \* a mutant
FreedMembers(type, tags, msg) ==
  MapThenSumSet(LAMBDA tag : pb_release_single_field(FieldAt(type, tag), msg[tag]).freed, tags)

pb_release_union_field(type, f, msg) ==
  LET old == {tag \in Tags(type) \ {f.tag} :
                f.htype = "ONEOF" /\ FieldAt(type, tag).union = f.union}
  IN  [freed |-> FreedMembers(type, old, msg),
       value |-> [tag \in Tags(type) |-> IF tag \in old THEN <<>> ELSE msg[tag]]]

-----------------------------------------------------------------------------
(* Decoding a message.  st.seen are the fields met, st.fixed the fixed count field being *)
(* filled, 0 for none, and st.count how many of its items are there.                     *)

FixedComplete(type, st) == st.fixed = 0 \/ st.count = FieldAt(type, st.fixed).array_size

DecodeKnown(type, st, f, wire, stream) ==
  LET enters == FixedCount(f) /\ st.fixed # f.tag
      cleared == pb_release_union_field(type, f, st.msg)
      slot == cleared.value[f.tag]
      count == IF ~FixedCount(f) THEN Len(slot) ELSE IF enters THEN 0 ELSE st.count
      r == decode_field(f, wire, slot, count, stream)
  IN  IF enters /\ ~FixedComplete(type, st) THEN [st EXCEPT !.ok = FALSE]
      ELSE [ok |-> r.ok, rest |-> r.rest, live |-> st.live + r.live - cleared.freed,
            msg |-> [cleared.value EXCEPT ![f.tag] = r.slot],
            seen |-> st.seen \union {f.tag},
            fixed |-> IF FixedCount(f) THEN f.tag ELSE st.fixed,
            count |-> IF FixedCount(f) THEN count + r.items ELSE st.count]

\* The default handler of the first extension with this tag, or nobody's field.
DecodeUnknown(type, st, tag, wire, stream) ==
  LET place == find_extension_field(type)
      at == place[1].tag
      linked == IF place = <<>> THEN {} ELSE IF tag < at THEN {}
                ELSE {k \in DOMAIN st.msg[at] : st.msg[at][k].field.tag = tag}
      k == Min(linked)
      ext == st.msg[at][k]
      r == decode_field(ext.field, wire, ext.slot, 0, stream)
      skipped == pb_skip_field(stream, wire)
  IN  IF linked = {} THEN [st EXCEPT !.ok = skipped.ok, !.rest = skipped.rest]
      ELSE [st EXCEPT !.ok = r.ok, !.rest = r.rest, !.live = @ + r.live,
                      !.msg[at][k] = [ext EXCEPT !.found = TRUE, !.slot = r.slot]]

NoneRequired(type) == {}                                        \* a mutant
Required(type) == {tag \in Tags(type) : FieldAt(type, tag).htype = "REQUIRED"}

Decoded(st, ok, rest) == [ok |-> ok, value |-> st.msg, rest |-> rest, live |-> st.live]
Finished(type, st, rest) ==
  Decoded(st, FixedComplete(type, st) /\ Required(type) \subseteq st.seen, rest)

DecodeFields(type, st) ==
  LET tag == pb_decode_tag(st.rest)
      known == pb_field_iter_find(type, tag.tag)
      next == IF known = <<>> THEN DecodeUnknown(type, st, tag.tag, tag.wire, tag.rest)
              ELSE DecodeKnown(type, st, known[1], tag.wire, tag.rest)
  IN  CASE st.rest = <<>>             -> Finished(type, st, <<>>)
        [] st.rest # <<>> /\ ~tag.ok  -> IF tag.eof THEN Finished(type, st, tag.rest)
                                         ELSE Decoded(st, FALSE, <<>>)
        [] OTHER                      -> IF next.ok THEN DecodeFields(type, next)
                                         ELSE Decoded(next, FALSE, <<>>)

pb_decode_noinit(type, stream, dest) ==
  DecodeFields(type, [ok |-> TRUE, rest |-> stream, live |-> 0, msg |-> dest, seen |-> {},
                      fixed |-> 0, count |-> 0])

pb_decode(type, stream, dest) ==
  LET r == pb_decode_noinit(type, stream, pb_message_set_to_defaults(type, dest))
      released == pb_release(type, r.value)
  IN  IF r.ok THEN r
      ELSE [r EXCEPT !.value = released.value, !.live = @ - released.freed]

pb_decode_delimited_noinit(type, stream, dest) ==
  LET sub == LengthDelimited(stream) IN
  IF sub.ok THEN [pb_decode_noinit(type, sub.value, dest) EXCEPT !.rest = sub.rest]
  ELSE [ok |-> FALSE, value |-> dest, rest |-> sub.rest, live |-> 0]

\* pb_decode() ends at a tag of 0.
pb_decode_nullterminated(type, stream, dest) == pb_decode(type, stream, dest)

pb_decode_delimited(type, stream, dest) ==
  LET sub == LengthDelimited(stream) IN
  IF sub.ok THEN [pb_decode(type, sub.value, dest) EXCEPT !.rest = sub.rest]
  ELSE [ok |-> FALSE, value |-> dest, rest |-> sub.rest, live |-> 0]

-----------------------------------------------------------------------------
(* Encoding: what is written, unless ok is FALSE. *)

Written(ok, bytes) == [ok |-> ok, bytes |-> bytes]
Joined(parts) ==
  [ok |-> \A k \in DOMAIN parts : parts[k].ok,
   bytes |-> FoldLeft(LAMBDA all, part : all \o part.bytes, <<>>, parts)]

WireType(f) == CASE f.ltype \in {"VARINT", "UVARINT", "SVARINT"} -> WT_VARINT
                 [] f.ltype = "FIXED32" -> WT_32BIT
                 [] f.ltype = "FIXED64" -> WT_64BIT
                 [] OTHER -> WT_STRING
pb_encode_tag_for_field(f) == pb_encode_tag(WireType(f), f.tag)

\* A signed integer is written as the 64-bit one it is equal to, an unsigned one as it is.
SignedAlike(f, value) == pb_encode_varint(SignExtended(value, 8 * f.data_size))  \* a mutant
pb_enc_uvarint(f, value) == pb_encode_varint(value)

pb_enc_varint(f, value) == pb_encode_varint(value)
pb_enc_svarint(f, value) == pb_encode_svarint(value)
pb_enc_fixed32(f, value) == pb_encode_fixed32(value)
pb_enc_fixed64(f, value) == pb_encode_fixed64(value)
pb_enc_bytes(f, value) == Written(BytesFit(f, Len(value)), pb_encode_string(value))
pb_enc_string(f, value) == Written(TRUE, pb_encode_string(value))
pb_enc_fixed_length_bytes(f, value) == Written(TRUE, pb_encode_string(value))

pb_encode_submessage(type, msg) ==
  LET sub == pb_encode(type, msg) IN Written(sub.ok, pb_encode_string(sub.bytes))
pb_enc_submessage(f, value) == pb_encode_submessage(f.ptr, value)

PB_ENCODERS(f, value) ==
  CASE f.ltype = "UVARINT" -> Written(TRUE, pb_enc_uvarint(f, value))
    [] f.ltype = "VARINT"  -> Written(TRUE, pb_enc_varint(f, value))
    [] f.ltype = "SVARINT" -> Written(TRUE, pb_enc_svarint(f, value))
    [] f.ltype = "FIXED32" -> Written(TRUE, pb_enc_fixed32(f, value))
    [] f.ltype = "FIXED64" -> Written(TRUE, pb_enc_fixed64(f, value))
    [] f.ltype = "BYTES"   -> pb_enc_bytes(f, value)
    [] f.ltype = "STRING"  -> pb_enc_string(f, value)
    [] f.ltype = "SUBMESSAGE" -> pb_enc_submessage(f, value)
    [] OTHER -> pb_enc_fixed_length_bytes(f, value)

\* Arrays are packed where the type allows it.
encode_array(f, items) ==
  LET pointers == f.atype = "POINTER" /\ IsString(f)
      Item(k) == IF ~pointers THEN items[k] ELSE IF items[k] = <<>> THEN <<>> ELSE items[k][1]
      parts == [k \in DOMAIN items |-> PB_ENCODERS(f, Item(k))]
      tag == pb_encode_tag_for_field(f)
  IN  IF items = <<>> THEN Written(TRUE, <<>>)
      ELSE IF f.atype # "POINTER" /\ Len(items) > f.array_size THEN Written(FALSE, <<>>)
      ELSE IF f.ltype \in Packable
      THEN LET all == Joined(parts) IN
           Written(all.ok, pb_encode_tag(WT_STRING, f.tag) \o pb_encode_string(all.bytes))
      ELSE Joined([k \in DOMAIN parts |-> [parts[k] EXCEPT !.bytes = tag \o @]])

\* pb_check_proto3_default_value()
ProtoDefault(f, slot) ==
  CASE f.htype = "REQUIRED" \/ (f.htype = "REPEATED" /\ ~f.has) -> FALSE
    [] f.has \/ (f.htype \in {"OPTIONAL", "ONEOF"} /\ f.atype # "STATIC") ->
         slot = <<>>
    [] OTHER -> CASE f.ltype = "SUBMESSAGE" -> \A tag \in Tags(f.ptr) :
                                ProtoDefault(FieldAt(f.ptr, tag), slot[1][tag])
                  [] f.ltype = "FIXED_LENGTH_BYTES" -> f.data_size = 0
                  [] OTHER -> slot[1] = Zero(f)

encode_basic_field(f, slot) ==
  LET singular == f.htype = "OPTIONAL" /\ f.atype = "STATIC" /\ ~f.has
      value == PB_ENCODERS(f, slot[1])
      items == IF f.atype = "STATIC" THEN slot ELSE IF slot = <<>> THEN <<>> ELSE slot[1]
  IN  CASE f.htype = "REPEATED" -> encode_array(f, items)
        [] f.htype # "REPEATED" /\ slot = <<>> -> Written(f.htype # "REQUIRED", <<>>)
        [] OTHER -> IF singular /\ ProtoDefault(f, slot) THEN Written(TRUE, <<>>)
                    ELSE [value EXCEPT !.bytes = pb_encode_tag_for_field(f) \o @]

\* The application's callback writes each of its values as a field.
encode_callback_field(f, slot) ==
  LET values == IF slot = <<>> THEN <<>> ELSE slot[1] IN
  Joined([k \in DOMAIN values |->
            Written(TRUE, pb_encode_tag(WT_VARINT, f.tag) \o pb_encode_varint(values[k]))])

encode_field(f, slot) ==
  IF f.atype = "CALLBACK" THEN encode_callback_field(f, slot) ELSE encode_basic_field(f, slot)

encode_extension_field(exts) ==
  Joined([k \in DOMAIN exts |-> encode_field(exts[k].field, exts[k].slot)])

pb_encode(type, msg) ==
  LET Part(f) == IF f.ltype = "EXTENSION" THEN encode_extension_field(msg[f.tag])
                 ELSE encode_field(f, msg[f.tag])
  IN  Joined([k \in DOMAIN Fields[type] |-> Part(Fields[type][k])])

pb_encode_delimited(type, msg) == pb_encode_submessage(type, msg)
pb_encode_nullterminated(type, msg) ==
  LET whole == pb_encode(type, msg) IN Written(whole.ok, whole.bytes \o <<0>>)

\* The size pb_encode() would write; it has no buffer to fill.
pb_get_encoded_size(type, msg) == Len(pb_encode(type, msg).bytes)
=============================================================================
