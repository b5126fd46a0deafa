--------------------------- MODULE ProtoBuffCodec ---------------------------
(***************************************************************************)
(* The calls of ProtoBuff.c that encode and decode: marshal(), unmarshal() *)
(* up to the type it looks a handler up for, and decode_union() with which *)
(* that handler takes the message.  The handler table is HandlerTable.     *)
(***************************************************************************)
EXTENDS Nanopb

marshal(type, msg, bufsize, delimited) ==
  LET r == IF delimited THEN pb_encode_delimited(type, msg) ELSE pb_encode(type, msg) IN
  [ok |-> r.ok /\ pb_write(bufsize, r.bytes).ok, bytes |-> r.bytes]

Skipped(stream, wire) == pb_skip_field(stream, wire).rest

\* The type of the first submessage of a UnionMessage, NULL if there is none.
RECURSIVE decode_unionmessage_type(_)
decode_unionmessage_type(stream) ==
  LET tag == pb_decode_tag(stream)
      field == SelectSeq(Fields["UnionMessage"], LAMBDA f :
                 f.tag = tag.tag /\ f.ltype \notin {"VARINT", "EXTENSION"})
  IN  IF ~tag.ok THEN [type |-> NULL, rest |-> tag.rest]
      ELSE IF tag.wire = WT_STRING /\ field # <<>>
      THEN [type |-> field[1].ptr, rest |-> tag.rest]
      ELSE decode_unionmessage_type(Skipped(tag.rest, tag.wire))

decode_union(stream, type, dest) == pb_decode_delimited(type, stream, dest)

\* What _unmarshal() gives its callback to read, and whether it gets that far.
_unmarshal(stream, delimited) ==
  IF delimited THEN LengthDelimited(stream) ELSE Value(stream, <<>>)

\* What unmarshal() looks a handler up for, and what that handler is given to read.
unmarshal(stream, delimited) ==
  LET body == _unmarshal(stream, delimited) IN
  IF body.ok THEN decode_unionmessage_type(body.value) ELSE [type |-> NULL, rest |-> <<>>]
=============================================================================
