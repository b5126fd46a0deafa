---------------------------- MODULE Descriptors ----------------------------
(***************************************************************************)
(* pb_field_t of nanopb 0.3.9.3, the description of one field of a message: *)
(* what it holds (ltype), how often (htype) and where (atype).             *)
(***************************************************************************)
EXTENDS Naturals

CONSTANT NULL

Packable == {"VARINT", "UVARINT", "SVARINT", "FIXED32", "FIXED64"}
LType ==
  Packable \union {"BYTES", "STRING", "SUBMESSAGE", "EXTENSION", "FIXED_LENGTH_BYTES"}
HType == {"REQUIRED", "OPTIONAL", "REPEATED", "ONEOF"}
AType == {"STATIC", "POINTER", "CALLBACK"}

\* What the PB_FIELD() macros make of a field.  data_size is that of one item, array_size
\* the length of a static array; has tells of a has_ or _count variable, union names the
\* oneof.
Field(tag, ltype, htype, atype, data_size, array_size, ptr) ==
  [tag |-> tag, ltype |-> ltype, htype |-> htype, atype |-> atype,
   data_size |-> data_size, array_size |-> array_size, ptr |-> ptr,
   has |-> htype \in {"OPTIONAL", "REPEATED", "ONEOF"}, union |-> NULL]
PB_REQUIRED_STATIC(tag, ltype, data_size, ptr) ==
  Field(tag, ltype, "REQUIRED", "STATIC", data_size, 0, ptr)
PB_OPTIONAL_STATIC(tag, ltype, data_size, ptr) ==
  Field(tag, ltype, "OPTIONAL", "STATIC", data_size, 0, ptr)
PB_SINGULAR_STATIC(tag, ltype, data_size, ptr) ==
  [PB_OPTIONAL_STATIC(tag, ltype, data_size, ptr) EXCEPT !.has = FALSE]
PB_REPEATED_STATIC(tag, ltype, data_size, array_size, ptr) ==
  Field(tag, ltype, "REPEATED", "STATIC", data_size, array_size, ptr)
PB_REPEATED_FIXED_COUNT(tag, ltype, data_size, array_size, ptr) ==
  [PB_REPEATED_STATIC(tag, ltype, data_size, array_size, ptr) EXCEPT !.has = FALSE]
PB_REQUIRED_POINTER(tag, ltype, data_size, ptr) ==
  Field(tag, ltype, "REQUIRED", "POINTER", data_size, 0, ptr)
PB_OPTIONAL_POINTER(tag, ltype, data_size, ptr) ==
  [Field(tag, ltype, "OPTIONAL", "POINTER", data_size, 0, ptr) EXCEPT !.has = FALSE]
PB_REPEATED_POINTER(tag, ltype, data_size, ptr) ==
  Field(tag, ltype, "REPEATED", "POINTER", data_size, 0, ptr)
PB_OPTIONAL_CALLBACK(tag, ltype) ==
  [Field(tag, ltype, "OPTIONAL", "CALLBACK", 16, 0, NULL) EXCEPT !.has = FALSE]
PB_REPEATED_CALLBACK(tag, ltype) ==
  [PB_OPTIONAL_CALLBACK(tag, ltype) EXCEPT !.htype = "REPEATED"]
\* The placeholder of extensions, which have tags from here on.
EXTENSION(tag) == PB_OPTIONAL_CALLBACK(tag, "EXTENSION")
PB_OPTEXT_STATIC(tag, ltype, data_size, ptr) == PB_REQUIRED_STATIC(tag, ltype, data_size, ptr)
PB_OPTEXT_POINTER(tag, ltype, data_size, ptr) == PB_OPTIONAL_POINTER(tag, ltype, data_size, ptr)
PB_ONEOF_STATIC(u, tag, ltype, data_size, ptr) ==
  [Field(tag, ltype, "ONEOF", "STATIC", data_size, 0, ptr) EXCEPT !.union = u]
PB_ONEOF_POINTER(u, tag, ltype, data_size, ptr) ==
  [Field(tag, ltype, "ONEOF", "POINTER", data_size, 0, ptr) EXCEPT !.union = u]

\* pb_extension_t: slot is what dest points to.
Extension(field, found, slot) == [field |-> field, found |-> found, slot |-> slot]

\* The size of a pb_bytes_array_t for n bytes, behind a pb_size_t of two.
PB_BYTES_ARRAY_T_ALLOCSIZE(n) == n + 2
=============================================================================
