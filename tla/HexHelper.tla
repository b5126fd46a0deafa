----------------------------- MODULE HexHelper -----------------------------
(***************************************************************************)
(* hexhelper.c: the text of a buffer that the log shows, as everything the *)
(* calls write behind their output pointer.  A character is the digit it   *)
(* stands for.  char is signed.                                            *)
(***************************************************************************)
EXTENDS Integers, SequencesExt

NUL == 16

\* sprintf("%02X") of a char: a negative one is printed as the int it is.
Digits(byte) ==
  (IF byte < 128 THEN <<>> ELSE [k \in 1..6 |-> 15]) \o <<byte \div 16, byte % 16, NUL>>

\* digits written at offset at, over what is there.
Write(output, at, digits) ==
  [k \in 1..at |-> IF k \in DOMAIN output THEN output[k] ELSE NUL]
    \o digits \o SubSeq(output, at + Len(digits) + 1, Len(output))

\* One byte every two characters, up to the NUL of the input.
string2hexstring(input) ==
  LET nuls == {k \in DOMAIN input : input[k] = 0}
      length == IF nuls = {} THEN Len(input) ELSE Min(nuls) - 1
      after[k \in 0..length] ==
        IF k = 0 THEN <<>> ELSE Write(after[k - 1], 2 * (k - 1), Digits(input[k]))
  IN  Write(after[length], 2 * length, <<NUL>>)

\* One byte every three characters, while there are less of these than length bytes.
EveryByte(length) == length                                      \* a mutant
Printed(length) == (length + 2) \div 3
stringn2hexstring(input, length) ==
  LET printed == Printed(length)
      after[k \in 0..printed] ==
        IF k = 0 THEN <<>> ELSE Write(after[k - 1], 3 * (k - 1), Digits(input[k]))
  IN  Write(after[printed], 3 * printed, <<NUL>>)
=============================================================================
