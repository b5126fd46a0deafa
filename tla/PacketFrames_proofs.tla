------------------------ MODULE PacketFrames_proofs ------------------------
(***************************************************************************)
(* Proofs about checksums and frames, for packets with any data, and about *)
(* the integers, tags and strings of nanopb that a Packet is made of.      *)
(***************************************************************************)
EXTENDS PacketFrames, Cobs_proofs, NanopbStream

-----------------------------------------------------------------------------
(* Recursion over numbers. *)

\* f is start at 0, and at each number up to n what a step makes of its value before.
Runs(f, n, start, step) == f = [k \in 0..n |-> IF k = 0 THEN start ELSE step[k][f[k-1]]]

\* A function that has a value at 0, and at each number a step from its value at the one
\* before, exists.
LEMMA RecursionExists ==
  ASSUME NEW n \in Nat, NEW S, NEW start \in S, NEW step \in [1..n -> [S -> S]]
  PROVE  \E f \in [0..n -> S] : Runs(f, n, start, step)
<1> DEFINE Solves(f, m) ==
             f \in [0..m -> S] /\ f = [k \in 0..m |-> IF k = 0 THEN start ELSE step[k][f[k-1]]]
           T == {m \in Nat : m <= n => \E f : Solves(f, m)}
<1>1. 0 \in T
  <2>1. PICK f : f = [k \in 0..0 |-> start]
    OBVIOUS
  <2>2. Solves(f, 0)
    BY <2>1
  <2> QED
    BY <2>2
<1>2. ASSUME NEW m \in Nat, m \in T PROVE m + 1 \in T
  <2> SUFFICES ASSUME m + 1 <= n PROVE \E g : Solves(g, m + 1)
    OBVIOUS
  <2>1. PICK f : Solves(f, m)
    BY <1>2
  <2>2. PICK g : g = [k \in 0..m + 1 |-> IF k = m + 1 THEN step[m + 1][f[m]] ELSE f[k]]
    OBVIOUS
  <2>3. f[m] \in S /\ step[m + 1] \in [S -> S]
    BY <2>1
  <2>4. g \in [0..m + 1 -> S] /\ g[m + 1] = step[m + 1][f[m]]
    BY <2>1, <2>2, <2>3
  <2>5. \A k \in 0..m : g[k] = f[k]
    BY <2>2
  <2>6. ASSUME NEW k \in 0..m + 1 PROVE g[k] = IF k = 0 THEN start ELSE step[k][g[k-1]]
    <3>1. CASE k = m + 1
      <4>1. g[k - 1] = f[m] /\ k # 0 /\ k - 1 = m
        BY <2>5, <3>1
      <4> QED
        BY <2>4, <3>1, <4>1
    <3>2. CASE k \in 0..m
      <4>1. f[k] = IF k = 0 THEN start ELSE step[k][f[k-1]]
        BY <2>1, <3>2
      <4>2. k # 0 => k - 1 \in 0..m
        BY <3>2
      <4> QED
        BY <2>5, <3>2, <4>1, <4>2
    <3> QED
      BY <3>1, <3>2
  <2>7. Solves(g, m + 1)
    BY <2>2, <2>4, <2>6
  <2> QED
    BY <2>7
<1>3. n \in T
  <2> HIDE DEF T
  <2> QED
    BY <1>1, <1>2, Upwards
<1> QED
  BY <1>3 DEF Runs

\* What holds of the value at 0, and at each number if it holds at the one before, holds of
\* all values.
LEMMA RecursionStays ==
  ASSUME NEW n \in Nat, NEW S, NEW f, f[0] \in S, \A k \in 1..n : f[k-1] \in S => f[k] \in S
  PROVE  \A k \in 0..n : f[k] \in S
<1> DEFINE T == {k \in Nat : k <= n => f[k] \in S}
<1>1. 0 \in T
  OBVIOUS
<1>2. ASSUME NEW k \in Nat, k \in T PROVE k + 1 \in T
  <2> SUFFICES ASSUME k + 1 <= n PROVE f[k + 1] \in S
    OBVIOUS
  <2>1. f[k] \in S /\ k + 1 \in 1..n /\ k + 1 - 1 = k
    BY <1>2
  <2> QED
    BY <2>1
<1>3. Nat \subseteq T
  <2> HIDE DEF T
  <2> QED
    BY <1>1, <1>2, Upwards
<1> QED
  BY <1>3

-----------------------------------------------------------------------------
(* Bits. *)

Bits8 == SUBSET Bit

\* The eight bits.
LEMMA BitFacts == \A k : k \in Bit <=> k \in {0, 1, 2, 3, 4, 5, 6, 7}
BY DEF Bit

\* Sets of bits are the same if they have the same bits.
LEMMA SameBits ==
  ASSUME NEW a \in Bits8, NEW b \in Bits8, \A k \in Bit : k \in a <=> k \in b
  PROVE  a = b
BY DEF Bits8

\* The bits in which two sets differ.
LEMMA XorFacts ==
  ASSUME NEW a \in Bits8, NEW b \in Bits8
  PROVE  /\ Xor(a, b) \in Bits8
         /\ \A k \in Bit : k \in Xor(a, b) <=> ~(k \in a <=> k \in b)
         /\ Xor(a, b) = {} <=> a = b
         /\ Xor(a, b) = Xor(b, a)
<1>1. Xor(a, b) \in Bits8
  BY DEF Xor, Bits8
<1>2. \A k \in Bit : k \in Xor(a, b) <=> ~(k \in a <=> k \in b)
  BY DEF Xor
<1>3. Xor(a, b) = {} <=> a = b
  BY <1>1, <1>2, SameBits DEF Bits8
<1>4. Xor(a, b) = Xor(b, a)
  BY DEF Xor
<1> QED
  BY <1>1, <1>2, <1>3, <1>4

\* What two sets differ in from a third they differ in from each other.
LEMMA XorCancels ==
  ASSUME NEW a \in Bits8, NEW b \in Bits8, NEW c \in Bits8
  PROVE  /\ Xor(Xor(a, b), Xor(a, c)) = Xor(b, c)
         /\ Xor(Xor(a, b), Xor(c, b)) = Xor(a, c)
<1>1. /\ Xor(a, b) \in Bits8 /\ Xor(a, c) \in Bits8 /\ Xor(c, b) \in Bits8 /\ Xor(b, c) \in Bits8
      /\ Xor(Xor(a, b), Xor(a, c)) \in Bits8 /\ Xor(Xor(a, b), Xor(c, b)) \in Bits8
  BY XorFacts
<1>2. \A k \in Bit : /\ k \in Xor(Xor(a, b), Xor(a, c)) <=> k \in Xor(b, c)
                     /\ k \in Xor(Xor(a, b), Xor(c, b)) <=> k \in Xor(a, c)
  BY <1>1, XorFacts
<1> QED
  BY <1>1, <1>2, SameBits, XorFacts

\* A byte is the sum of its bits.
LEMMA BitsOfFacts ==
  ASSUME NEW byte \in Octet
  PROVE  /\ BitsOf[byte] \in Bits8
         /\ ByteOf(BitsOf[byte]) = byte
<1>1. BitsOf[byte] = {k \in Bit : (byte \div 2^k) % 2 = 1}
  BY DEF BitsOf, Octet
<1>2. BitsOf[byte] \in Bits8
  BY <1>1 DEF Bits8
<1>3. PICK bits : bits = BitsOf[byte]
  OBVIOUS
<1>4. /\ 0 \in bits <=> byte % 2 = 1
      /\ 1 \in bits <=> (byte \div 2) % 2 = 1
      /\ 2 \in bits <=> (byte \div 4) % 2 = 1
      /\ 3 \in bits <=> (byte \div 8) % 2 = 1
      /\ 4 \in bits <=> (byte \div 16) % 2 = 1
      /\ 5 \in bits <=> (byte \div 32) % 2 = 1
      /\ 6 \in bits <=> (byte \div 64) % 2 = 1
      /\ 7 \in bits <=> (byte \div 128) % 2 = 1
  <2>1. byte \div 2^0 = byte
    BY DEF Octet
  <2> QED
    BY <1>1, <1>3, <2>1 DEF Bit
<1>5. byte = (byte % 2) + 2 * ((byte \div 2) % 2) + 4 * ((byte \div 4) % 2)
               + 8 * ((byte \div 8) % 2) + 16 * ((byte \div 16) % 2)
               + 32 * ((byte \div 32) % 2) + 64 * ((byte \div 64) % 2)
               + 128 * ((byte \div 128) % 2)
  BY SMTT(30) DEF Octet
<1>6. \A n \in Nat : n % 2 = 1 \/ n % 2 = 0
  OBVIOUS
<1>7. /\ byte \in Nat /\ byte \div 2 \in Nat /\ byte \div 4 \in Nat /\ byte \div 8 \in Nat
      /\ byte \div 16 \in Nat /\ byte \div 32 \in Nat /\ byte \div 64 \in Nat
      /\ byte \div 128 \in Nat
  BY DEF Octet
<1>8. ByteOf(bits) = byte
  BY <1>4, <1>5, <1>6, <1>7, SMTT(30) DEF ByteOf
<1> QED
  BY <1>2, <1>3, <1>8

\* Different bytes differ in a bit.
LEMMA ChangedFacts ==
  ASSUME NEW a \in Octet, NEW b \in Octet
  PROVE  /\ Changed(a, b) \in Bits8
         /\ Changed(a, b) = {} <=> a = b
BY BitsOfFacts, XorFacts DEF Changed

-----------------------------------------------------------------------------
(* The CRC of a byte. *)

\* One shift, bit by bit.
LEMMA ShiftBitFacts ==
  ASSUME NEW d \in Bits8
  PROVE  LET s == ShiftBit(d) IN
         /\ s \in Bits8
         /\ 0 \in s <=> 7 \in d
         /\ 1 \in s <=> ~(0 \in d <=> 7 \in d)
         /\ 2 \in s <=> ~(1 \in d <=> 7 \in d)
         /\ 3 \in s <=> 2 \in d
         /\ 4 \in s <=> 3 \in d
         /\ 5 \in s <=> 4 \in d
         /\ 6 \in s <=> 5 \in d
         /\ 7 \in s <=> 6 \in d
<1>1. PICK shifted : shifted = {k \in Bit : k - 1 \in d}
  OBVIOUS
<1>2. shifted \in Bits8 /\ {0, 1, 2} \in Bits8
  BY <1>1 DEF Bits8, Bit
<1>3. /\ 0 \notin shifted
      /\ 1 \in shifted <=> 0 \in d
      /\ 2 \in shifted <=> 1 \in d
      /\ 3 \in shifted <=> 2 \in d
      /\ 4 \in shifted <=> 3 \in d
      /\ 5 \in shifted <=> 4 \in d
      /\ 6 \in shifted <=> 5 \in d
      /\ 7 \in shifted <=> 6 \in d
  BY <1>1 DEF Bits8, Bit
<1>4. ShiftBit(d) = IF 7 \in d THEN Xor(shifted, {0, 1, 2}) ELSE shifted
  BY <1>1 DEF ShiftBit
<1>5. \A k \in Bit : k \in Xor(shifted, {0, 1, 2}) <=> ~(k \in shifted <=> k \in {0, 1, 2})
  BY <1>2, XorFacts
<1>6. Xor(shifted, {0, 1, 2}) \in Bits8
  BY <1>2, XorFacts
<1> QED
  BY <1>2, <1>3, <1>4, <1>5, <1>6 DEF Bit

\* A shift loses nothing, and treats every bit by itself.
LEMMA ShiftBitLinear ==
  /\ \A d \in Bits8 : ShiftBit(d) = {} => d = {}
  /\ \A a \in Bits8, b \in Bits8 : ShiftBit(Xor(a, b)) = Xor(ShiftBit(a), ShiftBit(b))
<1>1. ASSUME NEW d \in Bits8, ShiftBit(d) = {} PROVE d = {}
  <2>1. \A k \in Bit : k \notin d
    BY <1>1, ShiftBitFacts, BitFacts
  <2> QED
    BY <2>1 DEF Bits8
<1>2. ASSUME NEW a \in Bits8, NEW b \in Bits8
      PROVE  ShiftBit(Xor(a, b)) = Xor(ShiftBit(a), ShiftBit(b))
  <2>1. PICK x : x = Xor(a, b)
    OBVIOUS
  <2>2. x \in Bits8 /\ ShiftBit(a) \in Bits8 /\ ShiftBit(b) \in Bits8 /\ ShiftBit(x) \in Bits8
    BY <2>1, XorFacts, ShiftBitFacts
  <2>3. PICK y : y = Xor(ShiftBit(a), ShiftBit(b))
    OBVIOUS
  <2>4. y \in Bits8 /\ \A k \in Bit : k \in y <=> ~(k \in ShiftBit(a) <=> k \in ShiftBit(b))
    BY <2>2, <2>3, XorFacts
  <2>5. \A k \in Bit : k \in x <=> ~(k \in a <=> k \in b)
    BY <2>1, XorFacts
  <2>6. \A k \in {0, 1, 2, 3, 4, 5, 6, 7} : k \in ShiftBit(x) <=> k \in y
    BY <2>2, <2>4, <2>5, ShiftBitFacts, BitFacts
  <2>7. ShiftBit(x) = y
    BY <2>2, <2>4, <2>6, BitFacts, SameBits
  <2> QED
    BY <2>1, <2>3, <2>7
<1> QED
  BY <1>1, <1>2

\* The trace of the eight shifts.
LEMMA RemainderTrace ==
  ASSUME NEW d \in Bits8
  PROVE  \E a \in [0..8 -> Bits8] :
           a[0] = d /\ a[8] = Remainder[d] /\ \A k \in 1..8 : a[k] = ShiftBit(a[k-1])
<1> DEFINE Step(f) == [k \in 0..8 |-> IF k = 0 THEN d ELSE ShiftBit(f[k-1])]
           step == [k \in 1..8 |-> [x \in Bits8 |-> ShiftBit(x)]]
<1>1. step \in [1..8 -> [Bits8 -> Bits8]]
  BY ShiftBitFacts
<1>2. PICK n : n = 8
  OBVIOUS
<1>3. PICK f \in [0..8 -> Bits8] : f = [k \in 0..8 |-> IF k = 0 THEN d ELSE step[k][f[k-1]]]
  <2>1. \E f \in [0..n -> Bits8] : Runs(f, n, d, step)
    <3> HIDE DEF step
    <3> QED
      BY <1>1, <1>2, n \in Nat, RecursionExists, Zenon
  <2> QED
    BY <1>2, <2>1 DEF Runs
<1>4. \A k \in 1..8 : f[k-1] \in Bits8
  OBVIOUS
<1>5. f = Step(f)
  BY <1>3, <1>4
<1>6. PICK a : a = CHOOSE g : g = Step(g)
  OBVIOUS
<1>7. a = Step(a)
  <2> HIDE DEF Step
  <2> QED
    BY <1>5, <1>6
<1>8. Remainder[d] = a[8]
  BY <1>6 DEF Remainder, Bits8
<1>9. a[0] = d /\ \A k \in 1..8 : a[k] = ShiftBit(a[k-1])
  BY <1>7
<1>10. a \in [0..8 -> Bits8]
  <2>1. ASSUME NEW k \in 1..8, a[k-1] \in Bits8 PROVE a[k] \in Bits8
    BY <1>9, <2>1, ShiftBitFacts
  <2>2. \A k \in 0..8 : a[k] \in Bits8
    BY <1>9, <2>1, 8 \in Nat, RecursionStays
  <2>3. DOMAIN a = 0..8 /\ a = [k \in 0..8 |-> a[k]]
    BY <1>7
  <2> QED
    BY <2>2, <2>3
<1> QED
  BY <1>8, <1>9, <1>10

\* The eight shifts, bit by bit.
LEMMA RemainderBits ==
  ASSUME NEW d \in Bits8
  PROVE  LET r == Remainder[d] IN
         /\ r \in Bits8
         /\ 0 \in r <=> ~(0 \in d <=> ~(6 \in d <=> 7 \in d))
         /\ 1 \in r <=> ~(0 \in d <=> ~(1 \in d <=> 6 \in d))
         /\ 2 \in r <=> ~(0 \in d <=> ~(1 \in d <=> ~(2 \in d <=> 6 \in d)))
         /\ 3 \in r <=> ~(1 \in d <=> ~(2 \in d <=> ~(3 \in d <=> 7 \in d)))
         /\ 4 \in r <=> ~(2 \in d <=> ~(3 \in d <=> 4 \in d))
         /\ 5 \in r <=> ~(3 \in d <=> ~(4 \in d <=> 5 \in d))
         /\ 6 \in r <=> ~(4 \in d <=> ~(5 \in d <=> 6 \in d))
         /\ 7 \in r <=> ~(5 \in d <=> ~(6 \in d <=> 7 \in d))
<1>1. PICK a \in [0..8 -> Bits8] :
        a[0] = d /\ a[8] = Remainder[d] /\ \A k \in 1..8 : a[k] = ShiftBit(a[k-1])
  BY RemainderTrace
<1>2. PICK a1, a2, a3, a4, a5, a6, a7, a8 :
        /\ a1 = ShiftBit(d) /\ a2 = ShiftBit(a1) /\ a3 = ShiftBit(a2) /\ a4 = ShiftBit(a3)
        /\ a5 = ShiftBit(a4) /\ a6 = ShiftBit(a5) /\ a7 = ShiftBit(a6) /\ a8 = ShiftBit(a7)
  OBVIOUS
<1>3. Remainder[d] = a8
  <2>1. /\ a[1] = ShiftBit(a[0]) /\ a[2] = ShiftBit(a[1]) /\ a[3] = ShiftBit(a[2])
        /\ a[4] = ShiftBit(a[3]) /\ a[5] = ShiftBit(a[4]) /\ a[6] = ShiftBit(a[5])
        /\ a[7] = ShiftBit(a[6]) /\ a[8] = ShiftBit(a[7])
    BY <1>1
  <2>2. a[1] = a1 /\ a[2] = a2 /\ a[3] = a3 /\ a[4] = a4
    BY <1>1, <1>2, <2>1
  <2>3. a[5] = a5 /\ a[6] = a6 /\ a[7] = a7 /\ a[8] = a8
    BY <1>2, <2>1, <2>2
  <2> QED
    BY <1>1, <2>3
<1>4. /\ a1 \in Bits8 /\ a2 \in Bits8 /\ a3 \in Bits8 /\ a4 \in Bits8
      /\ a5 \in Bits8 /\ a6 \in Bits8 /\ a7 \in Bits8 /\ a8 \in Bits8
  BY <1>2, ShiftBitFacts
<1>5. /\ 0 \in a2 <=> 6 \in d
      /\ 1 \in a2 <=> ~(7 \in d <=> 6 \in d)
      /\ 2 \in a2 <=> ~(~(0 \in d <=> 7 \in d) <=> 6 \in d)
      /\ 3 \in a2 <=> ~(1 \in d <=> 7 \in d)
      /\ 4 \in a2 <=> 2 \in d
      /\ 5 \in a2 <=> 3 \in d
      /\ 6 \in a2 <=> 4 \in d
      /\ 7 \in a2 <=> 5 \in d
  BY <1>2, <1>4, ShiftBitFacts
<1>6. /\ 0 \in a4 <=> 6 \in a2
      /\ 1 \in a4 <=> ~(7 \in a2 <=> 6 \in a2)
      /\ 2 \in a4 <=> ~(~(0 \in a2 <=> 7 \in a2) <=> 6 \in a2)
      /\ 3 \in a4 <=> ~(1 \in a2 <=> 7 \in a2)
      /\ 4 \in a4 <=> 2 \in a2
      /\ 5 \in a4 <=> 3 \in a2
      /\ 6 \in a4 <=> 4 \in a2
      /\ 7 \in a4 <=> 5 \in a2
  BY <1>2, <1>4, ShiftBitFacts
<1>7. /\ 0 \in a6 <=> 6 \in a4
      /\ 1 \in a6 <=> ~(7 \in a4 <=> 6 \in a4)
      /\ 2 \in a6 <=> ~(~(0 \in a4 <=> 7 \in a4) <=> 6 \in a4)
      /\ 3 \in a6 <=> ~(1 \in a4 <=> 7 \in a4)
      /\ 4 \in a6 <=> 2 \in a4
      /\ 5 \in a6 <=> 3 \in a4
      /\ 6 \in a6 <=> 4 \in a4
      /\ 7 \in a6 <=> 5 \in a4
  BY <1>2, <1>4, ShiftBitFacts
<1>8. /\ 0 \in a8 <=> 6 \in a6
      /\ 1 \in a8 <=> ~(7 \in a6 <=> 6 \in a6)
      /\ 2 \in a8 <=> ~(~(0 \in a6 <=> 7 \in a6) <=> 6 \in a6)
      /\ 3 \in a8 <=> ~(1 \in a6 <=> 7 \in a6)
      /\ 4 \in a8 <=> 2 \in a6
      /\ 5 \in a8 <=> 3 \in a6
      /\ 6 \in a8 <=> 4 \in a6
      /\ 7 \in a8 <=> 5 \in a6
  BY <1>2, <1>4, ShiftBitFacts
<1> QED
  BY <1>3, <1>4, <1>5, <1>6, <1>7, <1>8

\* The remainder treats every bit by itself, is that of no bits only for no bits, that of a
\* set of bits itself only for SwapUnseen besides, and never lies behind the bits it is of.
LEMMA RemainderFacts ==
  /\ \A d \in Bits8 : Remainder[d] \in Bits8
  /\ \A a \in Bits8, b \in Bits8 : Remainder[Xor(a, b)] = Xor(Remainder[a], Remainder[b])
  /\ \A d \in Bits8 : Remainder[d] = {} <=> d = {}
  /\ \A d \in Bits8 : Remainder[d] = d <=> d \in {{}, SwapUnseen}
  /\ \A d \in Bits8 : Burst(d, Remainder[d]) => d = {}
<1>1. ASSUME NEW d \in Bits8 PROVE Remainder[d] \in Bits8
  BY RemainderBits
<1>2. ASSUME NEW a \in Bits8, NEW b \in Bits8
      PROVE  Remainder[Xor(a, b)] = Xor(Remainder[a], Remainder[b])
  <2>1. PICK x : x = Xor(a, b)
    OBVIOUS
  <2>2. x \in Bits8 /\ \A k \in Bit : k \in x <=> ~(k \in a <=> k \in b)
    BY <2>1, XorFacts
  <2>3. PICK y : y = Xor(Remainder[a], Remainder[b])
    OBVIOUS
  <2>4. y \in Bits8 /\ \A k \in Bit : k \in y <=> ~(k \in Remainder[a] <=> k \in Remainder[b])
    BY <1>1, <2>3, XorFacts
  <2>5. \A k \in {0, 1, 2, 3, 4, 5, 6, 7} : k \in Remainder[x] <=> k \in y
    BY <2>2, <2>4, RemainderBits, BitFacts
  <2>6. Remainder[x] = y
    BY <1>1, <2>2, <2>4, <2>5, BitFacts, SameBits
  <2> QED
    BY <2>1, <2>3, <2>6
<1>3. {} \in Bits8 /\ SwapUnseen \in Bits8
  BY DEF SwapUnseen, Bits8, Bit
<1>4. ASSUME NEW d \in Bits8 PROVE Remainder[d] = {} <=> d = {}
  <2>1. ASSUME Remainder[d] = {} PROVE d = {}
    <3>1. \A k \in {0, 1, 2, 3, 4, 5, 6, 7} : k \notin d
      BY <2>1, RemainderBits
    <3> QED
      BY <3>1, BitFacts DEF Bits8
  <2>2. Remainder[{}] = {}
    <3>1. \A k \in {0, 1, 2, 3, 4, 5, 6, 7} : k \notin Remainder[{}]
      BY <1>3, RemainderBits
    <3> QED
      BY <1>1, <1>3, <3>1, BitFacts DEF Bits8
  <2> QED
    BY <2>1, <2>2
<1>5. ASSUME NEW d \in Bits8 PROVE Remainder[d] = d <=> d \in {{}, SwapUnseen}
  <2>1. ASSUME Remainder[d] = d PROVE d \in {{}, SwapUnseen}
    <3>1. CASE 7 \in d
      <4>1. \A k \in {0, 1, 2, 3, 4, 5, 6, 7} : k \in d <=> k \in SwapUnseen
        BY <2>1, <3>1, RemainderBits DEF SwapUnseen
      <4>2. d = SwapUnseen
        BY <1>3, <4>1, BitFacts, SameBits
      <4> QED
        BY <4>2
    <3>2. CASE 7 \notin d
      <4>1. \A k \in {0, 1, 2, 3, 4, 5, 6, 7} : k \notin d
        BY <2>1, <3>2, RemainderBits
      <4>2. d = {}
        BY <4>1, BitFacts DEF Bits8
      <4> QED
        BY <4>2
    <3> QED
      BY <3>1, <3>2
  <2>2. Remainder[SwapUnseen] = SwapUnseen
    <3>1. \A k \in {0, 1, 2, 3, 4, 5, 6, 7} : k \in SwapUnseen <=> k # 1
      BY DEF SwapUnseen
    <3>2. \A k \in {0, 1, 2, 3, 4, 5, 6, 7} : k \in Remainder[SwapUnseen] <=> k \in SwapUnseen
      BY <1>3, <3>1, RemainderBits
    <3> QED
      BY <1>1, <1>3, <3>2, BitFacts, SameBits
  <2>3. Remainder[{}] = {}
    BY <1>3, <1>4
  <2> QED
    BY <2>1, <2>2, <2>3
<1>6. ASSUME NEW d \in Bits8, Burst(d, Remainder[d]) PROVE d = {}
  <2>1. PICK r \in Bits8 : r = Remainder[d]
    BY <1>1
  <2>2. \A i \in {0, 1, 2, 3, 4, 5, 6, 7}, j \in {0, 1, 2, 3, 4, 5, 6, 7} :
          i >= j => ~(i \in d /\ j \in r)
    BY <1>6, <2>1 DEF Burst
  <2>3. \A k \in {0, 1, 2, 3, 4, 5, 6, 7} : k \notin d
    BY <2>1, <2>2, RemainderBits, SMTT(30)
  <2> QED
    BY <2>3, BitFacts DEF Bits8
<1> QED
  BY <1>1, <1>2, <1>4, <1>5, <1>6

-----------------------------------------------------------------------------
(* The CRC of data. *)

\* The checksums after each of the bytes of data.
Crcs(a, data) ==
  /\ a \in [0..Len(data) -> Bits8]
  /\ a[0] = {}
  /\ \A k \in 1..Len(data) : a[k] = Crc8(a[k-1], data[k])

\* One more byte makes the same of two checksums only if they differ by as much as the bytes.
LEMMA Crc8Facts ==
  ASSUME NEW c \in Bits8, NEW d \in Bits8, NEW a \in Octet, NEW b \in Octet
  PROVE  /\ Crc8(c, a) \in Bits8
         /\ Xor(Crc8(c, a), Crc8(c, b)) = Remainder[Changed(a, b)]
         /\ Crc8(c, a) = Crc8(d, b) <=> Xor(c, d) = Changed(a, b)
         /\ Crc8(c, a) = Crc8(d, a) <=> c = d
<1>1. PICK x, y : x = BitsOf[a] /\ y = BitsOf[b]
  OBVIOUS
<1>2. x \in Bits8 /\ y \in Bits8 /\ Changed(a, b) = Xor(x, y) /\ Changed(a, a) = Xor(x, x)
  BY <1>1, BitsOfFacts DEF Changed
<1>3. /\ Crc8(c, a) = Remainder[Xor(c, x)] /\ Crc8(c, b) = Remainder[Xor(c, y)]
      /\ Crc8(d, a) = Remainder[Xor(d, x)] /\ Crc8(d, b) = Remainder[Xor(d, y)]
  BY <1>1 DEF Crc8
<1>4. /\ Xor(c, x) \in Bits8 /\ Xor(c, y) \in Bits8 /\ Xor(d, y) \in Bits8 /\ Xor(d, x) \in Bits8
      /\ Xor(c, d) \in Bits8 /\ Xor(x, y) \in Bits8
  BY <1>2, XorFacts
<1>5. \A p \in Bits8, q \in Bits8 : Xor(Remainder[p], Remainder[q]) = Remainder[Xor(p, q)]
  BY RemainderFacts
<1>6. \A p \in Bits8, q \in Bits8 : Remainder[p] = Remainder[q] <=> p = q
  <2> TAKE p \in Bits8, q \in Bits8
  <2>1. Xor(p, q) \in Bits8 /\ Remainder[p] \in Bits8 /\ Remainder[q] \in Bits8
    BY XorFacts, RemainderFacts
  <2>2. Remainder[p] = Remainder[q] <=> Remainder[Xor(p, q)] = {}
    <3>1. PICK u \in Bits8, v \in Bits8 : u = Remainder[p] /\ v = Remainder[q]
      BY <2>1
    <3>2. Xor(u, v) = {} <=> u = v
      BY XorFacts
    <3>3. Xor(u, v) = Remainder[Xor(p, q)]
      BY <1>5, <3>1
    <3> QED
      BY <3>1, <3>2, <3>3
  <2>3. Remainder[Xor(p, q)] = {} <=> Xor(p, q) = {}
    BY <2>1, RemainderFacts
  <2>4. Xor(p, q) = {} <=> p = q
    BY XorFacts
  <2> QED
    BY <2>2, <2>3, <2>4
<1>7. Xor(Crc8(c, a), Crc8(c, b)) = Remainder[Changed(a, b)]
  <2>1. Xor(Xor(c, x), Xor(c, y)) = Xor(x, y)
    BY <1>2, XorCancels
  <2> QED
    BY <1>2, <1>3, <1>4, <1>5, <2>1
<1>8. Xor(c, x) = Xor(d, y) <=> Xor(c, d) = Xor(x, y)
  <2>1. \A k \in Bit : /\ k \in Xor(c, x) <=> ~(k \in c <=> k \in x)
                       /\ k \in Xor(d, y) <=> ~(k \in d <=> k \in y)
                       /\ k \in Xor(c, d) <=> ~(k \in c <=> k \in d)
                       /\ k \in Xor(x, y) <=> ~(k \in x <=> k \in y)
    BY <1>2, XorFacts
  <2>2. ASSUME Xor(c, x) = Xor(d, y) PROVE Xor(c, d) = Xor(x, y)
    <3>1. \A k \in Bit : k \in Xor(c, d) <=> k \in Xor(x, y)
      BY <2>1, <2>2
    <3> QED
      BY <1>4, <3>1, SameBits, Zenon
  <2>3. ASSUME Xor(c, d) = Xor(x, y) PROVE Xor(c, x) = Xor(d, y)
    <3>1. \A k \in Bit : k \in Xor(c, x) <=> k \in Xor(d, y)
      BY <2>1, <2>3
    <3> QED
      BY <1>4, <3>1, SameBits, Zenon
  <2> QED
    BY <2>2, <2>3
<1>9. Xor(c, x) = Xor(d, x) <=> c = d
  <2>1. \A k \in Bit : /\ k \in Xor(c, x) <=> ~(k \in c <=> k \in x)
                       /\ k \in Xor(d, x) <=> ~(k \in d <=> k \in x)
    BY <1>2, XorFacts
  <2>2. ASSUME Xor(c, x) = Xor(d, x) PROVE c = d
    <3>1. \A k \in Bit : k \in c <=> k \in d
      BY <2>1, <2>2
    <3> QED
      BY <3>1, SameBits, Zenon
  <2> QED
    BY <2>2
<1> QED
  BY <1>2, <1>3, <1>4, <1>6, <1>7, <1>8, <1>9, RemainderFacts

\* calculate_crc() is the last of the checksums.
LEMMA CrcsExist ==
  ASSUME NEW data \in Seq(Octet)
  PROVE  \E a : Crcs(a, data) /\ calculate_crc(data) = a[Len(data)]
<1> DEFINE n == Len(data)
           Step(f) == [k \in 0..n |-> IF k = 0 THEN {} ELSE Crc8(f[k-1], data[k])]
           step == [k \in 1..n |-> [c \in Bits8 |-> Crc8(c, data[k])]]
<1>1. n \in Nat /\ {} \in Bits8
  BY DEF Bits8
<1>2. \A k \in 1..n, c \in Bits8 : Crc8(c, data[k]) \in Bits8
  <2> TAKE k \in 1..n, c \in Bits8
  <2>1. data[k] \in Octet
    OBVIOUS
  <2> QED
    BY <2>1, Crc8Facts
<1>3. step \in [1..n -> [Bits8 -> Bits8]]
  BY <1>2
<1>4. PICK f \in [0..n -> Bits8] : f = [k \in 0..n |-> IF k = 0 THEN {} ELSE step[k][f[k-1]]]
  <2>1. \E f \in [0..n -> Bits8] : Runs(f, n, {}, step)
    <3>1. PICK m, s : m = n /\ s = step
      OBVIOUS
    <3>2. m \in Nat /\ s \in [1..m -> [Bits8 -> Bits8]]
      BY <1>1, <1>3, <3>1
    <3>3. \E f \in [0..m -> Bits8] : Runs(f, m, {}, s)
      BY <1>1, <3>2, RecursionExists, Zenon
    <3> QED
      BY <3>1, <3>3
  <2> QED
    BY <2>1 DEF Runs
<1>5. \A k \in 1..n : f[k-1] \in Bits8
  BY <1>1
<1>6. f = Step(f)
  <2>1. \A k \in 1..n : step[k][f[k-1]] = Crc8(f[k-1], data[k])
    BY <1>5
  <2> HIDE DEF step
  <2>2. \A k \in 0..n : (IF k = 0 THEN {} ELSE step[k][f[k-1]])
                           = (IF k = 0 THEN {} ELSE Crc8(f[k-1], data[k]))
    BY <1>1, <2>1
  <2> QED
    BY <1>4, <2>2
<1>7. PICK a : a = CHOOSE g : g = Step(g)
  OBVIOUS
<1>8. a = Step(a)
  <2> HIDE DEF Step
  <2> QED
    BY <1>6, <1>7
<1>9. calculate_crc(data) = a[n]
  BY <1>7 DEF calculate_crc
<1>10. a[0] = {} /\ \A k \in 1..n : a[k] = Crc8(a[k-1], data[k])
  <2>1. \A k \in 0..n : a[k] = IF k = 0 THEN {} ELSE Crc8(a[k-1], data[k])
    BY <1>8
  <2>2. 0 \in 0..n /\ \A k \in 1..n : k \in 0..n /\ k # 0
    BY <1>1
  <2> QED
    BY <2>1, <2>2
<1>11. a \in [0..n -> Bits8]
  <2>1. ASSUME NEW k \in 1..n, a[k-1] \in Bits8 PROVE a[k] \in Bits8
    BY <1>2, <1>10, <2>1
  <2>2. \A k \in 0..n : a[k] \in Bits8
    <3>1. PICK m : m = n
      OBVIOUS
    <3>2. \A k \in 1..m : a[k-1] \in Bits8 => a[k] \in Bits8
      BY <2>1, <3>1
    <3>3. \A k \in 0..m : a[k] \in Bits8
      BY <1>1, <1>10, <3>1, <3>2, RecursionStays
    <3> QED
      BY <3>1, <3>3
  <2>3. DOMAIN a = 0..n /\ a = [k \in 0..n |-> a[k]]
    BY <1>8
  <2> QED
    BY <2>2, <2>3
<1> QED
  BY <1>9, <1>10, <1>11 DEF Crcs

\* Behind the same bytes checksums are the same if and only if they were before them.
LEMMA CrcsFollow ==
  ASSUME NEW data \in Seq(Octet), NEW other \in Seq(Octet), Len(other) = Len(data),
         NEW a, Crcs(a, data), NEW b, Crcs(b, other),
         NEW low \in 0..Len(data), NEW high \in low..Len(data),
         \A k \in low + 1..high : data[k] = other[k]
  PROVE  a[high] = b[high] <=> a[low] = b[low]
<1> DEFINE T == {j \in Nat : low + j <= high => (a[low + j] = b[low + j] <=> a[low] = b[low])}
<1>1. 0 \in T
  OBVIOUS
<1>2. ASSUME NEW j \in Nat, j \in T PROVE j + 1 \in T
  <2> SUFFICES ASSUME low + j + 1 <= high
               PROVE  a[low + j + 1] = b[low + j + 1] <=> a[low] = b[low]
    BY low + (j + 1) = low + j + 1
  <2>1. PICK k : k = low + j + 1
    OBVIOUS
  <2>2. k \in 1..Len(data) /\ k - 1 = low + j /\ k \in low + 1..high /\ k - 1 \in 0..Len(data)
    BY <2>1
  <2>3. data[k] \in Octet /\ other[k] = data[k]
    BY <2>2
  <2>4. a[k - 1] \in Bits8 /\ b[k - 1] \in Bits8
    BY <2>2 DEF Crcs
  <2>5. a[k] = Crc8(a[k - 1], data[k]) /\ b[k] = Crc8(b[k - 1], data[k])
    BY <2>2, <2>3 DEF Crcs
  <2>6. a[k] = b[k] <=> a[k - 1] = b[k - 1]
    <3>1. PICK c \in Bits8, d \in Bits8, x \in Octet : c = a[k - 1] /\ d = b[k - 1] /\ x = data[k]
      BY <2>3, <2>4
    <3>2. Crc8(c, x) = Crc8(d, x) <=> c = d
      BY Crc8Facts
    <3> QED
      BY <2>3, <2>5, <3>1, <3>2
  <2>7. a[k - 1] = b[k - 1] <=> a[low] = b[low]
    BY <1>2, <2>1, <2>2
  <2> QED
    BY <2>1, <2>6, <2>7
<1>3. Nat \subseteq T
  <2> HIDE DEF T
  <2> QED
    BY <1>1, <1>2, Upwards
<1>4. high - low \in T /\ low + (high - low) = high
  BY <1>3
<1> QED
  BY <1>4

\* If one byte differs, so do the checksums.
LEMMA OneByteDiffers ==
  ASSUME NEW data \in Seq(Octet), NEW other \in Seq(Octet), Len(other) = Len(data),
         NEW k \in 1..Len(data), \A i \in 1..Len(data) : i # k => data[i] = other[i]
  PROVE  calculate_crc(data) = calculate_crc(other) <=> data[k] = other[k]
<1>1. PICK a : Crcs(a, data) /\ calculate_crc(data) = a[Len(data)]
  BY CrcsExist
<1>2. PICK b : Crcs(b, other) /\ calculate_crc(other) = b[Len(data)]
  BY CrcsExist
<1>3. PICK n \in Nat : n = Len(data)
  OBVIOUS
<1>4. a[0] = b[0]
  BY <1>1, <1>2 DEF Crcs
<1>5. a[k-1] = b[k-1]
  <2>1. 0 \in 0..n /\ k - 1 \in 0..n /\ \A i \in 0 + 1..k - 1 : data[i] = other[i]
    BY <1>3
  <2> QED
    BY SMTT(30), <1>1, <1>2, <1>3, <1>4, <2>1, CrcsFollow
<1>6. /\ a[k] = Crc8(a[k-1], data[k]) /\ b[k] = Crc8(b[k-1], other[k])
      /\ a[k-1] \in Bits8 /\ data[k] \in Octet /\ other[k] \in Octet
  <2>1. k \in 1..n /\ k - 1 \in 0..n
    BY <1>3
  <2>2. /\ a \in [0..n -> Bits8]
        /\ \A i \in 1..n : a[i] = Crc8(a[i-1], data[i])
        /\ \A i \in 1..n : b[i] = Crc8(b[i-1], other[i])
    BY <1>1, <1>2, <1>3 DEF Crcs
  <2>3. a[k-1] \in Bits8
    BY <2>1, <2>2
  <2>4. a[k] = Crc8(a[k-1], data[k]) /\ b[k] = Crc8(b[k-1], other[k])
    BY <2>1, <2>2
  <2>5. data[k] \in Octet /\ other[k] \in Octet
    OBVIOUS
  <2> QED
    BY <2>3, <2>4, <2>5
<1>7. a[k] = b[k] <=> data[k] = other[k]
  <2>1. PICK c \in Bits8 : c = a[k-1] /\ c = b[k-1]
    BY <1>5, <1>6
  <2>2. a[k] = b[k] <=> Xor(c, c) = Changed(data[k], other[k])
    BY <1>6, <2>1, Crc8Facts
  <2>3. Xor(c, c) = {}
    BY XorFacts
  <2>4. Changed(data[k], other[k]) = {} <=> data[k] = other[k]
    BY <1>6, ChangedFacts
  <2> QED
    BY <2>2, <2>3, <2>4
<1>8. a[Len(data)] = b[Len(data)] <=> a[k] = b[k]
  <2>1. PICK m \in 1..n : m = k
    BY <1>3
  <2>2. /\ m \in 0..Len(data) /\ Len(data) \in m..Len(data)
        /\ \A i \in m + 1..Len(data) : data[i] = other[i]
    BY <1>3, <2>1
  <2>3. \A high \in m..Len(data) :
          (\A i \in m + 1..high : data[i] = other[i]) => (a[high] = b[high] <=> a[m] = b[m])
    BY <1>1, <1>2, <2>2, CrcsFollow
  <2> QED
    BY <2>1, <2>3
<1> QED
  BY <1>1, <1>2, <1>3, <1>7, <1>8

\* If two neighbours differ, the checksums are the same only if what the second one differs by
\* is the remainder of what the first one differs by.
LEMMA TwoBytesDiffer ==
  ASSUME NEW data \in Seq(Octet), NEW other \in Seq(Octet), Len(other) = Len(data),
         NEW k \in 1..Len(data) - 1,
         \A i \in 1..Len(data) : i # k /\ i # k + 1 => data[i] = other[i]
  PROVE  calculate_crc(data) = calculate_crc(other)
           <=> Remainder[Changed(data[k], other[k])] = Changed(data[k+1], other[k+1])
<1>1. PICK a : Crcs(a, data) /\ calculate_crc(data) = a[Len(data)]
  BY CrcsExist
<1>2. PICK b : Crcs(b, other) /\ calculate_crc(other) = b[Len(data)]
  BY CrcsExist
<1>3. PICK n \in Nat : n = Len(data)
  OBVIOUS
<1>4. a[0] = b[0]
  BY <1>1, <1>2 DEF Crcs
<1>5. a[k-1] = b[k-1]
  <2>1. 0 \in 0..n /\ k - 1 \in 0..n /\ \A i \in 0 + 1..k - 1 : data[i] = other[i]
    BY <1>3
  <2> QED
    BY <1>1, <1>2, <1>3, <1>4, <2>1, CrcsFollow
<1>6. PICK m \in 1..n : m = k + 1 /\ m - 1 = k
  BY <1>3
<1>7. /\ a[k] = Crc8(a[k-1], data[k]) /\ b[k] = Crc8(a[k-1], other[k])
      /\ a[m] = Crc8(a[k], data[m]) /\ b[m] = Crc8(b[k], other[m])
      /\ a[k-1] \in Bits8 /\ a[k] \in Bits8 /\ b[k] \in Bits8
  <2>1. k \in 1..n /\ k \in 0..n /\ k - 1 \in 0..n
    BY <1>3
  <2>2. /\ a \in [0..n -> Bits8] /\ b \in [0..n -> Bits8]
        /\ \A i \in 1..n : a[i] = Crc8(a[i-1], data[i])
        /\ \A i \in 1..n : b[i] = Crc8(b[i-1], other[i])
    BY <1>1, <1>2, <1>3 DEF Crcs
  <2>3. a[k-1] \in Bits8 /\ a[k] \in Bits8 /\ b[k] \in Bits8
    BY <2>1, <2>2
  <2>4. /\ a[k] = Crc8(a[k-1], data[k]) /\ b[k] = Crc8(b[k-1], other[k])
        /\ a[m] = Crc8(a[m-1], data[m]) /\ b[m] = Crc8(b[m-1], other[m])
    BY <2>1, <2>2
  <2> QED
    BY <1>5, <1>6, <2>3, <2>4
<1>8. data[k] \in Octet /\ other[k] \in Octet /\ data[m] \in Octet /\ other[m] \in Octet
  BY <1>3, <1>6
<1>9. Xor(a[k], b[k]) = Remainder[Changed(data[k], other[k])]
  <2>1. PICK c \in Bits8, x \in Octet, y \in Octet : c = a[k-1] /\ x = data[k] /\ y = other[k]
    BY <1>7, <1>8
  <2>2. Xor(Crc8(c, x), Crc8(c, y)) = Remainder[Changed(x, y)]
    BY Crc8Facts
  <2> QED
    BY <1>7, <2>1, <2>2
<1>10. a[m] = b[m] <=> Xor(a[k], b[k]) = Changed(data[m], other[m])
  <2>1. PICK c \in Bits8, d \in Bits8, x \in Octet, y \in Octet :
          c = a[k] /\ d = b[k] /\ x = data[m] /\ y = other[m]
    BY <1>7, <1>8
  <2>2. Crc8(c, x) = Crc8(d, y) <=> Xor(c, d) = Changed(x, y)
    BY Crc8Facts
  <2> QED
    BY <1>7, <2>1, <2>2
<1>11. a[Len(data)] = b[Len(data)] <=> a[m] = b[m]
  <2>1. /\ m \in 0..Len(data) /\ Len(data) \in m..Len(data)
        /\ \A i \in m + 1..Len(data) : data[i] = other[i]
    BY <1>3, <1>6
  <2> QED
    BY <1>1, <1>2, <2>1, CrcsFollow
<1> QED
  BY <1>1, <1>2, <1>3, <1>6, <1>9, <1>10, <1>11

\* A byte in the place of another one is always told apart.
LEMMA ByteReplaced ==
  ASSUME NEW data \in Seq(Octet), NEW k \in 1..Len(data), NEW a \in Octet, a # data[k]
  PROVE  calculate_crc([data EXCEPT ![k] = a]) # calculate_crc(data)
<1>1. PICK other : other = [data EXCEPT ![k] = a]
  OBVIOUS
<1>2. /\ other \in Seq(Octet) /\ Len(other) = Len(data)
      /\ other[k] = a /\ \A i \in 1..Len(data) : i # k => data[i] = other[i]
  BY <1>1
<1>3. calculate_crc(data) = calculate_crc(other) <=> data[k] = other[k]
  BY <1>2, OneByteDiffers
<1> QED
  BY <1>1, <1>2, <1>3

\* What two bytes in the place of two neighbours make of data.
Differs(other, data, k, a, b) ==
  /\ other \in Seq(Octet) /\ Len(other) = Len(data)
  /\ other[k] = a /\ other[k+1] = b
  /\ \A i \in 1..Len(data) : i # k /\ i # k + 1 => data[i] = other[i]

\* Replaced() puts two bytes in the place of two neighbours and leaves the others.
LEMMA ReplacedFacts ==
  ASSUME NEW data \in Seq(Octet), NEW k \in 1..Len(data) - 1, NEW a \in Octet, NEW b \in Octet
  PROVE  Differs(Replaced(data, k, a, b), data, k, a, b)
<1>1. PICK n \in Nat : n = Len(data)
  OBVIOUS
<1>2. PICK other : other = Replaced(data, k, a, b)
  OBVIOUS
<1>3. other = [i \in 1..n |-> IF i = k THEN a ELSE IF i = k + 1 THEN b ELSE data[i]]
  BY <1>1, <1>2 DEF Replaced
<1>4. \A i \in 1..n : (IF i = k THEN a ELSE IF i = k + 1 THEN b ELSE data[i]) \in Octet
  BY <1>1
<1>5. other \in Seq(Octet) /\ Len(other) = n
  BY <1>3, <1>4
<1>6. k \in 1..n /\ k + 1 \in 1..n /\ k # k + 1
  BY <1>1
<1>7. /\ other[k] = a /\ other[k+1] = b
      /\ \A i \in 1..n : i # k /\ i # k + 1 => data[i] = other[i]
  BY <1>3, <1>6
<1> QED
  BY <1>1, <1>2, <1>5, <1>7 DEF Differs

\* Its checksum.
LEMMA ReplacedCrc ==
  ASSUME NEW data \in Seq(Octet), NEW k \in 1..Len(data) - 1, NEW a \in Octet, NEW b \in Octet
  PROVE  calculate_crc(Replaced(data, k, a, b)) = calculate_crc(data)
           <=> Remainder[Changed(data[k], a)] = Changed(data[k+1], b)
<1>1. PICK other : other = Replaced(data, k, a, b)
  OBVIOUS
<1>2. Differs(other, data, k, a, b)
  BY <1>1, ReplacedFacts, Zenon
<1>3. calculate_crc(data) = calculate_crc(other)
        <=> Remainder[Changed(data[k], other[k])] = Changed(data[k+1], other[k+1])
  BY <1>2, TwoBytesDiffer DEF Differs
<1> QED
  BY <1>1, <1>2, <1>3 DEF Differs

\* Bits that change within eight neighbouring ones are told apart.
LEMMA BurstReplaced ==
  ASSUME NEW data \in Seq(Octet), NEW k \in 1..Len(data) - 1, NEW a \in Octet, NEW b \in Octet,
         Burst(Changed(data[k], a), Changed(data[k+1], b)), Replaced(data, k, a, b) # data
  PROVE  calculate_crc(Replaced(data, k, a, b)) # calculate_crc(data)
<1> SUFFICES ASSUME calculate_crc(Replaced(data, k, a, b)) = calculate_crc(data) PROVE FALSE
  OBVIOUS
<1>1. data[k] \in Octet /\ data[k+1] \in Octet
  OBVIOUS
<1>2. Changed(data[k], a) \in Bits8 /\ Changed(data[k+1], b) \in Bits8
  BY <1>1, ChangedFacts
<1>3. Remainder[Changed(data[k], a)] = Changed(data[k+1], b)
  BY ReplacedCrc
<1>4. Changed(data[k], a) = {}
  BY <1>2, <1>3, RemainderFacts
<1>5. Changed(data[k+1], b) = {}
  BY <1>2, <1>3, <1>4, RemainderFacts
<1>6. data[k] = a /\ data[k+1] = b
  BY <1>1, <1>4, <1>5, ChangedFacts
<1>7. PICK other : other = Replaced(data, k, a, b)
  OBVIOUS
<1>8. Differs(other, data, k, a, b)
  BY <1>7, ReplacedFacts, Zenon
<1>9. \A i \in 1..Len(data) : other[i] = data[i]
  BY <1>6, <1>8 DEF Differs
<1>10. other = data
  BY <1>8, <1>9, SeqEqual DEF Differs
<1> QED
  BY <1>7, <1>10

\* Neighbours that change places are told apart unless they are the same or differ by
\* SwapUnseen.
LEMMA SwapReplaced ==
  ASSUME NEW data \in Seq(Octet), NEW k \in 1..Len(data) - 1
  PROVE  calculate_crc(Replaced(data, k, data[k+1], data[k])) = calculate_crc(data)
           <=> Changed(data[k], data[k+1]) \in {{}, SwapUnseen}
<1>1. PICK a \in Octet, b \in Octet : a = data[k] /\ b = data[k+1]
  OBVIOUS
<1>2. calculate_crc(Replaced(data, k, b, a)) = calculate_crc(data)
        <=> Remainder[Changed(a, b)] = Changed(b, a)
  <2>1. calculate_crc(Replaced(data, k, b, a)) = calculate_crc(data)
          <=> Remainder[Changed(data[k], b)] = Changed(data[k+1], a)
    BY ReplacedCrc
  <2> QED
    BY <1>1, <2>1
<1>3. Changed(b, a) = Changed(a, b) /\ Changed(a, b) \in Bits8
  BY BitsOfFacts, XorFacts, ChangedFacts DEF Changed
<1>4. Remainder[Changed(a, b)] = Changed(a, b) <=> Changed(a, b) \in {{}, SwapUnseen}
  BY <1>3, RemainderFacts
<1> QED
  BY <1>1, <1>2, <1>3, <1>4

-----------------------------------------------------------------------------
(* The packets. *)

\* Every state is a packet: its data is one of Data, its sequence number a byte.
IsPacket == packet \in Packet

\* The data of a packet grows within Data, and nothing else of it changes.
LEMMA PacketAlways == Spec => []IsPacket
<1>1. Init => IsPacket
  BY DEF Init, Packet, IsPacket
<1>2. IsPacket /\ [Next]_packet => IsPacket'
  BY DEF Next, Grow, Packet, IsPacket
<1> QED
  BY <1>1, <1>2, PTL DEF Spec

\* For any data, whatever bytes a line puts in the place of others: the CRC is another one
\* after a change of bits within eight neighbouring ones, and after an exchange of neighbouring
\* bytes unless they are the same or differ in the bits of 253.
THEOREM ChangesSeen == Spec => []CrcTellsApart
<1>1. IsPacket => CrcTellsApart
  <2> SUFFICES ASSUME packet \in Packet PROVE CrcTellsApart
    BY DEF IsPacket
  <2> DEFINE data == packet.data
  <2>1. data \in Seq(Octet)
    BY DataAssumption DEF Packet
  <2> HIDE DEF data
  <2>2. \A a \in ByteValue : a \in Octet
    BY DataAssumption
  <2>3. ASSUME NEW k \in 1..Len(data), NEW a \in ByteValue, a # data[k]
        PROVE  calculate_crc([data EXCEPT ![k] = a]) # calculate_crc(data)
    BY <2>1, <2>2, <2>3, ByteReplaced
  <2>4. ASSUME NEW k \in 1..Len(data) - 1, NEW a \in ByteValue, NEW b \in ByteValue,
               Burst(Changed(data[k], a), Changed(data[k+1], b)), Replaced(data, k, a, b) # data
        PROVE  calculate_crc(Replaced(data, k, a, b)) # calculate_crc(data)
    BY <2>1, <2>2, <2>4, BurstReplaced
  <2>5. ASSUME NEW k \in 1..Len(data) - 1
        PROVE  calculate_crc(Replaced(data, k, data[k+1], data[k])) = calculate_crc(data)
                 <=> Changed(data[k], data[k+1]) \in {{}, SwapUnseen}
    BY <2>1, SwapReplaced
  <2> QED
    BY <2>3, <2>4, <2>5, Zenon DEF CrcTellsApart, data
<1> QED
  BY <1>1, PacketAlways, PTL

-----------------------------------------------------------------------------
(* The wire format. *)

\* What PacketAlways says of a packet's members, and what send() makes of a message.
Valid(p) ==
  /\ p.data \in Seq(Octet) /\ Len(p.data) <= DATA_MAX
  /\ p.sequence_number \in Octet /\ p.flag \in Flags

\* The sum of bits is a byte.
LEMMA ByteOfFacts == ASSUME NEW bits \in Bits8 PROVE ByteOf(bits) \in Octet
<1>1. /\ 2^0 = 1 /\ 2^1 = 2 /\ 2^2 = 4 /\ 2^3 = 8
      /\ 2^4 = 16 /\ 2^5 = 32 /\ 2^6 = 64 /\ 2^7 = 128
  OBVIOUS
<1>2. PICK w0 \in {0, 1}, w1 \in {0, 2}, w2 \in {0, 4}, w3 \in {0, 8} :
        /\ w0 = (IF 0 \in bits THEN 2^0 ELSE 0) /\ w1 = (IF 1 \in bits THEN 2^1 ELSE 0)
        /\ w2 = (IF 2 \in bits THEN 2^2 ELSE 0) /\ w3 = (IF 3 \in bits THEN 2^3 ELSE 0)
  BY <1>1
<1>3. PICK w4 \in {0, 16}, w5 \in {0, 32}, w6 \in {0, 64}, w7 \in {0, 128} :
        /\ w4 = (IF 4 \in bits THEN 2^4 ELSE 0) /\ w5 = (IF 5 \in bits THEN 2^5 ELSE 0)
        /\ w6 = (IF 6 \in bits THEN 2^6 ELSE 0) /\ w7 = (IF 7 \in bits THEN 2^7 ELSE 0)
  BY <1>1
<1>4. ByteOf(bits) = w0 + w1 + w2 + w3 + w4 + w5 + w6 + w7
  BY <1>2, <1>3 DEF ByteOf
<1>5. w0 + w1 + w2 + w3 + w4 + w5 + w6 + w7 \in Nat
  OBVIOUS
<1>6. w0 + w1 + w2 + w3 + w4 + w5 + w6 + w7 <= 255
  OBVIOUS
<1> QED
  BY <1>4, <1>5, <1>6, ByteFacts

\* A byte takes one or two bytes, the last one without the highest bit.
LEMMA VarintFacts ==
  ASSUME NEW n \in Octet
  PROVE  /\ Varint(n) \in Seq(Octet)
         /\ Len(Varint(n)) \in {1, 2}
         /\ Varint(n)[Len(Varint(n))] < 128
<1>1. n \in Nat /\ n <= 255
  BY ByteFacts
<1>2. CASE n < 128
  <2>1. Varint(n) = <<n>>
    BY <1>2 DEF Varint
  <2> QED
    BY <1>2, <2>1
<1>3. CASE ~(n < 128)
  <2>1. PICK low, high : low = 128 + (n % 128) /\ high = n \div 128
    OBVIOUS
  <2>2. low \in Nat /\ low <= 255 /\ high \in Nat /\ high <= 1
    BY <1>1, <2>1
  <2>3. low \in Octet /\ high \in Octet
    BY <2>2, ByteFacts
  <2>4. Varint(n) = <<low, high>>
    BY <1>3, <2>1 DEF Varint
  <2> QED
    BY <2>2, <2>3, <2>4
<1> QED
  BY <1>2, <1>3

\* A flag has a number from 0 to 3.
LEMMA FlagFacts == \A flag \in Flags : FlagValue(flag) \in Nat /\ FlagValue(flag) <= 3
<1> SUFFICES ASSUME NEW flag \in Flags PROVE FlagValue(flag) \in Nat /\ FlagValue(flag) <= 3
  OBVIOUS
<1>1. \E k \in 1..4 : FlagNames[k] = flag
  BY DEF Flags
<1>2. PICK n : n = CHOOSE k \in 1..4 : FlagNames[k] = flag
  OBVIOUS
<1>3. n \in 1..4
  BY <1>1, <1>2
<1>4. FlagValue(flag) = n - 1
  BY <1>2 DEF FlagValue
<1> QED
  BY <1>3, <1>4

\* A marshalled Packet behind its length: bytes, not more of them than Packet_size, and the
\* highest bit of none of the last three.
LEMMA WireFacts ==
  ASSUME NEW p, Valid(p)
  PROVE  /\ Wire(p) \in Seq(Octet)
         /\ Len(Wire(p)) >= 9 /\ Len(Wire(p)) <= DATA_MAX + 11 /\ Len(Wire(p)) <= 128
         /\ \A k \in 1..Len(Wire(p)) : k >= Len(Wire(p)) - 2 => Wire(p)[k] < 128
<1>1. PICK data \in Seq(Octet) : data = p.data /\ Len(data) <= DATA_MAX
  BY DEF Valid
<1>2. PICK n \in Nat : n = Len(data) /\ n <= DATA_MAX /\ n <= 117 /\ DATA_MAX \in Nat
  BY <1>1, DataMaxAssumption
<1>3. PICK u, v, f : /\ u = Varint(p.sequence_number)
                     /\ v = Varint(ByteOf(calculate_crc(p.data)))
                     /\ f = FlagValue(p.flag)
  OBVIOUS
<1>4. u \in Seq(Octet) /\ Len(u) \in {1, 2}
  BY <1>3, VarintFacts DEF Valid
<1>5. v \in Seq(Octet) /\ Len(v) \in {1, 2} /\ v[Len(v)] < 128
  <2>1. calculate_crc(data) \in Bits8
    <3>1. PICK a : Crcs(a, data) /\ calculate_crc(data) = a[Len(data)]
      BY CrcsExist
    <3> QED
      BY <1>2, <3>1 DEF Crcs
  <2>2. ByteOf(calculate_crc(p.data)) \in Octet
    BY <1>1, <2>1, ByteOfFacts
  <2> QED
    BY <1>3, <2>2, VarintFacts
<1>6. f \in Octet /\ f < 128
  <2>1. f \in Nat /\ f <= 3
    BY <1>3, FlagFacts DEF Valid
  <2> QED
    BY <2>1, ByteFacts
<1>7. PICK b1 : b1 = <<10, n>> \o data
  OBVIOUS
<1>8. b1 \in Seq(Octet) /\ Len(b1) = n + 2
  <2>1. 10 \in Octet /\ n \in Octet
    BY <1>2, ByteFacts
  <2> QED
    BY <1>2, <1>7, <2>1
<1>9. PICK b2 : b2 = b1 \o <<16>>
  OBVIOUS
<1>10. b2 \in Seq(Octet) /\ Len(b2) = n + 3
  <2>1. 16 \in Octet
    BY ByteFacts
  <2> QED
    BY <1>8, <1>9, <2>1
<1>11. PICK b3 : b3 = b2 \o u
  OBVIOUS
<1>12. b3 \in Seq(Octet) /\ Len(b3) = n + 3 + Len(u)
  <2>1. b3 \in Seq(Octet) /\ Len(b3) = Len(b2) + Len(u)
    BY <1>4, <1>10, <1>11, ConcatFacts
  <2> QED
    BY <1>10, <2>1
<1>13. PICK b4 : b4 = b3 \o <<24>>
  OBVIOUS
<1>14. b4 \in Seq(Octet) /\ Len(b4) = n + 4 + Len(u)
  <2>1. 24 \in Octet
    BY ByteFacts
  <2> QED
    BY <1>4, <1>12, <1>13, <2>1
<1>15. PICK b5 : b5 = b4 \o v
  OBVIOUS
<1>16. /\ b5 \in Seq(Octet) /\ Len(b5) = n + 4 + Len(u) + Len(v)
       /\ b5[Len(b5)] < 128
  <2>1. /\ b5 \in Seq(Octet) /\ Len(b5) = Len(b4) + Len(v)
        /\ \A k \in 1..Len(v) : b5[Len(b4) + k] = v[k]
    BY <1>5, <1>14, <1>15, ConcatFacts
  <2>2. Len(v) \in 1..Len(v)
    <3>1. PICK m \in {1, 2} : m = Len(v)
      BY <1>5
    <3> QED
      BY <3>1
  <2>3. b5[Len(b5)] = v[Len(v)]
    BY <2>1, <2>2
  <2> QED
    BY <1>5, <1>14, <2>1, <2>3
<1>17. PICK body : body = b5 \o <<32, f>>
  OBVIOUS
<1>18. PICK m \in Nat : m = Len(b5) /\ m \in n + 6..n + 8
  <2>1. PICK i \in {1, 2}, j \in {1, 2} : i = Len(u) /\ j = Len(v)
    BY <1>4, <1>5
  <2>2. Len(b5) = n + 4 + i + j
    BY <1>16, <2>1
  <2>3. n + 4 + i + j \in Nat /\ n + 4 + i + j \in n + 6..n + 8
    BY <1>2
  <2> QED
    BY <2>2, <2>3
<1>19. /\ body \in Seq(Octet) /\ Len(body) = m + 2
       /\ body[m] < 128 /\ body[m + 1] = 32 /\ body[m + 2] = f
  <2>1. PICK end : end = <<32, f>>
    OBVIOUS
  <2>2. end \in Seq(Octet) /\ Len(end) = 2 /\ end[1] = 32 /\ end[2] = f
    <3>1. 32 \in Octet
      BY ByteFacts
    <3> QED
      BY <1>6, <2>1, <3>1
  <2>3. /\ body \in Seq(Octet) /\ Len(body) = Len(b5) + Len(end)
        /\ \A k \in 1..Len(b5) : body[k] = b5[k]
        /\ \A k \in 1..Len(end) : body[Len(b5) + k] = end[k]
    BY <1>16, <1>17, <2>1, <2>2, ConcatFacts
  <2>4. m \in 1..m /\ 1 \in 1..2 /\ 2 \in 1..2
    BY <1>18
  <2> QED
    BY <1>16, <1>18, <2>2, <2>3, <2>4
<1>20. Body(p) = body
  BY <1>1, <1>2, <1>3, <1>7, <1>9, <1>11, <1>13, <1>15, <1>17, Zenon DEF Body
<1>21. PICK w : w = Wire(p)
  OBVIOUS
<1>22. /\ w \in Seq(Octet) /\ Len(w) = m + 3
       /\ w[m + 1] < 128 /\ w[m + 2] < 128 /\ w[m + 3] < 128
  <2>1. PICK start : start = <<m + 2>>
    OBVIOUS
  <2>2. start \in Seq(Octet) /\ Len(start) = 1 /\ w = start \o body
    <3>1. m + 2 \in Octet
      BY <1>2, <1>18, ByteFacts
    <3>2. start \in Seq(Octet) /\ Len(start) = 1
      BY <2>1, <3>1
    <3> QED
      BY <1>19, <1>20, <1>21, <2>1, <3>2 DEF Wire
  <2>3. /\ w \in Seq(Octet) /\ Len(w) = 1 + Len(body)
        /\ \A k \in 1..Len(body) : w[1 + k] = body[k]
    <3>1. /\ w \in Seq(Octet) /\ Len(w) = Len(start) + Len(body)
          /\ \A k \in 1..Len(body) : w[Len(start) + k] = body[k]
      <4>1. body \in Seq(Octet)
        BY <1>19
      <4>2. start \in Seq(Octet) /\ w = start \o body
        BY <2>2
      <4> QED
        BY <4>1, <4>2, ConcatFacts
    <3> QED
      BY <2>2, <3>1
  <2>4. /\ m \in 1..m + 2 /\ m + 1 \in 1..m + 2 /\ m + 2 \in 1..m + 2
        /\ 1 + m = m + 1 /\ 1 + (m + 1) = m + 2 /\ 1 + (m + 2) = m + 3
    BY <1>18
  <2>5. w[m + 1] = body[m] /\ w[m + 2] = body[m + 1] /\ w[m + 3] = body[m + 2]
    BY <1>19, <2>3, <2>4
  <2> QED
    BY <1>6, <1>19, <2>3, <2>4, <2>5
<1>23. ASSUME NEW k \in 1..m + 3, k >= m + 3 - 2 PROVE w[k] < 128
  <2>1. k = m + 1 \/ k = m + 2 \/ k = m + 3
    BY <1>23
  <2> QED
    BY <1>22, <2>1
<1> QED
  BY <1>2, <1>18, <1>21, <1>22, <1>23

-----------------------------------------------------------------------------
(* Short encodings. *)

\* Up to 253 bytes, one more is written than there are.  Each is the one of the source in its
\* place, or a code, which leads at most behind the last one.
LEMMA StuffedShort ==
  ASSUME NEW s \in Seq(Octet), Len(s) <= 253
  PROVE  \A first \in 1..Len(s) + 1 :
           LET t == StuffedFrom(s, FALSE)[first] IN
           /\ t \in Seq(Octet) /\ Len(t) = Len(s) + 2 - first
           /\ \A k \in 1..Len(t) : \/ t[k] <= Len(t) - k + 1
                                   \/ k > 1 /\ t[k] = s[first + k - 2]
<1> DEFINE F == StuffedFrom(s, FALSE)
           Fits(first, t) == /\ t \in Seq(Octet) /\ Len(t) = Len(s) + 2 - first
                             /\ \A k \in 1..Len(t) : \/ t[k] <= Len(t) - k + 1
                                                     \/ k > 1 /\ t[k] = s[first + k - 2]
           G == {first \in 1..Len(s) + 1 : Fits(first, F[first])}
<1>1. PICK n \in Nat : n = Len(s) /\ n <= 253
  OBVIOUS
<1>2. ASSUME NEW first \in 1..n + 1, \A k \in first + 1..n + 1 : k \in G
      PROVE  first \in G
  <2>1. PICK end : end = BlockEnd(s, first)
    OBVIOUS
  <2>2. PICK block, next : block = Block(s, first, end) /\ next = NextBlock(s, first)
    OBVIOUS
  <2>3. /\ block \in Seq(Octet) /\ Len(block) = end - first /\ Len(block) <= 254
        /\ \A k \in 1..Len(block) : block[k] = s[first + k - 1]
        /\ \/ end # n + 1 /\ F[first] = Coded(block) \o F[next]
           \/ end = n + 1 /\ F[first] = Coded(block)
    <3>1. /\ block \in Seq(Octet) /\ Len(block) = end - first /\ Len(block) <= 254
          /\ \A k \in 1..Len(block) : block[k] = s[first + k - 1]
      <4>1. first \in 1..Len(s) + 1 /\ FALSE \in BOOLEAN
        BY <1>1
      <4>2. block \in Seq(Octet)
        BY <2>1, <2>2, <4>1, StuffedCases
      <4>3. Len(block) = end - first
        BY <2>1, <2>2, <4>1, StuffedCases
      <4>4. Len(block) <= 254
        BY <1>1, <2>1, <4>1, <4>3, BlockEndFacts
      <4>5. \A k \in 1..Len(block) : block[k] = s[first + k - 1]
        BY <2>1, <2>2, <4>1, StuffedCases
      <4> QED
        BY <4>2, <4>3, <4>4, <4>5
    <3>2. \/ end # n + 1 /\ F[first] = Coded(block) \o F[next]
          \/ end = n + 1 /\ F[first] = Coded(block)
      BY <1>1, <2>1, <2>2, FALSE \in BOOLEAN, StuffedCases
    <3> QED
      BY <3>1, <3>2
  <2>4. end \in first..n + 1 /\ (end # n + 1 => end < first + 254)
    BY <1>1, <2>1, BlockEndFacts
  <2>5. PICK m \in Nat : /\ m = end - first /\ m = Len(block) /\ end = first + m
                         /\ end = n + 1 => m + 1 = n + 2 - first
    BY <1>1, <2>3, <2>4
  <2>6. PICK c : c = Coded(block)
    OBVIOUS
  <2>7. /\ c \in Seq(Octet) /\ Len(c) = m + 1
        /\ c[1] = m + 1 /\ \A k \in 2..m + 1 : c[k] = s[first + k - 2]
    <3>1. c \in Seq(Octet) /\ Len(c) = m + 1 /\ c = <<m + 1>> \o block
      BY <2>3, <2>5, <2>6, CodedFacts
    <3>2. c[1] = m + 1 /\ \A k \in 1..m : c[k + 1] = block[k]
      BY <2>3, <2>5, <3>1
    <3>3. ASSUME NEW k \in 2..m + 1 PROVE c[k] = s[first + k - 2]
      <4>1. k - 1 \in 1..m /\ k - 1 + 1 = k /\ first + (k - 1) - 1 = first + k - 2
        OBVIOUS
      <4> QED
        BY <2>3, <2>5, <3>2, <4>1
    <3> QED
      BY <3>1, <3>2, <3>3
  <2>8. CASE end = n + 1
    <3>1. F[first] = c
      BY <2>3, <2>6, <2>8
    <3>2. Len(c) = n + 2 - first
      <4>1. m + 1 = n + 2 - first
        BY <2>5, <2>8
      <4> QED
        BY <2>7, <4>1
    <3>3. ASSUME NEW k \in 1..Len(c)
          PROVE  \/ c[k] <= Len(c) - k + 1
                 \/ k > 1 /\ c[k] = s[first + k - 2]
      <4>1. k = 1 \/ k \in 2..m + 1
        BY <2>7
      <4>2. CASE k = 1
        BY <2>7, <4>2
      <4> QED
        BY <2>7, <4>1, <4>2
    <3> QED
      BY <1>1, <2>7, <3>1, <3>2, <3>3
  <2>9. CASE end # n + 1
    <3>1. next = first + m + 1 /\ next \in first + 1..n + 1
      BY <1>1, <2>1, <2>2, <2>4, <2>5, <2>9 DEF NextBlock, LongBlock
    <3>2. PICK r : r = F[next]
      OBVIOUS
    <3>3. /\ r \in Seq(Octet) /\ Len(r) = n + 2 - next
          /\ \A k \in 1..Len(r) : \/ r[k] <= Len(r) - k + 1
                                  \/ k > 1 /\ r[k] = s[next + k - 2]
      BY <1>1, <1>2, <3>1, <3>2
    <3>4. PICK t : t = c \o r
      OBVIOUS
    <3>5. F[first] = t
      BY <2>3, <2>6, <2>9, <3>2, <3>4
    <3>6. /\ t \in Seq(Octet) /\ Len(t) = m + 1 + Len(r)
          /\ \A k \in 1..m + 1 : t[k] = c[k]
          /\ \A k \in 1..Len(r) : t[m + 1 + k] = r[k]
      <4>1. /\ t \in Seq(Octet) /\ Len(t) = Len(c) + Len(r)
            /\ \A k \in 1..Len(c) : t[k] = c[k]
            /\ \A k \in 1..Len(r) : t[Len(c) + k] = r[k]
        BY <2>7, <3>3, <3>4, ConcatFacts
      <4> QED
        BY <2>7, <4>1
    <3>7. PICK l \in Nat : l = Len(r) /\ l = n + 2 - next /\ Len(t) = m + 1 + l
      <4>1. PICK l \in Nat : l = Len(r)
        BY <3>3
      <4>2. l = n + 2 - next /\ Len(t) = m + 1 + l
        BY <3>3, <3>6, <4>1
      <4> QED
        BY <4>1, <4>2
    <3>8. Len(t) = n + 2 - first
      BY <3>1, <3>7
    <3>9. ASSUME NEW k \in 1..Len(t)
          PROVE  \/ t[k] <= Len(t) - k + 1
                 \/ k > 1 /\ t[k] = s[first + k - 2]
      <4>1. CASE k = 1
        <5>1. t[k] = m + 1
          BY <2>7, <3>6, <4>1
        <5> QED
          BY <3>7, <4>1, <5>1
      <4>2. CASE k \in 2..m + 1
        BY <2>7, <3>6, <4>2
      <4>3. CASE k \in m + 2..m + 1 + l
        <5>1. PICK j \in 1..l : k = m + 1 + j
          <6>1. k - (m + 1) \in 1..l /\ k = m + 1 + (k - (m + 1))
            BY <4>3
          <6> QED
            BY <6>1
        <5>2. t[k] = r[j]
          BY <3>6, <3>7, <5>1
        <5>3. r[j] <= l - j + 1 \/ (j > 1 /\ r[j] = s[next + j - 2])
          BY <3>3, <3>7
        <5>4. l - j + 1 = Len(t) - k + 1 /\ next + j - 2 = first + k - 2 /\ k > 1
          BY <3>1, <3>7, <5>1
        <5> QED
          BY <5>2, <5>3, <5>4
      <4> QED
        BY <3>7, <4>1, <4>2, <4>3
    <3> QED
      BY <1>1, <3>5, <3>6, <3>8, <3>9
  <2> QED
    BY <2>8, <2>9
<1>3. \A first \in 1..n + 1 : first \in G
  <2> HIDE DEF G
  <2> QED
    BY <1>2, Backwards
<1> QED
  BY <1>1, <1>3

-----------------------------------------------------------------------------
(* Frames. *)

\* What EncodePacket() makes of a packet whose wire format marshal() writes: one byte more than
\* that, none of them zero, the highest bit of none of the last three, and the delimiter.
Frame(p, t) ==
  /\ t = Stuffed(Wire(p)) /\ t \in Seq(Octet) /\ Zeroless(t)
  /\ Len(t) = Len(Wire(p)) + 1 /\ Len(t) >= 10 /\ Len(t) <= DATA_MAX + 12
  /\ \A k \in 1..Len(t) : k >= Len(t) - 2 => t[k] < 128
  /\ Stuffing(p) = [ok |-> TRUE, out |-> t]
  /\ EncodePacket(p) = t \o <<0>>

\* A valid packet has a frame like that: its wire format is shorter than a block of COBS.
LEMMA FrameFacts ==
  ASSUME NEW p, Valid(p),
         Marshalled(p) = [ok |-> Len(Wire(p)) <= Packet_size, bytes |-> Wire(p)]
  PROVE  \E t : Frame(p, t)
<1>1. PICK w \in Seq(Octet) : w = Wire(p)
  BY WireFacts
<1>2. PICK n \in Nat : n = Len(w)
  OBVIOUS
<1>3. n >= 9 /\ n <= DATA_MAX + 11 /\ n <= 128 /\ \A k \in 1..n : k >= n - 2 => w[k] < 128
  BY <1>1, <1>2, WireFacts
<1>4. PICK t : t = Stuffed(w)
  OBVIOUS
<1>5. t = StuffedFrom(w, FALSE)[1]
  BY <1>4 DEF Stuffed
<1>6. 1 \in 1..Len(w) + 1 /\ FALSE \in BOOLEAN /\ Len(w) <= 253
  BY <1>2, <1>3
<1>7. t \in Seq(Octet) /\ Zeroless(t)
  BY <1>5, <1>6, StuffedFacts
<1>8. /\ Len(t) = n + 1
      /\ \A k \in 1..Len(t) : t[k] <= Len(t) - k + 1 \/ (k > 1 /\ t[k] = w[k - 1])
  <2>1. /\ Len(t) = Len(w) + 2 - 1
        /\ \A k \in 1..Len(t) : t[k] <= Len(t) - k + 1 \/ (k > 1 /\ t[k] = w[1 + k - 2])
    BY <1>5, <1>6, StuffedShort
  <2>2. \A k \in Nat : 1 + k - 2 = k - 1
    OBVIOUS
  <2> QED
    BY <1>2, <2>1, <2>2
<1>9. ASSUME NEW k \in 1..n + 1, k >= n + 1 - 2 PROVE t[k] < 128
  <2>1. t[k] \in Octet
    BY <1>7, <1>8
  <2>2. t[k] \in Nat
    BY <2>1, ByteFacts
  <2>3. CASE t[k] <= n + 1 - k + 1
    BY <1>9, <2>2, <2>3
  <2>4. CASE k > 1 /\ t[k] = w[k - 1]
    <3>1. k - 1 \in 1..n /\ k - 1 >= n - 2
      BY <1>9, <2>4
    <3> QED
      BY <1>3, <2>4, <3>1
  <2> QED
    BY <1>8, <2>3, <2>4
<1>10. DATA_MAX \in Nat /\ Packet_size = DATA_MAX + 16
  BY DataMaxAssumption DEF Packet_size
<1>11. Stuffing(p) = [ok |-> TRUE, out |-> t]
  <2>1. Marshalled(p).bytes = w
    BY <1>1
  <2>2. Len(t) <= Packet_size + 1
    BY <1>3, <1>8, <1>10
  <2> QED
    BY <1>4, <2>1, <2>2 DEF Stuffing, cobs_encode
<1>12. EncodePacket(p) = t \o <<0>>
  BY <1>11 DEF EncodePacket
<1>13. Len(t) >= 10 /\ Len(t) <= DATA_MAX + 12
  BY <1>3, <1>8, <1>10
<1>14. \A k \in 1..Len(t) : k >= Len(t) - 2 => t[k] < 128
  BY <1>8, <1>9
<1>15. t = Stuffed(Wire(p)) /\ Len(t) = Len(Wire(p)) + 1
  BY <1>1, <1>2, <1>4, <1>8
<1>16. Frame(p, t)
  BY <1>7, <1>11, <1>12, <1>13, <1>14, <1>15, Zenon DEF Frame
<1> QED
  BY <1>16

\* The bytes of a frame, its delimiter behind them.
LEMMA EncodedFacts ==
  ASSUME NEW p, NEW t, Frame(p, t)
  PROVE  LET e == EncodePacket(p) IN
         /\ e \in Seq(Octet) /\ Len(e) = Len(t) + 1
         /\ \A k \in 1..Len(t) : e[k] = t[k]
         /\ e[Len(t) + 1] = 0
         /\ \A k \in 1..Len(e) : e[k] = 0 <=> k = Len(e)
<1>1. PICK e, zero : e = t \o zero /\ zero = <<0>>
  OBVIOUS
<1>2. zero \in Seq(Octet) /\ Len(zero) = 1 /\ zero[1] = 0
  BY <1>1, ByteFacts
<1>3. t \in Seq(Octet) /\ Zeroless(t) /\ EncodePacket(p) = e
  BY <1>1 DEF Frame
<1>4. /\ e \in Seq(Octet) /\ Len(e) = Len(t) + Len(zero)
      /\ \A k \in 1..Len(t) : e[k] = t[k]
      /\ \A k \in 1..Len(zero) : e[Len(t) + k] = zero[k]
  BY <1>1, <1>2, <1>3, ConcatFacts
<1>5. PICK n \in Nat : n = Len(t)
  BY <1>3
<1>6. Len(e) = n + 1 /\ e[n + 1] = 0
  BY <1>2, <1>4, <1>5
<1>7. ASSUME NEW k \in 1..n + 1 PROVE e[k] = 0 <=> k = n + 1
  <2>1. CASE k \in 1..n
    <3>1. e[k] = t[k] /\ t[k] # 0
      BY <1>3, <1>4, <1>5, <2>1 DEF Zeroless
    <3> QED
      BY <2>1, <3>1
  <2>2. CASE k = n + 1
    BY <1>6, <2>2
  <2> QED
    BY <2>1, <2>2
<1> QED
  BY <1>3, <1>4, <1>5, <1>6, <1>7

\* The packet of every state is one that marshal() writes.
LEMMA FrameOfPacket == IsPacket => Valid(packet) /\ \E t : Frame(packet, t)
<1> SUFFICES ASSUME IsPacket PROVE Valid(packet) /\ \E t : Frame(packet, t)
  OBVIOUS
<1>1. Valid(packet)
  BY DataAssumption DEF IsPacket, Packet, Valid
<1>2. packet \in SentPackets
  BY DEF IsPacket, SentPackets
<1>3. Marshalled(packet) = [ok |-> Len(Wire(packet)) <= Packet_size, bytes |-> Wire(packet)]
  BY <1>2, MarshalAssumption
<1> QED
  BY <1>1, <1>3, FrameFacts

\* For any data of up to DATA_MAX bytes: a zero is at the end of a frame and nowhere else.
THEOREM OneDelimiter == Spec => []DelimiterOnlyAtEnd
<1>1. IsPacket => DelimiterOnlyAtEnd
  <2> SUFFICES ASSUME IsPacket PROVE DelimiterOnlyAtEnd
    OBVIOUS
  <2>1. PICK t : Frame(packet, t)
    BY FrameOfPacket
  <2> QED
    BY <2>1, EncodedFacts DEF DelimiterOnlyAtEnd
<1> QED
  BY <1>1, PacketAlways, PTL

\* For any data of up to DATA_MAX bytes, and any DATA_MAX up to 117: the marshalled packet and
\* the frame fit the arrays they are written to.
THEOREM FramesFit == Spec => []FrameFits
<1>1. IsPacket => FrameFits
  <2> SUFFICES ASSUME IsPacket PROVE FrameFits
    OBVIOUS
  <2>1. PICK t : Frame(packet, t)
    BY FrameOfPacket
  <2>2. Valid(packet)
    BY FrameOfPacket
  <2>3. Marshalled(packet) = [ok |-> Len(Wire(packet)) <= Packet_size, bytes |-> Wire(packet)]
    BY MarshalAssumption DEF IsPacket, SentPackets
  <2>4. PICK n \in Nat : n = Len(Wire(packet)) /\ n <= DATA_MAX + 11
    BY <2>2, WireFacts
  <2>5. DATA_MAX \in Nat /\ Packet_size = DATA_MAX + 16
    BY DataMaxAssumption DEF Packet_size
  <2>6. Marshalled(packet).ok /\ Len(Marshalled(packet).bytes) <= Packet_size
    <3>1. n <= Packet_size
      BY <2>4, <2>5
    <3>2. Len(Wire(packet)) <= Packet_size
      BY <2>4, <3>1
    <3>3. PICK m : m = Marshalled(packet)
      OBVIOUS
    <3>4. m.ok = (Len(Wire(packet)) <= Packet_size) /\ m.bytes = Wire(packet)
      BY <2>3, <3>3
    <3> QED
      BY <3>2, <3>3, <3>4, Zenon
  <2>7. Stuffing(packet).ok
    BY <2>1 DEF Frame
  <2>8. Len(EncodePacket(packet)) = n + 2
    <3>1. Len(EncodePacket(packet)) = Len(t) + 1 /\ Len(t) = n + 1
      BY <2>1, <2>4, EncodedFacts DEF Frame
    <3> QED
      BY <3>1
  <2> QED
    BY <2>4, <2>5, <2>6, <2>7, <2>8 DEF FrameFits
<1> QED
  BY <1>1, PacketAlways, PTL

\* For any data, behind any number of bytes of 255 that Prefix has: COBS and COBS/R give it
\* back.
THEOREM StuffingLosesNothing == Spec => []StuffingRoundTrip
<1>1. IsPacket => StuffingRoundTrip
  <2> SUFFICES ASSUME IsPacket, NEW s \in Sources \ {<<>>} PROVE RoundTrips(s)
    BY DEF StuffingRoundTrip
  <2>1. packet.data \in Seq(Octet)
    BY FrameOfPacket DEF Valid
  <2>2. PICK n \in Prefix : s = [k \in 1..n |-> 255] \o packet.data
    BY DEF Sources
  <2>3. n \in Nat
    BY DataAssumption
  <2>4. [k \in 1..n |-> 255] \in Seq(Octet)
    BY <2>3, ByteFacts
  <2>5. s \in Seq(Octet)
    BY <2>1, <2>2, <2>4
  <2> QED
    BY <2>5, CobsRoundTrips
<1> QED
  BY <1>1, PacketAlways, PTL

\* Any byte more in decoded_data_array than the frame's packet has, and nothing else is read
\* there.
LEMMA DecodedFrame ==
  ASSUME NEW p, NEW t, Frame(p, t), Valid(p), Residue # {}, Residue \subseteq Octet,
         NEW decoded,
         \A residue \in Residue : Unmarshalled(Wire(p) \o << residue >>) = decoded
  PROVE  DecodeFrame(t) = {decoded}
<1>1. PICK w \in Seq(Octet) : w = Wire(p)
  BY WireFacts
<1>2. PICK n \in Nat : n = Len(w) /\ Len(t) = n + 1
  BY <1>1 DEF Frame
<1>3. t \in Seq(Octet) /\ t = StuffedFrom(w, FALSE)[1]
  BY <1>1 DEF Frame, Stuffed
<1>4. cobs_decode(Len(t), t) = [ok |-> TRUE, out |-> w]
  <2>1. FALSE \in BOOLEAN /\ Len(t) \in Nat /\ Len(w) <= Len(t)
    BY <1>2, <1>3
  <2>2. ReadAs(t, 1, w, FALSE)
    BY <1>3, <2>1, BackAlways
  <2> QED
    BY <1>3, <2>1, <2>2, DecodedFine
<1>5. DecodeFrame(t) = {Unmarshalled(w \o tail) : tail \in [1..1 -> Residue]}
  <2>1. Len(t) - Len(w) = 1
    BY <1>2
  <2>2. cobs_decode(Len(t), t).out = w
    BY <1>4
  <2> QED
    BY <2>1, <2>2, Zenon DEF DecodeFrame
<1>6. ASSUME NEW tail \in [1..1 -> Residue] PROVE Unmarshalled(w \o tail) = decoded
  <2>1. PICK residue \in Residue : residue = tail[1]
    OBVIOUS
  <2>2. tail = << residue >>
    BY <2>1
  <2> QED
    BY <1>1, <2>2
<1>7. \E tail : tail \in [1..1 -> Residue]
  <2>1. PICK residue : residue \in Residue
    OBVIOUS
  <2>2. [k \in 1..1 |-> residue] \in [1..1 -> Residue]
    BY <2>1
  <2> QED
    BY <2>2
<1> QED
  BY <1>5, <1>6, <1>7

\* For any data of up to DATA_MAX bytes, and whatever is in the byte that is not written: the
\* frame is decoded to the packet it was made of.
THEOREM FramesRoundTrip == Spec => []RoundTrip
<1>1. IsPacket => RoundTrip
  <2> SUFFICES ASSUME IsPacket PROVE RoundTrip
    OBVIOUS
  <2>1. PICK t : Frame(packet, t)
    BY FrameOfPacket
  <2>2. Valid(packet)
    BY FrameOfPacket
  <2>3. PICK e : e = EncodePacket(packet)
    OBVIOUS
  <2>4. e \in Seq(Octet) /\ Len(e) = Len(t) + 1 /\ \A k \in 1..Len(t) : e[k] = t[k]
    BY <2>1, <2>3, EncodedFacts
  <2>5. SubSeq(e, 1, Len(e) - 1) = t
    <3>1. t \in Seq(Octet)
      BY <2>1 DEF Frame
    <3>2. PICK n \in Nat : n = Len(t) /\ Len(e) - 1 = n
      BY <2>4, <3>1
    <3>3. PICK front : front = SubSeq(e, 1, n)
      OBVIOUS
    <3>4. front \in Seq(Octet) /\ Len(front) = n /\ \A k \in 1..n : front[k] = e[k]
      BY <2>4, <3>2, <3>3
    <3>5. \A k \in 1..n : front[k] = t[k]
      BY <2>4, <3>2, <3>4
    <3>6. front = t
      BY <3>1, <3>2, <3>4, <3>5, SeqEqual
    <3> QED
      BY <3>2, <3>3, <3>6
  <2>6. \A residue \in Residue : Unmarshalled(Wire(packet) \o << residue >>)
                                   = [data |-> packet.data, flag |-> packet.flag]
    BY UnmarshalAssumption DEF IsPacket
  <2>7. DecodeFrame(t) = {[data |-> packet.data, flag |-> packet.flag]}
    BY <2>1, <2>2, <2>6, DataAssumption, DecodedFrame
  <2> QED
    BY <2>3, <2>5, <2>7, Zenon DEF RoundTrip
<1> QED
  BY <1>1, PacketAlways, PTL

\* What PacketLink and LossyLink assume of a codec (Survives) holds of every packet that send()
\* builds, if marshal() writes the wire format and a Packet is found again in it: the frame has
\* no zero, room in an rx_buffer of the size it has, and one way to be read, as its packet.
THEOREM PacketSurvives ==
  ASSUME NEW p, Valid(p), Residue # {}, Residue \subseteq Octet,
         Marshalled(p) = [ok |-> Len(Wire(p)) <= Packet_size, bytes |-> Wire(p)],
         \A residue \in Residue :
           Unmarshalled(Wire(p) \o << residue >>) = [data |-> p.data, flag |-> p.flag]
  PROVE  LET frame == Stuffing(p).out IN
         /\ frame \in Seq(Octet \ {0})
         /\ Len(frame) < Packet_size + 1
         /\ DecodeFrame(frame) = {[data |-> p.data, flag |-> p.flag]}
<1>1. PICK t : Frame(p, t)
  BY FrameFacts
<1>2. Stuffing(p).out = t
  BY <1>1 DEF Frame
<1>3. t \in Seq(Octet \ {0})
  <2>1. t \in Seq(Octet) /\ \A k \in 1..Len(t) : t[k] # 0
    BY <1>1 DEF Frame, Zeroless
  <2>2. ASSUME NEW k \in 1..Len(t) PROVE t[k] \in Octet \ {0}
    BY <2>1
  <2> QED
    BY <2>1, <2>2
<1>4. Len(t) < Packet_size + 1
  <2>1. t \in Seq(Octet) /\ Len(t) <= DATA_MAX + 12
    BY <1>1 DEF Frame
  <2> QED
    BY <2>1, DataMaxAssumption DEF Packet_size
<1>5. DecodeFrame(t) = {[data |-> p.data, flag |-> p.flag]}
  <2>1. PICK decoded : decoded = [data |-> p.data, flag |-> p.flag]
    OBVIOUS
  <2> QED
    BY <1>1, <2>1, DecodedFrame
<1> QED
  BY <1>2, <1>3, <1>4, <1>5

-----------------------------------------------------------------------------
(* The texts of the log. *)

\* A byte is written as two digits and a NUL, from 128 on behind six more digits.
LEMMA DigitsFacts ==
  ASSUME NEW b \in Octet
  PROVE  Digits(b) \in Seq(Nat) /\ Len(Digits(b)) = IF b < 128 THEN 3 ELSE 9
<1>1. b \in Nat
  BY ByteFacts
<1>2. PICK high, low \in Nat : high = b \div 16 /\ low = b % 16
  BY <1>1
<1>3. PICK two : two = <<high, low, NUL>>
  OBVIOUS
<1>4. two \in Seq(Nat) /\ Len(two) = 3
  BY <1>2, <1>3 DEF NUL
<1>5. PICK six : six = [k \in 1..6 |-> 15]
  OBVIOUS
<1>6. six \in Seq(Nat) /\ Len(six) = 6
  BY <1>5
<1>7. Digits(b) = (IF b < 128 THEN <<>> ELSE six) \o two
  BY <1>2, <1>3, <1>5 DEF Digits
<1>8. CASE b < 128
  BY <1>4, <1>7, <1>8
<1>9. CASE ~(b < 128)
  <2>1. PICK d : d = six \o two
    OBVIOUS
  <2>2. d \in Seq(Nat) /\ Len(d) = 9
    <3>1. six \in Seq(Nat) /\ two \in Seq(Nat)
      BY <1>4, <1>6
    <3>2. d \in Seq(Nat) /\ Len(d) = Len(six) + Len(two)
      BY <2>1, <3>1
    <3> QED
      BY <1>4, <1>6, <3>2
  <2>3. Digits(b) = d
    BY <1>7, <1>9, <2>1
  <2> QED
    BY <1>9, <2>2, <2>3
<1> QED
  BY <1>8, <1>9

\* What is written within bounds over what is within them is within them, and nothing of
\* either is cut off.
LEMMA WriteFits ==
  ASSUME NEW output \in Seq(Nat), NEW at \in Nat, NEW digits \in Seq(Nat), NEW bound \in Nat,
         Len(output) <= bound, at + Len(digits) <= bound
  PROVE  /\ Write(output, at, digits) \in Seq(Nat)
         /\ Len(Write(output, at, digits)) <= bound
         /\ Len(Write(output, at, digits)) >= at + Len(digits)
         /\ Len(Write(output, at, digits)) >= Len(output)
<1>1. PICK before : before = [k \in 1..at |-> IF k \in DOMAIN output THEN output[k] ELSE NUL]
  OBVIOUS
<1>2. \A k \in 1..at : (IF k \in DOMAIN output THEN output[k] ELSE NUL) \in Nat
  BY DEF NUL
<1>3. before \in Seq(Nat) /\ Len(before) = at
  BY <1>1, <1>2
<1>4. PICK m \in Nat, n \in Nat : m = Len(output) /\ n = Len(digits)
  OBVIOUS
<1>5. PICK behind : behind = SubSeq(output, at + n + 1, m)
  OBVIOUS
<1>6. /\ behind \in Seq(Nat)
      /\ Len(behind) = IF at + n + 1 <= m THEN m - (at + n) ELSE 0
  <2>1. \A k \in at + n + 1..m : output[k] \in Nat
    BY <1>4
  <2>2. /\ behind \in Seq(Nat)
        /\ Len(behind) = IF at + n + 1 <= m THEN m - (at + n + 1) + 1 ELSE 0
    BY <1>4, <1>5, <2>1, SubSeqProperties
  <2>3. m - (at + n + 1) + 1 = m - (at + n)
    BY <1>4
  <2> QED
    BY <2>2, <2>3
<1>7. PICK start : start = before \o digits
  OBVIOUS
<1>8. start \in Seq(Nat) /\ Len(start) = at + n
  BY <1>3, <1>4, <1>7
<1>9. Write(output, at, digits) = start \o behind
  BY <1>1, <1>4, <1>5, <1>7 DEF Write
<1>10. PICK all : all = start \o behind
  OBVIOUS
<1>11. all \in Seq(Nat) /\ Len(all) = Len(start) + Len(behind)
  <2>1. start \in Seq(Nat) /\ behind \in Seq(Nat)
    BY <1>6, <1>8
  <2> QED
    BY <1>10, <2>1
<1>12. at + n + 1 <= m => at + n + (m - (at + n)) = m
  BY <1>4
<1>13. Len(all) <= bound /\ Len(all) >= at + n /\ Len(all) >= m
  <2>1. CASE at + n + 1 <= m
    <3>1. Len(all) = m
      BY <1>6, <1>8, <1>11, <1>12, <2>1
    <3> QED
      BY <1>4, <2>1, <3>1
  <2>2. CASE ~(at + n + 1 <= m)
    <3>1. Len(all) = at + n
      BY <1>6, <1>8, <1>11, <2>2
    <3> QED
      BY <1>4, <2>2, <3>1
  <2> QED
    BY <2>1, <2>2
<1> QED
  BY <1>4, <1>9, <1>10, <1>11, <1>13

\* Both functions, with the characters from one byte to the next, and the bytes that are
\* written.
Text(input, length, step) ==
  LET after[k \in 0..length] ==
        IF k = 0 THEN <<>> ELSE Write(after[k - 1], step * (k - 1), Digits(input[k]))
  IN  Write(after[length], step * length, <<NUL>>)

\* The text is within bounds if every byte's digits and the NUL at the end are; it is not
\* shorter than this NUL and the last byte's digits make it.
LEMMA TextFits ==
  ASSUME NEW input \in Seq(Octet), NEW length \in 0..Len(input), NEW step \in {2, 3},
         NEW bound \in Nat, step * length + 1 <= bound,
         \A k \in 1..length : step * (k - 1) + Len(Digits(input[k])) <= bound
  PROVE  /\ Len(Text(input, length, step)) <= bound
         /\ Len(Text(input, length, step)) >= step * length + 1
         /\ length >= 1 => Len(Text(input, length, step))
                             >= step * (length - 1) + Len(Digits(input[length]))
<1> DEFINE Step(f) == [k \in 0..length |-> IF k = 0 THEN <<>>
                         ELSE Write(f[k - 1], step * (k - 1), Digits(input[k]))]
           S == {text \in Seq(Nat) : Len(text) <= bound}
           write == [k \in 1..length |->
                       [text \in S |-> Write(text, step * (k - 1), Digits(input[k]))]]
<1>1. length \in Nat /\ <<>> \in S
  OBVIOUS
<1>2. \A k \in 1..length, text \in S : Write(text, step * (k - 1), Digits(input[k])) \in S
  <2> TAKE k \in 1..length, text \in S
  <2>1. PICK at : at = step * (k - 1)
    OBVIOUS
  <2>2. at \in Nat
    <3>1. k - 1 \in Nat
      OBVIOUS
    <3> QED
      BY <2>1, <3>1
  <2>3. PICK digits : digits = Digits(input[k])
    OBVIOUS
  <2>4. digits \in Seq(Nat)
    <3>1. input[k] \in Octet
      OBVIOUS
    <3> QED
      BY <2>3, <3>1, DigitsFacts
  <2>5. at + Len(digits) <= bound
    BY <2>1, <2>3
  <2>6. Write(text, at, digits) \in Seq(Nat) /\ Len(Write(text, at, digits)) <= bound
    BY <2>2, <2>4, <2>5, WriteFits
  <2> QED
    BY <2>1, <2>3, <2>6
<1>3. write \in [1..length -> [S -> S]]
  <2> HIDE DEF S
  <2> QED
    BY <1>2
<1>4. PICK f \in [0..length -> S] : Runs(f, length, <<>>, write)
  <2> HIDE DEF write, S
  <2> QED
    BY <1>1, <1>3, RecursionExists, Zenon
<1>5. f = Step(f)
  <2>1. f = [k \in 0..length |-> IF k = 0 THEN <<>> ELSE write[k][f[k-1]]]
    BY <1>4 DEF Runs
  <2>2. ASSUME NEW k \in 1..length
        PROVE  write[k][f[k-1]] = Write(f[k - 1], step * (k - 1), Digits(input[k]))
    <3>1. f[k-1] \in S
      <4> HIDE DEF S
      <4> QED
        BY <1>1
    <3> HIDE DEF S
    <3> QED
      BY <3>1
  <2> HIDE DEF write, S
  <2>3. \A k \in 0..length :
          (IF k = 0 THEN <<>> ELSE write[k][f[k-1]])
            = (IF k = 0 THEN <<>> ELSE Write(f[k - 1], step * (k - 1), Digits(input[k])))
    BY <1>1, <2>2
  <2> QED
    BY <2>1, <2>3
<1>6. PICK a : a = CHOOSE g : g = Step(g)
  OBVIOUS
<1>7. a = Step(a)
  <2> HIDE DEF Step
  <2> QED
    BY <1>5, <1>6
<1>8. \A k \in 0..length :
        a[k] = IF k = 0 THEN <<>> ELSE Write(a[k - 1], step * (k - 1), Digits(input[k]))
  BY <1>7
<1>9. a[0] \in S
  <2> HIDE DEF S
  <2> QED
    BY <1>1, <1>8
<1>10. ASSUME NEW k \in 1..length, a[k-1] \in S PROVE a[k] \in S
  <2> HIDE DEF S
  <2>1. k \in 0..length /\ k # 0
    BY <1>1
  <2>2. a[k] = Write(a[k - 1], step * (k - 1), Digits(input[k]))
    BY <1>8, <2>1
  <2> QED
    BY <1>2, <1>10, <2>2
<1>11. a[length] \in S
  <2> HIDE DEF S
  <2>1. \A k \in 0..length : a[k] \in S
    BY <1>1, <1>9, <1>10, RecursionStays
  <2> QED
    BY <1>1, <2>1
<1>12. Text(input, length, step) = Write(a[length], step * length, <<NUL>>)
  BY <1>6 DEF Text
<1>13. PICK end : end = <<NUL>>
  OBVIOUS
<1>14. end \in Seq(Nat) /\ Len(end) = 1
  BY <1>13 DEF NUL
<1>15. PICK at : at = step * length
  OBVIOUS
<1>16. at \in Nat /\ at + Len(end) <= bound
  BY <1>1, <1>14, <1>15
<1>17. /\ Len(Write(a[length], at, end)) <= bound
       /\ Len(Write(a[length], at, end)) >= at + 1
       /\ Len(Write(a[length], at, end)) >= Len(a[length])
       /\ Write(a[length], at, end) \in Seq(Nat)
  BY <1>11, <1>14, <1>16, WriteFits
<1>18. ASSUME length >= 1
       PROVE  Len(a[length]) >= step * (length - 1) + Len(Digits(input[length]))
  <2>1. PICK l : l = length - 1
    OBVIOUS
  <2>2. l \in 0..length /\ length \in 1..length /\ length \in 0..length /\ length # 0
    BY <1>1, <1>18, <2>1
  <2>3. a[l] \in Seq(Nat) /\ Len(a[l]) <= bound
    <3> HIDE DEF S
    <3>1. \A k \in 0..length : a[k] \in S
      BY <1>1, <1>9, <1>10, RecursionStays
    <3>2. a[l] \in S
      BY <2>2, <3>1
    <3> USE DEF S
    <3> QED
      BY <3>2
  <2>4. PICK from : from = step * l
    OBVIOUS
  <2>5. from \in Nat
    BY <2>2, <2>4
  <2>6. PICK digits : digits = Digits(input[length])
    OBVIOUS
  <2>7. digits \in Seq(Nat)
    <3>1. input[length] \in Octet
      BY <2>2
    <3> QED
      BY <2>6, <3>1, DigitsFacts
  <2>8. from + Len(digits) <= bound
    BY <2>1, <2>2, <2>4, <2>6
  <2>9. Len(Write(a[l], from, digits)) >= from + Len(digits)
    BY <2>3, <2>5, <2>7, <2>8, WriteFits
  <2>10. a[length] = Write(a[l], from, digits)
    BY <1>8, <2>1, <2>2, <2>4, <2>6
  <2> QED
    BY <2>1, <2>4, <2>6, <2>9, <2>10
<1>19. PICK all : all = Write(a[length], at, end)
  OBVIOUS
<1>20. /\ Len(all) <= bound /\ Len(all) >= step * length + 1
       /\ length >= 1 => Len(all) >= step * (length - 1) + Len(Digits(input[length]))
  <2>1. Len(all) <= bound /\ Len(all) >= step * length + 1 /\ Len(all) >= Len(a[length])
    BY <1>15, <1>17, <1>19
  <2>2. ASSUME length >= 1
        PROVE  Len(all) >= step * (length - 1) + Len(Digits(input[length]))
    <3>1. PICK reach : reach = step * (length - 1) + Len(Digits(input[length]))
      OBVIOUS
    <3>2. length \in 1..length /\ input[length] \in Octet
      BY <1>1, <2>2
    <3>3. reach \in Nat
      <4>1. Digits(input[length]) \in Seq(Nat)
        BY <3>2, DigitsFacts
      <4>2. PICK d \in Nat : d = Len(Digits(input[length]))
        BY <4>1
      <4>3. length - 1 \in Nat
        BY <1>1, <2>2
      <4> QED
        BY <3>1, <4>2, <4>3
    <3>4. Len(a[length]) >= reach /\ Len(a[length]) \in Nat /\ Len(all) \in Nat
      <4>1. Len(a[length]) \in Nat
        BY <1>11
      <4> QED
        BY <1>17, <1>18, <1>19, <2>2, <3>1, <4>1
    <3> QED
      BY <2>1, <3>1, <3>3, <3>4
  <2> QED
    BY <2>1, <2>2
<1> QED
  BY <1>12, <1>13, <1>15, <1>19, <1>20

\* string2hexstring() writes the bytes in front of the first zero, or all.
LEMMA StringText ==
  ASSUME NEW input \in Seq(Octet)
  PROVE  \E length \in 0..Len(input) :
           /\ string2hexstring(input) = Text(input, length, 2)
           /\ \A k \in 1..length : input[k] # 0
<1>1. PICK nuls : nuls = {k \in DOMAIN input : input[k] = 0}
  OBVIOUS
<1>2. PICK length : length = IF nuls = {} THEN Len(input) ELSE Min(nuls) - 1
  OBVIOUS
<1>3. string2hexstring(input) = Text(input, length, 2)
  BY <1>1, <1>2, Zenon DEF string2hexstring, Text
<1>4. CASE nuls = {}
  <2>1. length = Len(input) /\ length \in 0..Len(input)
    BY <1>2, <1>4
  <2>2. \A k \in 1..length : input[k] # 0
    BY <1>1, <1>4, <2>1
  <2> QED
    BY <1>3, <2>1, <2>2
<1>5. CASE nuls # {}
  <2>1. nuls \subseteq Nat
    BY <1>1
  <2>2. Min(nuls) \in nuls /\ \A k \in nuls : Min(nuls) <= k
    BY <1>5, <2>1, MinFacts
  <2>3. PICK m : m = Min(nuls)
    OBVIOUS
  <2>4. m \in 1..Len(input) /\ \A k \in nuls : m <= k
    BY <1>1, <2>2, <2>3
  <2>5. length = m - 1
    BY <1>2, <1>5, <2>3
  <2>6. length \in 0..Len(input)
    BY <2>4, <2>5
  <2>7. ASSUME NEW k \in 1..length, input[k] = 0 PROVE FALSE
    <3>1. k \in nuls
      BY <1>1, <2>4, <2>5, <2>7
    <3> QED
      BY <2>4, <2>5, <3>1
  <2> QED
    BY <1>3, <2>6, <2>7
<1> QED
  BY <1>4, <1>5

\* stringn2hexstring() writes a third of the bytes.
LEMMA StringNText ==
  \A input, length : stringn2hexstring(input, length) = Text(input, Printed(length), 3)
BY Zenon DEF stringn2hexstring, Text

\* The three texts, of the bytes of any sequence that ends as a frame does.
LEMMA WireTextFits ==
  ASSUME NEW w \in Seq(Octet), NEW n \in Nat, n = Len(w), w[n] < 128, n >= 1
  PROVE  Len(string2hexstring(w)) <= 2 * n + 5
<1>1. PICK length \in 0..n : string2hexstring(w) = Text(w, length, 2)
  BY StringText
<1>2. ASSUME NEW k \in 1..length PROVE 2 * (k - 1) + Len(Digits(w[k])) <= 2 * n + 5
  <2>1. w[k] \in Octet
    BY <1>1
  <2>2. Len(Digits(w[k])) = IF w[k] < 128 THEN 3 ELSE 9
    BY <2>1, DigitsFacts
  <2>3. CASE k = n
    <3>1. Len(Digits(w[k])) = 3
      BY <2>2, <2>3
    <3> QED
      BY <2>3, <3>1
  <2>4. CASE k <= n - 1
    <3>1. Len(Digits(w[k])) = 3 \/ Len(Digits(w[k])) = 9
      BY <2>2
    <3>2. 2 * (k - 1) + 9 <= 2 * n + 5 /\ 2 * (k - 1) + 3 <= 2 * n + 5
      BY <2>4
    <3> QED
      BY <3>1, <3>2
  <2> QED
    BY <1>1, <2>3, <2>4
<1>3. 2 * n + 5 \in Nat /\ 2 * length + 1 <= 2 * n + 5
  BY <1>1
<1>4. PICK bound : bound = 2 * n + 5
  OBVIOUS
<1>5. Len(Text(w, length, 2)) <= bound
  BY <1>2, <1>3, <1>4, TextFits
<1> QED
  BY <1>1, <1>4, <1>5

\* The text of a frame with its delimiter, which the loop stops at, fits in two characters for
\* each other byte and a NUL: none of the last three bytes is from 128 on.
LEMMA FrameTextFits ==
  ASSUME NEW e \in Seq(Octet), NEW n \in Nat, n + 1 = Len(e), e[n + 1] = 0, n >= 3,
         \A k \in 1..n : k >= n - 2 => e[k] < 128
  PROVE  Len(string2hexstring(e)) <= 2 * n + 1
<1>1. PICK length \in 0..n + 1 : /\ string2hexstring(e) = Text(e, length, 2)
                                 /\ \A k \in 1..length : e[k] # 0
  BY StringText
<1>2. length <= n
  <2> SUFFICES ASSUME length = n + 1 PROVE FALSE
    BY <1>1
  <2> QED
    BY <1>1
<1>3. ASSUME NEW k \in 1..length PROVE 2 * (k - 1) + Len(Digits(e[k])) <= 2 * n + 1
  <2>1. e[k] \in Octet
    BY <1>2
  <2>2. Len(Digits(e[k])) = IF e[k] < 128 THEN 3 ELSE 9
    BY <2>1, DigitsFacts
  <2>3. CASE k >= n - 2
    <3>1. Len(Digits(e[k])) = 3
      BY <1>2, <2>2, <2>3
    <3> QED
      BY <1>2, <3>1
  <2>4. CASE ~(k >= n - 2)
    <3>1. Len(Digits(e[k])) = 3 \/ Len(Digits(e[k])) = 9
      BY <2>2
    <3>2. 2 * (k - 1) + 9 <= 2 * n + 1 /\ 2 * (k - 1) + 3 <= 2 * n + 1
      BY <2>4
    <3> QED
      BY <3>1, <3>2
  <2> QED
    BY <2>3, <2>4
<1>4. 2 * n + 1 \in Nat /\ 2 * length + 1 <= 2 * n + 1
  BY <1>2
<1>5. PICK bound : bound = 2 * n + 1
  OBVIOUS
<1>6. Len(Text(e, length, 2)) <= bound
  BY <1>3, <1>4, <1>5, TextFits
<1> QED
  BY <1>1, <1>5, <1>6

\* stringn2hexstring() writes a text for a third of the bytes only: it fits for six or more,
\* whatever they are, and for fewer unless the last one printed is from 128 on.
LEMMA ChunkTextFits ==
  ASSUME NEW e \in Seq(Octet), e # <<>>
  PROVE  LogFits(e) <=> LogHasRoom(e)
<1>1. PICK n \in Nat : n = Len(e) /\ n >= 1
  OBVIOUS
<1>2. PICK m : m = (n + 2) \div 3
  OBVIOUS
<1>3. m \in Nat /\ 3 * m <= n + 2 /\ 3 * m >= n /\ m <= n /\ m \in 0..n /\ m >= 1
  BY <1>1, <1>2
<1>4. \A k \in 1..n : Len(Digits(e[k])) = IF e[k] < 128 THEN 3 ELSE 9
  <2> TAKE k \in 1..n
  <2>1. e[k] \in Octet
    BY <1>1
  <2> QED
    BY <2>1, DigitsFacts
<1>5. stringn2hexstring(e, n) = Text(e, m, 3)
  BY <1>2, StringNText DEF Printed
<1>6. PICK all : all = Text(e, m, 3)
  OBVIOUS
<1>7. LogFits(e) <=> Len(all) <= 2 * n + 1
  BY <1>1, <1>5, <1>6 DEF LogFits
<1>8. /\ Len(all) <= 3 * n + 9 /\ Len(all) >= 3 * m + 1
      /\ Len(all) >= 3 * (m - 1) + Len(Digits(e[m]))
  <2>1. PICK bound : bound = 3 * n + 9
    OBVIOUS
  <2>2. bound \in Nat /\ 3 * m + 1 <= bound
    BY <1>1, <1>3, <2>1
  <2>3. ASSUME NEW k \in 1..m PROVE 3 * (k - 1) + Len(Digits(e[k])) <= bound
    <3>1. k \in 1..n
      BY <1>3
    <3>2. Len(Digits(e[k])) = IF e[k] < 128 THEN 3 ELSE 9
      BY <1>4, <3>1
    <3>3. Len(Digits(e[k])) = 3 \/ Len(Digits(e[k])) = 9
      BY <3>2
    <3>4. 3 * (k - 1) + 9 <= bound /\ 3 * (k - 1) + 3 <= bound
      BY <2>1, <3>1
    <3> QED
      BY <3>3, <3>4
  <2>4. /\ Len(Text(e, m, 3)) <= bound /\ Len(Text(e, m, 3)) >= 3 * m + 1
        /\ m >= 1 => Len(Text(e, m, 3)) >= 3 * (m - 1) + Len(Digits(e[m]))
    BY <1>1, <1>3, <2>2, <2>3, TextFits
  <2> QED
    BY Zenon, <1>3, <1>6, <2>1, <2>4
<1>9. ASSUME LogHasRoom(e) PROVE Len(all) <= 2 * n + 1
  <2>1. PICK bound : bound = 2 * n + 1
    OBVIOUS
  <2>2. n >= 2 /\ (n >= 6 \/ e[m] < 128)
    BY <1>1, <1>2, <1>9 DEF LogHasRoom
  <2>3. bound \in Nat /\ 3 * m + 1 <= bound
    BY <1>1, <1>3, <2>1, <2>2
  <2>4. ASSUME NEW k \in 1..m PROVE 3 * (k - 1) + Len(Digits(e[k])) <= bound
    <3>1. k \in 1..n
      BY <1>3
    <3>2. Len(Digits(e[k])) = IF e[k] < 128 THEN 3 ELSE 9
      BY <1>4, <3>1
    <3>3. Len(Digits(e[k])) = 3 \/ Len(Digits(e[k])) = 9
      BY <3>2
    <3>4. CASE n >= 6
      <4>1. 3 * (k - 1) + 9 <= bound /\ 3 * (k - 1) + 3 <= bound
        BY <1>3, <2>1, <3>4
      <4> QED
        BY <3>3, <4>1
    <3>5. CASE k = m /\ e[m] < 128
      <4>1. Len(Digits(e[k])) = 3
        BY <3>2, <3>5
      <4>2. 3 * (k - 1) + 3 <= bound
        BY <1>3, <2>3, <3>5
      <4> QED
        BY <4>1, <4>2
    <3>6. CASE k < m /\ n < 6
      <4>1. 3 * (k - 1) + 9 <= bound /\ 3 * (k - 1) + 3 <= bound
        BY <1>3, <2>1, <3>6
      <4> QED
        BY <3>3, <4>1
    <3> QED
      BY <1>1, <1>3, <2>2, <3>4, <3>5, <3>6
  <2>5. Len(Text(e, m, 3)) <= bound
    BY <1>1, <1>3, <2>3, <2>4, TextFits
  <2> QED
    BY Zenon, <1>6, <2>1, <2>5
<1>10. ASSUME ~LogHasRoom(e), Len(all) <= 2 * n + 1 PROVE FALSE
  <2>1. n = 1 \/ (n < 6 /\ ~(e[m] < 128))
    BY <1>1, <1>2, <1>10 DEF LogHasRoom
  <2>2. PICK l \in Nat : l = Len(all)
    <3>1. Len(all) \in Int
      BY <1>8, <1>10
    <3> QED
      BY <1>3, <1>8, <3>1
  <2>3. CASE n = 1
    BY <1>3, <1>8, <1>10, <2>2, <2>3
  <2>4. CASE n < 6 /\ ~(e[m] < 128)
    <3>1. m \in 1..n
      BY <1>3
    <3>2. Len(Digits(e[m])) = IF e[m] < 128 THEN 3 ELSE 9
      BY <1>4, <3>1
    <3>3. Len(Digits(e[m])) = 9
      BY <2>4, <3>2
    <3>4. l >= 3 * (m - 1) + 9
      BY <1>8, <2>2, <3>3
    <3> QED
      BY <1>1, <1>3, <1>10, <2>2, <2>4, <3>4
  <2> QED
    BY <2>1, <2>3, <2>4
<1> QED
  BY <1>7, <1>9, <1>10

\* For any data of up to DATA_MAX bytes: the texts of the packet and of its whole frame fit the
\* arrays that are declared for them; that of a chunk of the frame does if the chunk has six
\* bytes or more, or two or more and the last one printed is below 128, and not otherwise.
THEOREM TextsFit == Spec => []HexTextFits
<1>1. IsPacket => HexTextFits
  <2> SUFFICES ASSUME IsPacket PROVE HexTextFits
    OBVIOUS
  <2>1. PICK t : Frame(packet, t)
    BY FrameOfPacket
  <2>2. PICK e : e = EncodePacket(packet)
    OBVIOUS
  <2>3. PICK w \in Seq(Octet) : w = Wire(packet)
    BY FrameOfPacket, WireFacts
  <2>4. PICK n \in Nat : n = Len(w)
    OBVIOUS
  <2>5. n >= 9 /\ w[n] < 128
    <3>1. /\ Len(w) >= 9
          /\ \A k \in 1..Len(w) : k >= Len(w) - 2 => w[k] < 128
      BY <2>3, FrameOfPacket, WireFacts
    <3>2. n \in 1..n /\ n >= n - 2
      BY <2>4, <3>1
    <3> QED
      BY <2>4, <3>1, <3>2
  <2>6. t \in Seq(Octet) /\ Len(t) = n + 1 /\ \A k \in 1..n + 1 : k >= n + 1 - 2 => t[k] < 128
    BY <2>1, <2>3, <2>4 DEF Frame
  <2>7. /\ e \in Seq(Octet) /\ Len(e) = n + 2 /\ e[n + 2] = 0
        /\ \A k \in 1..n + 1 : e[k] = t[k]
    <3>1. /\ e \in Seq(Octet) /\ Len(e) = Len(t) + 1 /\ e[Len(t) + 1] = 0
          /\ \A k \in 1..Len(t) : e[k] = t[k]
      BY <2>1, <2>2, EncodedFacts
    <3>2. Len(t) + 1 = n + 2
      BY <2>6
    <3> QED
      BY <2>6, <3>1, <3>2
  <2>8. Len(string2hexstring(w)) <= 2 * (n + 2) + 1
    <3>1. Len(string2hexstring(w)) <= 2 * n + 5
      BY <2>4, <2>5, WireTextFits
    <3>2. 2 * n + 5 = 2 * (n + 2) + 1
      OBVIOUS
    <3> QED
      BY <3>1, <3>2
  <2>9. Len(string2hexstring(e)) <= 2 * (n + 2 - 1) + 1
    <3>1. PICK m \in Nat : m = n + 1
      OBVIOUS
    <3>2. m + 1 = Len(e) /\ e[m + 1] = 0 /\ m >= 3 /\ \A k \in 1..m : k >= m - 2 => e[k] < 128
      BY <2>5, <2>6, <2>7, <3>1
    <3>3. Len(string2hexstring(e)) <= 2 * m + 1
      BY <2>7, <3>2, FrameTextFits
    <3> QED
      BY <3>1, <3>3
  <2>10. ASSUME NEW chunk \in ChunksOf(e) PROVE LogFits(chunk) <=> LogHasRoom(chunk)
    <3>1. PICK a \in 1..Len(e), b \in 1..Len(e) : chunk = SubSeq(e, a, b)
      BY DEF ChunksOf
    <3>2. chunk \in Seq(Octet)
      BY <2>7, <3>1
    <3>3. chunk # <<>>
      BY DEF ChunksOf
    <3> QED
      BY <3>2, <3>3, ChunkTextFits
  <2>11. Marshalled(packet).bytes = w
    <3>1. Marshalled(packet) = [ok |-> Len(Wire(packet)) <= Packet_size, bytes |-> Wire(packet)]
      BY MarshalAssumption DEF IsPacket, SentPackets
    <3> QED
      BY <2>3, <3>1
  <2>12. Len(e) = n + 2
    BY <2>7
  <2>13. PICK l : l = Len(e)
    OBVIOUS
  <2>14. /\ Len(string2hexstring(w)) <= 2 * l + 1
         /\ Len(string2hexstring(e)) <= 2 * (l - 1) + 1
    <3>1. l = n + 2
      BY <2>12, <2>13
    <3> QED
      BY <2>8, <2>9, <3>1
  <2> QED
    BY <2>2, <2>10, <2>11, <2>13, <2>14, Zenon DEF HexTextFits
<1> QED
  BY <1>1, PacketAlways, PTL

-----------------------------------------------------------------------------
(* The rows of PacketDAO. *)

\* Rows as they may be: the last byte of the first one is a zero.
Rows ==
  {rows \in [0..ROWS - 1 -> Seq(Octet)] : Len(rows[0]) = ROW_SIZE /\ rows[0][ROW_SIZE] = 0}

\* Frames as they may be.
Proper(frame) ==
  /\ frame \in Seq(Octet) /\ Len(frame) >= 1 /\ Len(frame) < ROW_SIZE
  /\ \A k \in 1..Len(frame) : frame[k] = 0 <=> k = Len(frame)

\* They are so at first, and a frame leaves them so and is all that is found in the first.
LEMMA RowFacts ==
  /\ clean_buffer \in Rows
  /\ \A rows \in Rows : \A frame : Proper(frame) =>
       tx_handler(rows, frame) \in Rows /\ Holds(tx_handler(rows, frame), frame)
<1>1. clean_buffer \in Rows
  <2>1. PICK row : row = [k \in 1..32 |-> 0]
    OBVIOUS
  <2>2. row \in Seq(Octet) /\ Len(row) = 32 /\ row[32] = 0
    <3>1. 0 \in Octet
      BY ByteFacts
    <3> QED
      BY <2>1, <3>1
  <2>3. clean_buffer = [index \in 0..9 |-> row]
    BY <2>1, 10 - 1 = 9, Zenon DEF clean_buffer, ROWS, ROW_SIZE
  <2> QED
    BY <2>2, <2>3 DEF Rows, ROWS, ROW_SIZE
<1>2. ASSUME NEW rows \in Rows, NEW frame, Proper(frame)
      PROVE  tx_handler(rows, frame) \in Rows /\ Holds(tx_handler(rows, frame), frame)
  <2>1. PICK row : row = rows[0]
    OBVIOUS
  <2>2. rows \in [0..9 -> Seq(Octet)] /\ row \in Seq(Octet) /\ Len(row) = 32 /\ row[32] = 0
    BY <2>1 DEF Rows, ROWS, ROW_SIZE
  <2>3. PICK n \in Nat : n = Len(frame)
    BY <1>2 DEF Proper
  <2>4. /\ frame \in Seq(Octet) /\ n >= 1 /\ n < 32
        /\ \A k \in 1..n : frame[k] = 0 <=> k = n
    BY <1>2, <2>3 DEF Proper, ROW_SIZE
  <2>5. PICK behind : behind = SubSeq(row, n + 1, 32)
    OBVIOUS
  <2>6. behind \in Seq(Octet) /\ Len(behind) = 32 - n /\ behind[32 - n] = 0
    <3>1. ASSUME NEW k \in n + 1..32 PROVE row[k] \in Octet
      <4>1. k \in 1..Len(row) /\ row \in Seq(Octet)
        BY <2>2, <2>4
      <4> QED
        BY <4>1
    <3>2. /\ behind \in Seq(Octet)
          /\ Len(behind) = IF n + 1 <= 32 THEN 32 - (n + 1) + 1 ELSE 0
          /\ \A k \in 1..32 - (n + 1) + 1 : behind[k] = row[n + 1 + k - 1]
      BY <2>5, <3>1, SubSeqProperties
    <3>3. /\ 32 - (n + 1) + 1 = 32 - n /\ n + 1 <= 32
          /\ 32 - n \in 1..32 - n /\ n + 1 + (32 - n) - 1 = 32
      BY <2>4
    <3> QED
      BY <2>2, <3>2, <3>3
  <2>7. PICK new : new = frame \o behind
    OBVIOUS
  <2>8. /\ new \in Seq(Octet) /\ Len(new) = 32
        /\ \A k \in 1..n : new[k] = frame[k]
        /\ new[32] = 0
    <3>1. /\ new \in Seq(Octet) /\ Len(new) = Len(frame) + Len(behind)
          /\ \A k \in 1..Len(frame) : new[k] = frame[k]
          /\ \A k \in 1..Len(behind) : new[Len(frame) + k] = behind[k]
      BY <2>4, <2>6, <2>7, ConcatFacts
    <3>2. 32 - n \in 1..32 - n /\ n + (32 - n) = 32
      BY <2>4
    <3> QED
      <4>1. n + Len(behind) = 32 /\ new[32] = behind[32 - n]
        BY <2>3, <2>6, <3>1, <3>2
      <4> QED
        BY <2>3, <2>6, <3>1, <4>1
  <2>9. PICK after : after = tx_handler(rows, frame)
    OBVIOUS
  <2>10. after = [rows EXCEPT ![0] = new]
    BY <2>1, <2>2, <2>3, <2>5, <2>7, <2>9 DEF tx_handler, ROW_SIZE
  <2>11. after \in Rows /\ after[0] = new
    BY SMTT(30), <2>2, <2>8, <2>10 DEF Rows, ROWS, ROW_SIZE
  <2>12. UpToDelimiter(new) = frame
    <3>1. PICK zeros : zeros = {k \in 1..Len(new) : new[k] = 0}
      OBVIOUS
    <3>2. zeros \subseteq Nat /\ n \in zeros /\ \A k \in zeros : n <= k
      <4>1. zeros \subseteq Nat /\ n \in 1..n /\ n \in 1..Len(new)
        BY SMTT(30), <2>4, <2>8, <3>1
      <4>2. n \in zeros
        BY <2>4, <2>8, <3>1, <4>1
      <4>3. ASSUME NEW k \in zeros PROVE n <= k
        <5> SUFFICES ASSUME ~(n <= k) PROVE FALSE
          OBVIOUS
        <5>1. k \in 1..n /\ k # n /\ new[k] = 0
          BY <3>1, <4>1
        <5> QED
          BY <2>4, <2>8, <5>1
      <4> QED
        BY <4>1, <4>2, <4>3
    <3>3. Min(zeros) = n
      <4>1. Min(zeros) \in zeros /\ \A k \in zeros : Min(zeros) <= k
        BY <3>2, MinFacts
      <4>2. PICK m \in Nat : m = Min(zeros)
        BY <3>2, <4>1
      <4>3. n <= m /\ m <= n
        BY <3>2, <4>1, <4>2
      <4> QED
        BY <4>2, <4>3
    <3>4. PICK front : front = SubSeq(new, 1, n)
      OBVIOUS
    <3>5. front \in Seq(Octet) /\ Len(front) = n /\ \A k \in 1..n : front[k] = new[k]
      <4>1. ASSUME NEW k \in 1..n PROVE new[k] \in Octet
        <5>1. k \in 1..Len(new) /\ new \in Seq(Octet)
          BY <2>4, <2>8
        <5> QED
          BY <5>1
      <4>2. /\ front \in Seq(Octet)
            /\ Len(front) = IF 1 <= n THEN n - 1 + 1 ELSE 0
            /\ \A k \in 1..n - 1 + 1 : front[k] = new[1 + k - 1]
        BY <3>4, <4>1, SubSeqProperties
      <4>3. n - 1 + 1 = n /\ \A k \in 1..n : 1 + k - 1 = k
        OBVIOUS
      <4> QED
        BY <2>4, <4>2, <4>3
    <3>6. \A k \in 1..n : front[k] = frame[k]
      BY <2>8, <3>5
    <3>7. front = frame
      BY <2>3, <2>4, <3>5, <3>6, SeqEqual
    <3>8. UpToDelimiter(new) = SubSeq(new, 1, Min(zeros))
      BY <3>1 DEF UpToDelimiter
    <3> QED
      BY <3>3, <3>4, <3>7, <3>8
  <2>13. Holds(after, frame)
    BY <2>8, <2>11, <2>12 DEF Holds, get_packet_buffer, ROW_SIZE
  <2> QED
    BY <2>9, <2>11, <2>13
<1> QED
  BY <1>1, <1>2

\* After any packets the rows are as they may be, and hold the frame of the last one.
LEMMA SentFacts ==
  ASSUME NEW rows \in Rows, NEW packets, NEW n \in Nat \ {0}, n = Len(packets),
         \A k \in 1..n : Proper(EncodePacket(packets[k]))
  PROVE  /\ Sent(rows, packets) \in Rows
         /\ Holds(Sent(rows, packets), EncodePacket(packets[n]))
<1> DEFINE Step(f) == [k \in 0..n |-> IF k = 0 THEN rows
                                      ELSE tx_handler(f[k-1], EncodePacket(packets[k]))]
           send == [k \in 1..n |-> [r \in Rows |-> tx_handler(r, EncodePacket(packets[k]))]]
<1>1. \A k \in 1..n, r \in Rows : tx_handler(r, EncodePacket(packets[k])) \in Rows
  BY RowFacts
<1>2. send \in [1..n -> [Rows -> Rows]]
  BY <1>1
<1>3. PICK f \in [0..n -> Rows] : Runs(f, n, rows, send)
  <2> HIDE DEF send
  <2>1. n \in Nat
    OBVIOUS
  <2> QED
    BY <1>2, <2>1, RecursionExists, Zenon
<1>4. f = Step(f)
  <2>1. f = [k \in 0..n |-> IF k = 0 THEN rows ELSE send[k][f[k-1]]]
    BY <1>3 DEF Runs
  <2>2. ASSUME NEW k \in 1..n
        PROVE  send[k][f[k-1]] = tx_handler(f[k-1], EncodePacket(packets[k]))
    <3>1. f[k-1] \in Rows
      OBVIOUS
    <3> QED
      BY <3>1
  <2> HIDE DEF send
  <2>3. \A k \in 0..n : (IF k = 0 THEN rows ELSE send[k][f[k-1]])
                          = (IF k = 0 THEN rows
                             ELSE tx_handler(f[k-1], EncodePacket(packets[k])))
    BY <2>2
  <2> QED
    BY <2>1, <2>3
<1>5. PICK a : a = CHOOSE g : g = Step(g)
  OBVIOUS
<1>6. a = Step(a)
  <2> HIDE DEF Step
  <2> QED
    BY <1>4, <1>5
<1>7. \A k \in 0..n :
        a[k] = IF k = 0 THEN rows ELSE tx_handler(a[k-1], EncodePacket(packets[k]))
  BY <1>6
<1>8. a[0] = rows /\ \A k \in 1..n : a[k] = tx_handler(a[k-1], EncodePacket(packets[k]))
  <2>1. 0 \in 0..n /\ \A k \in 1..n : k \in 0..n /\ k # 0
    OBVIOUS
  <2> QED
    BY <1>7, <2>1
<1>9. \A k \in 0..n : a[k] \in Rows
  <2>1. ASSUME NEW k \in 1..n, a[k-1] \in Rows PROVE a[k] \in Rows
    BY <1>1, <1>8, <2>1
  <2> QED
    BY <1>8, <2>1, n \in Nat, RecursionStays
<1>10. Sent(rows, packets) = a[n]
  BY <1>5 DEF Sent
<1>11. n \in 1..n /\ n \in 0..n /\ n - 1 \in 0..n
  OBVIOUS
<1>12. Holds(a[n], EncodePacket(packets[n]))
  <2>1. PICK before \in Rows : before = a[n-1]
    BY <1>9, <1>11
  <2>2. Proper(EncodePacket(packets[n]))
    BY <1>11
  <2>3. Holds(tx_handler(before, EncodePacket(packets[n])), EncodePacket(packets[n]))
    BY <2>2, RowFacts
  <2> QED
    BY <1>8, <1>11, <2>1, <2>3
<1> QED
  BY <1>9, <1>10, <1>11, <1>12

-----------------------------------------------------------------------------
(* The packets of a message. *)

\* Division, of which the provers need to know no more than this.
LEMMA DivFacts ==
  ASSUME NEW a \in Nat, NEW b \in Nat \ {0}
  PROVE  /\ a \div b \in Nat /\ a % b \in Nat /\ a % b < b
         /\ a = (a \div b) * b + (a % b)
  OBVIOUS

\* As many packets as it takes, at least one.
LEMMA TotalFacts ==
  ASSUME NEW n \in Nat \ {0}, NEW chunk \in Nat \ {0}
  PROVE  LET total == (n + chunk - 1) \div chunk IN
         /\ total \in Nat \ {0}
         /\ (total - 1) * chunk < n /\ n <= total * chunk
         /\ (total - 1) * chunk + (n % chunk) <= n
<1>1. PICK a \in Nat : a = n + chunk - 1
  OBVIOUS
<1>2. PICK q \in Nat, r \in Nat :
        q = a \div chunk /\ r = a % chunk /\ r < chunk /\ a = q * chunk + r
  BY DivFacts
<1>3. q # 0
  BY <1>1, <1>2
<1>4. PICK p \in Nat : q = p + 1
  <2>1. q - 1 \in Nat /\ q = (q - 1) + 1
    BY <1>3
  <2> QED
    BY <2>1
<1>5. PICK pc \in Nat : pc = p * chunk
  OBVIOUS
<1>6. q * chunk = pc + chunk
  BY <1>4, <1>5
<1>7. pc < n /\ n <= pc + chunk
  BY <1>1, <1>2, <1>6
<1>8. PICK s \in Nat, t \in Nat : /\ s = n \div chunk /\ t = n % chunk /\ t < chunk
                                  /\ n = s * chunk + t
  BY DivFacts
<1>9. p <= s
  <2> SUFFICES ASSUME s + 1 <= p PROVE FALSE
    BY <1>8
  <2>1. (s + 1) * chunk <= p * chunk
    OBVIOUS
  <2>2. (s + 1) * chunk = s * chunk + chunk
    OBVIOUS
  <2> QED
    BY <1>5, <1>7, <1>8, <2>1, <2>2
<1>10. pc <= s * chunk
  BY <1>5, <1>9
<1>11. pc + t <= n
  BY <1>8, <1>10
<1> QED
  BY <1>1, <1>2, <1>3, <1>4, <1>5, <1>6, <1>7, <1>8, <1>11

\* A part of a sequence.
LEMMA PartFacts ==
  ASSUME NEW buffer \in Seq(Octet), NEW start \in Nat, NEW size \in Nat,
         start + size <= Len(buffer)
  PROVE  /\ SubSeq(buffer, start + 1, start + size) \in Seq(Octet)
         /\ Len(SubSeq(buffer, start + 1, start + size)) = size
<1>1. ASSUME NEW k \in start + 1..start + size PROVE buffer[k] \in Octet
  <2>1. k \in 1..Len(buffer)
    OBVIOUS
  <2> QED
    BY <2>1
<1>2. PICK part : part = SubSeq(buffer, start + 1, start + size)
  OBVIOUS
<1>3. /\ part \in Seq(Octet)
      /\ Len(part) = IF start + 1 <= start + size THEN start + size - (start + 1) + 1 ELSE 0
  BY <1>1, <1>2, SubSeqProperties
<1>4. (start + 1 <= start + size <=> size # 0) /\ start + size - (start + 1) + 1 = size
  OBVIOUS
<1> QED
  BY <1>2, <1>3, <1>4

\* send() makes of a message that is not empty at least one packet, and each is valid.
LEMMA PacketsFacts ==
  ASSUME NEW buffer \in Seq(Octet), buffer # <<>>
  PROVE  /\ Packets(buffer) = [k \in 1..Len(Packets(buffer)) |-> Packets(buffer)[k]]
         /\ Len(Packets(buffer)) \in Nat \ {0}
         /\ \A k \in 1..Len(Packets(buffer)) : Valid(Packets(buffer)[k])
<1> DEFINE n == Len(buffer)
           chunk == DATA_MAX - 1
           total == (n + chunk - 1) \div chunk
           size(i) == IF total = 1 THEN n ELSE IF i < total - 1 THEN chunk ELSE n % chunk
           flag(i) == IF total = 1 THEN "FIRSTLAST" ELSE IF i = 0 THEN "FIRST"
                      ELSE IF i < total - 1 THEN "CONTINUE" ELSE "LAST"
           made(k) == [data |-> SubSeq(buffer, (k-1) * chunk + 1, (k-1) * chunk + size(k-1)),
                       sequence_number |-> (k - 1) % 256, flag |-> flag(k-1)]
<1>1. n \in Nat \ {0} /\ chunk \in Nat \ {0} /\ chunk < DATA_MAX /\ DATA_MAX \in Nat
  BY DataMaxAssumption
<1>2. /\ total \in Nat \ {0}
      /\ (total - 1) * chunk < n /\ n <= total * chunk
      /\ (total - 1) * chunk + (n % chunk) <= n
  <2>1. PICK m, c \in Nat \ {0} : m = n /\ c = chunk
    BY <1>1
  <2> HIDE DEF n, chunk
  <2> QED
    BY <2>1, TotalFacts
<1>3. Packets(buffer) = [k \in 1..total |-> made(k)]
  BY DEF Packets
<1>4. Len(Packets(buffer)) = total /\ \A k \in 1..total : Packets(buffer)[k] = made(k)
  <2> HIDE DEF made, total
  <2> QED
    BY <1>2, <1>3
<1>5. ASSUME NEW k \in 1..total PROVE Valid(made(k))
  <2>1. PICK t \in Nat \ {0}, c \in Nat \ {0}, l \in Nat \ {0}, r \in Nat :
          /\ t = total /\ c = chunk /\ l = n /\ r = n % chunk /\ r < c
    <3>1. n % chunk \in Nat /\ n % chunk < chunk
      BY <1>1, DivFacts
    <3> HIDE DEF n, chunk, total
    <3> QED
      BY <1>1, <1>2, <3>1
  <2>2. (t - 1) * c < l /\ l <= t * c /\ (t - 1) * c + r <= l /\ c < DATA_MAX
    <3> HIDE DEF n, chunk, total
    <3> QED
      BY <1>1, <1>2, <2>1
  <2>3. PICK i \in Nat : i = k - 1 /\ i <= t - 1
    BY <2>1
  <2>4. PICK start \in Nat : start = i * c
    OBVIOUS
  <2>5. PICK s \in Nat : s = size(i) /\ start + s <= l /\ s <= c
    <3>1. CASE t = 1
      <4>1. i = 0
        BY <2>3, <3>1
      <4>2. start = 0 /\ l <= c
        BY <2>2, <2>4, <3>1, <4>1
      <4>3. size(i) = l
        BY <2>1, <3>1
      <4> QED
        BY <4>2, <4>3
    <3>2. CASE t # 1 /\ i < t - 1
      <4>1. PICK j \in Nat : t - 1 = i + 1 + j
        <5>1. t - 1 - (i + 1) \in Nat /\ t - 1 = i + 1 + (t - 1 - (i + 1))
          BY <2>3, <3>2
        <5> QED
          BY <5>1
      <4>2. (i + 1 + j) * c = i * c + c + j * c /\ j * c \in Nat
        OBVIOUS
      <4>3. start + c <= l
        BY <2>2, <2>4, <4>1, <4>2
      <4>4. size(i) = c
        BY <2>1, <3>2
      <4> QED
        BY <4>3, <4>4
    <3>3. CASE t # 1 /\ i = t - 1
      <4>1. size(i) = r
        BY <2>1, <3>3
      <4>2. start = (t - 1) * c
        BY <2>4, <3>3
      <4>3. start + r <= l
        BY <2>2, <4>2
      <4>4. r <= c
        BY <2>1
      <4> HIDE DEF size
      <4> QED
        BY <4>1, <4>3, <4>4
    <3> QED
      BY <2>3, <3>1, <3>2, <3>3
  <2>6. made(k).data = SubSeq(buffer, start + 1, start + s)
    <3>1. (k - 1) * chunk = start /\ size(k - 1) = s
      BY <2>1, <2>3, <2>4, <2>5
    <3> HIDE DEF size, chunk
    <3> QED
      BY <3>1
  <2>7. made(k).data \in Seq(Octet) /\ Len(made(k).data) <= DATA_MAX
    <3>1. PICK part : part = SubSeq(buffer, start + 1, start + s)
      OBVIOUS
    <3>2. part \in Seq(Octet) /\ Len(part) = s
      <4>1. start + s <= Len(buffer)
        BY <2>1, <2>5
      <4> QED
        BY <3>1, <4>1, PartFacts
    <3>3. s <= DATA_MAX
      BY <1>1, <2>2, <2>5
    <3> HIDE DEF made
    <3> QED
      BY <2>6, <3>1, <3>2, <3>3
  <2>8. made(k).sequence_number \in Octet
    <3>1. (k - 1) % 256 \in Nat /\ (k - 1) % 256 <= 255
      BY <2>3
    <3>2. made(k).sequence_number = (k - 1) % 256
      OBVIOUS
    <3> QED
      BY <3>1, <3>2, ByteFacts
  <2>9. made(k).flag \in Flags
    <3>1. FlagNames[1] \in Flags /\ FlagNames[2] \in Flags /\ FlagNames[3] \in Flags
          /\ FlagNames[4] \in Flags
      BY DEF Flags
    <3>2. {"FIRST", "CONTINUE", "LAST", "FIRSTLAST"} \subseteq Flags
      BY <3>1 DEF FlagNames
    <3>3. flag(k - 1) \in {"FIRST", "CONTINUE", "LAST", "FIRSTLAST"}
      OBVIOUS
    <3>4. made(k).flag = flag(k - 1)
      OBVIOUS
    <3> QED
      BY <3>2, <3>3, <3>4
  <2> HIDE DEF made
  <2> QED
    BY <2>7, <2>8, <2>9 DEF Valid
<1> HIDE DEF total, made
<1> QED
  BY <1>2, <1>3, <1>4, <1>5

\* The frame of every packet that is sent is as frames may be.
LEMMA ProperFrame ==
  ASSUME NEW p \in SentPackets, Valid(p)
  PROVE  Proper(EncodePacket(p))
<1>1. Marshalled(p) = [ok |-> Len(Wire(p)) <= Packet_size, bytes |-> Wire(p)]
  BY MarshalAssumption
<1>2. PICK t : Frame(p, t)
  BY <1>1, FrameFacts
<1>3. PICK e : e = EncodePacket(p)
  OBVIOUS
<1>4. /\ e \in Seq(Octet) /\ Len(e) = Len(t) + 1
      /\ \A k \in 1..Len(e) : e[k] = 0 <=> k = Len(e)
  BY <1>2, <1>3, EncodedFacts
<1>5. PICK n \in Nat : n = Len(t) /\ n >= 10 /\ n <= DATA_MAX + 12
  BY <1>2 DEF Frame
<1>6. DATA_MAX \in Nat /\ DATA_MAX + 16 <= ROW_SIZE /\ ROW_SIZE \in Nat
  BY DataMaxAssumption, RowAssumption DEF Packet_size, ROW_SIZE
<1>7. Len(e) >= 1 /\ Len(e) < ROW_SIZE
  BY <1>4, <1>5, <1>6
<1> QED
  BY <1>3, <1>4, <1>7 DEF Proper

\* For any data of up to DATA_MAX bytes, and any pulse: behind whatever was sent before, the
\* first row holds the one frame that was sent last, and without a handler nothing is sent.
THEOREM LastFrameInRow == Spec => []RowIsOneFrame
<1> DEFINE packets == Packets(Pulse.bytes)
<1>1. PICK n \in Nat \ {0} : n = Len(packets) /\ packets = [k \in 1..n |-> packets[k]]
  BY PulseAssumption, PacketsFacts
<1>2. \A k \in 1..n : Valid(packets[k])
  BY <1>1, PulseAssumption, PacketsFacts
<1>3. packets # <<>> /\ n \in 1..n
  BY <1>1
<1>4. Last(packets) = packets[n]
  BY <1>1 DEF Last
<1>5. \A k \in 1..n : Proper(EncodePacket(packets[k]))
  <2> SUFFICES ASSUME NEW k \in 1..n PROVE Proper(EncodePacket(packets[k]))
    OBVIOUS
  <2> HIDE DEF packets
  <2>1. packets[k] \in Range(packets)
    BY <1>1 DEF Range
  <2>2. packets[k] \in SentPackets
    BY <2>1 DEF SentPackets, packets
  <2> QED
    BY <1>2, <2>2, ProperFrame
<1>6. PulseSent = Sent(clean_buffer, packets)
  <2>1. Pulse.ok = TRUE /\ init # unregistered
    BY PulseAssumption DEF init, unregistered
  <2> QED
    BY <2>1 DEF PulseSent, generate_neopixel_pulse, send_msg
<1>7. generate_neopixel_pulse(unregistered) = [packet_buffer |-> clean_buffer, value |-> -1]
  <2>1. Pulse.ok = TRUE
    BY PulseAssumption
  <2> QED
    BY <1>3, <2>1 DEF generate_neopixel_pulse, send_msg
<1> HIDE DEF packets
<1>8. PulseSent \in Rows /\ Holds(PulseSent, EncodePacket(Last(packets)))
  <2>1. clean_buffer \in Rows
    BY RowFacts
  <2>2. /\ Sent(clean_buffer, packets) \in Rows
        /\ Holds(Sent(clean_buffer, packets), EncodePacket(packets[n]))
    BY <1>1, <1>5, <2>1, SentFacts
  <2> QED
    BY <1>4, <1>6, <2>2
<1>9. tx_handler(clean_buffer, EncodePacket(LongestPacket)) \in Rows
  <2>1. Valid(LongestPacket)
    <3>1. PICK data : data = [k \in 1..DATA_MAX |-> 255]
      OBVIOUS
    <3>2. data \in Seq(Octet) /\ Len(data) <= DATA_MAX
      BY <3>1, DataMaxAssumption, ByteFacts
    <3>3. 255 \in Octet
      BY ByteFacts
    <3>4. FlagNames[3] \in Flags /\ FlagNames[3] = "LAST"
      BY DEF Flags, FlagNames
    <3> QED
      BY <3>1, <3>2, <3>3, <3>4 DEF LongestPacket, Valid
  <2>2. Proper(EncodePacket(LongestPacket))
    BY <2>1, ProperFrame DEF SentPackets
  <2> QED
    BY <2>2, RowFacts
<1>10. IsPacket => RowIsOneFrame
  <2> SUFFICES ASSUME IsPacket PROVE RowIsOneFrame
    OBVIOUS
  <2>1. Valid(packet) /\ packet \in SentPackets
    BY FrameOfPacket DEF IsPacket, SentPackets
  <2>2. PICK frame : frame = EncodePacket(packet)
    OBVIOUS
  <2>3. Proper(frame)
    BY <2>1, <2>2, ProperFrame
  <2>4. \A rows \in Rows : Holds(tx_handler(rows, frame), frame)
    BY <2>3, RowFacts
  <2>5. clean_buffer \in Rows
    BY RowFacts
  <2> QED
    BY <1>7, <1>8, <1>9, <2>2, <2>4, <2>5 DEF RowIsOneFrame, packets
<1> QED
  BY <1>10, PacketAlways, PTL

-----------------------------------------------------------------------------
(* Integers as sets of bits. *)

\* The powers of two up to 2^30.
Pow == [k \in 0..30 |-> 2^k]

\* Each is twice the one before.
LEMMA Powers ==
  /\ Pow[0] = 1 /\ \A x \in 0..30 : Pow[x] \in Nat \ {0} /\ 2^x = Pow[x]
  /\ \A x \in 0..29 : Pow[x + 1] = 2 * Pow[x]
<1>1. /\ Pow[0] = 1 /\ Pow[1] = 2 /\ Pow[2] = 4 /\ Pow[3] = 8 /\ Pow[4] = 16 /\ Pow[5] = 32
      /\ Pow[6] = 64 /\ Pow[7] = 128 /\ Pow[8] = 256 /\ Pow[9] = 512 /\ Pow[10] = 1024
      /\ Pow[11] = 2048 /\ Pow[12] = 4096 /\ Pow[13] = 8192 /\ Pow[14] = 16384
      /\ Pow[15] = 32768 /\ Pow[16] = 65536 /\ Pow[17] = 131072 /\ Pow[18] = 262144
      /\ Pow[19] = 524288 /\ Pow[20] = 1048576 /\ Pow[21] = 2097152 /\ Pow[22] = 4194304
      /\ Pow[23] = 8388608 /\ Pow[24] = 16777216 /\ Pow[25] = 33554432 /\ Pow[26] = 67108864
      /\ Pow[27] = 134217728 /\ Pow[28] = 268435456 /\ Pow[29] = 536870912
      /\ Pow[30] = 1073741824
  BY DEF Pow
<1>2. ASSUME NEW x \in 0..30 PROVE 2^x = Pow[x]
  BY DEF Pow
<1>3. ASSUME NEW x \in 0..30 PROVE Pow[x] \in Nat \ {0}
  BY <1>1
<1>4. ASSUME NEW x \in 0..29 PROVE Pow[x + 1] = 2 * Pow[x]
  BY <1>1
<1> QED
  BY <1>1, <1>2, <1>3, <1>4

\* f sums up the powers of two of every subset of a set of numbers.
Sums(f, set) ==
  /\ f \in [SUBSET set -> Nat] /\ f[{}] = 0
  /\ \A s \in SUBSET set : \A x \in s : f[s] = Pow[x] + f[s \ {x}]

\* Such a sum exists.
LEMMA SumsExist == ASSUME NEW n \in 0..30 PROVE \E f : Sums(f, 0..n - 1)
<1> DEFINE T == {m \in Nat : m <= n => \E f : Sums(f, 0..m - 1)}
<1>1. 0 \in T
  <2>1. PICK f : f = [s \in SUBSET (0..0 - 1) |-> 0]
    OBVIOUS
  <2>2. Sums(f, 0..0 - 1)
    BY <2>1 DEF Sums
  <2> QED
    BY <2>2
<1>2. ASSUME NEW m \in Nat, m \in T PROVE m + 1 \in T
  <2> SUFFICES ASSUME m + 1 <= n PROVE \E g : Sums(g, 0..m + 1 - 1)
    OBVIOUS
  <2>1. PICK f : Sums(f, 0..m - 1)
    BY <1>2
  <2>2. m \in 0..30
    OBVIOUS
  <2>3. PICK w \in Nat : w = Pow[m]
    BY <2>2, Powers
  <2>4. PICK g : g = [s \in SUBSET (0..m) |-> f[s \ {m}] + IF m \in s THEN w ELSE 0]
    OBVIOUS
  <2>5. \A s \in SUBSET (0..m) : s \ {m} \in SUBSET (0..m - 1)
    OBVIOUS
  <2>6. \A s \in SUBSET (0..m) : f[s \ {m}] \in Nat
    BY <2>1, <2>5 DEF Sums
  <2>7. g \in [SUBSET (0..m) -> Nat]
    <3>1. ASSUME NEW s \in SUBSET (0..m)
          PROVE  f[s \ {m}] + (IF m \in s THEN w ELSE 0) \in Nat
      <4>1. PICK a \in Nat : a = f[s \ {m}]
        BY <2>6
      <4>2. a + w \in Nat /\ a + 0 \in Nat
        BY <2>3
      <4> QED
        BY <4>1, <4>2
    <3> QED
      BY <2>4, <3>1, Zenon
  <2>8. g[{}] = 0
    <3>1. {} \ {m} = {} /\ {} \in SUBSET (0..m) /\ m \notin {}
      OBVIOUS
    <3>2. f[{}] = 0
      BY <2>1 DEF Sums
    <3> QED
      BY <2>4, <3>1, <3>2
  <2>9. ASSUME NEW s \in SUBSET (0..m), NEW x \in s
        PROVE  g[s] = Pow[x] + g[s \ {x}]
    <3>1. PICK r : r = s \ {x}
      OBVIOUS
    <3>2. r \in SUBSET (0..m)
      BY <3>1
    <3>3. /\ g[s] = f[s \ {m}] + IF m \in s THEN w ELSE 0
          /\ g[r] = f[r \ {m}] + IF m \in r THEN w ELSE 0
      BY <2>4, <3>2
    <3>4. f[s \ {m}] \in Nat /\ f[r \ {m}] \in Nat
      BY <2>6, <3>2
    <3>5. CASE x = m
      <4>1. r \ {m} = s \ {m} /\ m \notin r /\ m \in s
        BY <2>9, <3>1, <3>5
      <4> QED
        BY <2>3, <3>1, <3>3, <3>4, <3>5, <4>1
    <3>6. CASE x # m
      <4>1. r \ {m} = (s \ {m}) \ {x} /\ (m \in r <=> m \in s) /\ x \in s \ {m} /\ x \in 0..m - 1
        BY <2>9, <3>1, <3>6
      <4>2. f[s \ {m}] = Pow[x] + f[r \ {m}]
        <5>1. PICK a : a = s \ {m}
          OBVIOUS
        <5>2. a \in SUBSET (0..m - 1) /\ x \in a /\ r \ {m} = a \ {x}
          BY <2>5, <4>1, <5>1
        <5>3. f[a] = Pow[x] + f[a \ {x}]
          BY <2>1, <5>2 DEF Sums
        <5> QED
          BY <5>1, <5>2, <5>3
      <4>3. PICK p \in Nat : p = Pow[x]
        BY <2>2, <4>1, Powers
      <4> QED
        BY <3>1, <3>3, <3>4, <4>1, <4>2, <4>3
    <3> QED
      BY <3>5, <3>6
  <2>10. 0..m + 1 - 1 = 0..m
    OBVIOUS
  <2>11. Sums(g, 0..m)
    BY <2>7, <2>8, <2>9, Zenon DEF Sums
  <2> QED
    BY <2>10, <2>11
<1>3. n \in T
  <2> HIDE DEF T
  <2> QED
    BY <1>1, <1>2, Upwards
<1> QED
  BY <1>3

\* An integer of up to 30 bits as a number: the sum of its bits.
LEMMA NumberSums ==
  \E f : Sums(f, 0..29) /\ \A s \in SUBSET (0..29) : Number(s) = f[s]
<1>1. PICK f : Sums(f, 0..29)
  <2>1. 30 \in 0..30 /\ 30 - 1 = 29
    OBVIOUS
  <2> QED
    BY <2>1, SumsExist
<1>2. ASSUME NEW set \in SUBSET (0..29) PROVE Number(set) = f[set]
  <2> DEFINE Solves(h) == h =
               [s \in SUBSET set |->
                  IF s = {} THEN 0
                  ELSE 2^(CHOOSE x \in s : TRUE) + h[s \ {CHOOSE x \in s : TRUE}]]
             Iter == CHOOSE h : Solves(h)
  <2>1. Number(set) = Iter[set]
    BY <1>2 DEF Number, MapThenSumSet, MapThenFoldSet
  <2>2. PICK first : first = [s \in SUBSET set |-> CHOOSE x \in s : TRUE]
    OBVIOUS
  <2>3. \A s \in SUBSET set : s # {} => first[s] \in s /\ first[s] \in 0..29
    BY <1>2, <2>2
  <2>4. \A s \in SUBSET set : s \in SUBSET (0..29)
    BY <1>2
  <2>5. ASSUME NEW s \in SUBSET set, s # {}
        PROVE  f[s] = 2^(CHOOSE x \in s : TRUE) + f[s \ {CHOOSE x \in s : TRUE}]
    <3>1. PICK x : x = CHOOSE y \in s : TRUE
      OBVIOUS
    <3>2. x \in s /\ x \in 0..29
      BY <2>4, <2>5, <3>1
    <3>3. f[s] = Pow[x] + f[s \ {x}]
      BY <1>1, <2>4, <3>2 DEF Sums
    <3>4. 2^x = Pow[x]
      <4>1. x \in 0..30
        BY <3>2
      <4> QED
        BY <4>1, Powers
    <3> QED
      BY <3>1, <3>3, <3>4
  <2>6. f[{}] = 0
    BY <1>1 DEF Sums
  <2>7. PICK g : g = [s \in SUBSET set |-> f[s]]
    OBVIOUS
  <2>8. Solves(g)
    <3>1. ASSUME NEW s \in SUBSET set
          PROVE  g[s] = IF s = {} THEN 0
                        ELSE 2^(CHOOSE x \in s : TRUE) + g[s \ {CHOOSE x \in s : TRUE}]
      <4>1. CASE s = {}
        BY <2>6, <2>7, <4>1
      <4>2. CASE s # {}
        <5>1. PICK x : x = CHOOSE y \in s : TRUE
          OBVIOUS
        <5>2. s \ {x} \in SUBSET set
          OBVIOUS
        <5>3. f[s] = 2^x + f[s \ {x}]
          BY <2>5, <4>2, <5>1
        <5>4. g[s] = f[s] /\ g[s \ {x}] = f[s \ {x}]
          BY <2>7, <5>2
        <5> QED
          BY <4>2, <5>1, <5>3, <5>4
      <4> QED
        BY <4>1, <4>2
    <3> QED
      BY <2>7, <3>1, Zenon
  <2>9. PICK iter : iter = Iter
    OBVIOUS
  <2>10. Solves(iter)
    <3> HIDE DEF Solves
    <3> QED
      BY <2>8, <2>9
  <2> HIDE DEF Iter
  <2> DEFINE T == {n \in Nat : \A s \in SUBSET set : f[s] <= n => iter[s] = f[s]}
  <2>11. \A s \in SUBSET set : f[s] \in Nat
    BY <1>1, <2>4 DEF Sums
  <2>12. iter[{}] = 0
    BY <2>10
  <2>13. ASSUME NEW s \in SUBSET set, s # {}
         PROVE  \E a \in SUBSET set, p \in Nat \ {0} : f[s] = p + f[a] /\ iter[s] = p + iter[a]
    <3>1. PICK x : x = CHOOSE y \in s : TRUE
      OBVIOUS
    <3>2. x \in s /\ x \in 0..30
      <4>1. x \in s
        BY <2>13, <3>1
      <4>2. s \in SUBSET (0..29)
        BY <2>4
      <4> QED
        BY <4>1, <4>2
    <3>3. PICK p \in Nat \ {0} : p = 2^x
      BY <3>2, Powers
    <3>4. f[s] = p + f[s \ {x}]
      BY <2>5, <2>13, <3>1, <3>3
    <3>5. iter[s] = p + iter[s \ {x}]
      BY <2>10, <2>13, <3>1, <3>3
    <3>6. s \ {x} \in SUBSET set
      OBVIOUS
    <3> QED
      BY <3>4, <3>5, <3>6
  <2>14. 0 \in T
    <3>1. ASSUME NEW s \in SUBSET set, f[s] <= 0 PROVE iter[s] = f[s]
      <4>1. CASE s = {}
        BY <2>6, <2>12, <4>1
      <4>2. CASE s # {}
        <5>1. PICK a \in SUBSET set, p \in Nat \ {0} : f[s] = p + f[a]
          BY <2>13, <4>2
        <5>2. f[a] \in Nat
          BY <2>11
        <5> QED
          BY <3>1, <5>1, <5>2
      <4> QED
        BY <4>1, <4>2
    <3> QED
      BY <3>1
  <2>15. ASSUME NEW n \in Nat, n \in T PROVE n + 1 \in T
    <3>1. ASSUME NEW s \in SUBSET set, f[s] <= n + 1 PROVE iter[s] = f[s]
      <4>1. CASE s = {}
        BY <2>6, <2>12, <4>1
      <4>2. CASE s # {}
        <5>1. PICK a \in SUBSET set, p \in Nat \ {0} : f[s] = p + f[a] /\ iter[s] = p + iter[a]
          BY <2>13, <4>2
        <5>2. f[a] \in Nat
          BY <2>11
        <5>3. f[a] <= n
          BY <3>1, <5>1, <5>2
        <5>4. iter[a] = f[a]
          BY <2>15, <5>3
        <5> QED
          BY <5>1, <5>4
      <4> QED
        BY <4>1, <4>2
    <3> QED
      BY <3>1
  <2>16. Nat \subseteq T
    <3> HIDE DEF T
    <3> QED
      BY <2>14, <2>15, Upwards
  <2>17. set \in SUBSET set /\ f[set] \in T
    BY <2>11, <2>16
  <2>18. iter[set] = f[set]
    BY <2>11, <2>17
  <2> QED
    BY <2>1, <2>9, <2>18
<1> QED
  BY <1>1, <1>2

\* What the number of a set of bits is, taking one away or the lowest.
LEMMA NumberFacts ==
  /\ Number({}) = 0
  /\ \A s \in SUBSET (0..29) :
       Number(s) \in Nat /\ \A x \in s : Number(s) = Pow[x] + Number(s \ {x})
<1>1. PICK f : Sums(f, 0..29) /\ \A s \in SUBSET (0..29) : Number(s) = f[s]
  BY NumberSums
<1>2. {} \in SUBSET (0..29)
  OBVIOUS
<1>3. ASSUME NEW s \in SUBSET (0..29), NEW x \in s PROVE Number(s) = Pow[x] + Number(s \ {x})
  <2>1. s \ {x} \in SUBSET (0..29)
    OBVIOUS
  <2> QED
    BY <1>1, <2>1 DEF Sums
<1>4. \A s \in SUBSET (0..29) : Number(s) \in Nat
  BY <1>1 DEF Sums
<1> QED
  BY <1>1, <1>2, <1>3, <1>4 DEF Sums

\* k bits make a number below 2^k.
LEMMA NumberBelow ==
  ASSUME NEW k \in 0..30, NEW s \in SUBSET (0..k - 1)
  PROVE  Number(s) \in Nat /\ Number(s) < Pow[k]
<1> DEFINE T == {m \in Nat : m <= 30 => \A r \in SUBSET (0..m - 1) : Number(r) < Pow[m]}
<1>1. 0 \in T
  <2>1. \A r \in SUBSET (0..0 - 1) : r = {}
    OBVIOUS
  <2>2. Number({}) = 0 /\ Pow[0] = 1
    BY NumberFacts, Powers
  <2>3. ASSUME NEW r \in SUBSET (0..0 - 1) PROVE Number(r) < Pow[0]
    <3>1. r = {}
      BY <2>1
    <3>2. Number(r) = 0
      BY <2>2, <3>1, Zenon
    <3> QED
      BY <2>2, <3>2
  <2> QED
    BY <2>3
<1>2. ASSUME NEW m \in Nat, m \in T PROVE m + 1 \in T
  <2> SUFFICES ASSUME m + 1 <= 30, NEW r \in SUBSET (0..m + 1 - 1) PROVE Number(r) < Pow[m + 1]
    OBVIOUS
  <2>1. PICK p \in Nat \ {0} : p = Pow[m] /\ Pow[m + 1] = 2 * p
    <3>1. m \in 0..30 /\ m \in 0..29
      OBVIOUS
    <3> QED
      BY <3>1, Powers
  <2>2. PICK a : a = r \ {m}
    OBVIOUS
  <2>3. a \in SUBSET (0..m - 1) /\ a \in SUBSET (0..29) /\ r \in SUBSET (0..29)
    BY <2>2
  <2>4. Number(a) \in Nat /\ Number(a) < p
    BY <1>2, <2>1, <2>3, NumberFacts
  <2>5. Number(r) = p + Number(a) \/ r = a
    BY <2>1, <2>2, <2>3, NumberFacts
  <2> QED
    BY <2>1, <2>4, <2>5
<1>3. k \in T
  <2> HIDE DEF T
  <2> QED
    BY <1>1, <1>2, Upwards
<1>4. s \in SUBSET (0..29)
  OBVIOUS
<1> QED
  BY <1>3, <1>4, NumberFacts

\* Induction: what holds of a number whenever it holds of all those below holds of every one.
LEMMA FromAllBelow ==
  ASSUME NEW T, \A n \in Nat : (\A m \in Nat : m < n => m \in T) => n \in T
  PROVE  \A n \in Nat : n \in T
<1> DEFINE U == {n \in Nat : \A m \in 0..n : m \in T}
<1>1. 0 \in U
  <2>1. 0 \in T
    OBVIOUS
  <2>2. \A m \in 0..0 : m = 0
    OBVIOUS
  <2> QED
    BY <2>1, <2>2
<1>2. ASSUME NEW n \in Nat, n \in U PROVE n + 1 \in U
  <2>1. \A m \in Nat : m < n + 1 => m \in 0..n
    OBVIOUS
  <2>2. n + 1 \in T
    BY <1>2, <2>1
  <2>3. \A m \in 0..n + 1 : m \in 0..n \/ m = n + 1
    OBVIOUS
  <2> QED
    BY <1>2, <2>2, <2>3
<1>3. Nat \subseteq U
  <2> HIDE DEF U
  <2> QED
    BY <1>1, <1>2, Upwards
<1>4. \A n \in Nat : n \in 0..n
  OBVIOUS
<1> QED
  BY <1>3, <1>4

\* The number without its lowest bit is twice that of the bits moved down.
LEMMA NumberHalves ==
  ASSUME NEW set \in SUBSET (0..29)
  PROVE  /\ ShiftRight(set, 1) \in SUBSET (0..28)
         /\ Number(set) = 2 * Number(ShiftRight(set, 1)) + IF 0 \in set THEN 1 ELSE 0
<1> DEFINE T == {n \in Nat : \A s \in SUBSET (0..29) : Number(s) <= n =>
                   Number(s) = 2 * Number(ShiftRight(s, 1)) + IF 0 \in s THEN 1 ELSE 0}
<1>1. ASSUME NEW s \in SUBSET (0..29)
      PROVE  /\ ShiftRight(s, 1) \in SUBSET (0..28)
             /\ \A k \in 0..28 : k \in ShiftRight(s, 1) <=> k + 1 \in s
  <2>1. \A b \in s : b \in 0..29
    OBVIOUS
  <2>2. ShiftRight(s, 1) \in SUBSET (0..28)
    BY <2>1 DEF ShiftRight
  <2>3. ASSUME NEW k \in 0..28 PROVE k \in ShiftRight(s, 1) <=> k + 1 \in s
    <3>1. k \in ShiftRight(s, 1) => k + 1 \in s
      BY <2>1 DEF ShiftRight
    <3>2. k + 1 \in s => k \in ShiftRight(s, 1)
      <4>1. k + 1 >= 1 /\ k + 1 - 1 = k
        OBVIOUS
      <4> QED
        BY <4>1 DEF ShiftRight
    <3> QED
      BY <3>1, <3>2
  <2> QED
    BY <2>2, <2>3
<1>2. ASSUME NEW n \in Nat, \A m \in Nat : m < n => m \in T PROVE n \in T
  <2> SUFFICES ASSUME NEW s \in SUBSET (0..29), Number(s) <= n
               PROVE  Number(s) = 2 * Number(ShiftRight(s, 1)) + IF 0 \in s THEN 1 ELSE 0
    OBVIOUS
  <2>1. CASE s = {}
    <3>1. ShiftRight(s, 1) = {}
      BY <2>1 DEF ShiftRight
    <3> QED
      BY <2>1, <3>1, NumberFacts
  <2>2. CASE s # {}
    <3>1. PICK x \in s : TRUE
      BY <2>2
    <3>2. PICK a \in SUBSET (0..29) : a = s \ {x}
      OBVIOUS
    <3>3. PICK p \in Nat \ {0} : p = Pow[x]
      BY Powers
    <3>4. Number(s) = p + Number(a) /\ Number(a) \in Nat /\ Number(s) \in Nat
      BY <3>2, <3>3, NumberFacts
    <3>5. Number(a) < n /\ Number(a) \in T
      BY <1>2, <3>3, <3>4
    <3>6. Number(a) = 2 * Number(ShiftRight(a, 1)) + IF 0 \in a THEN 1 ELSE 0
      BY <3>4, <3>5
    <3>7. PICK r, q : r = ShiftRight(s, 1) /\ q = ShiftRight(a, 1)
      OBVIOUS
    <3>8. r \in SUBSET (0..28) /\ q \in SUBSET (0..28) /\ Number(q) \in Nat
          /\ (\A k \in 0..28 : k \in r <=> k + 1 \in s)
          /\ (\A k \in 0..28 : k \in q <=> k + 1 \in a)
      <4>1. r \in SUBSET (0..28) /\ q \in SUBSET (0..28)
        BY <1>1, <3>7
      <4>2. q \in SUBSET (0..29)
        BY <4>1
      <4> QED
        BY <1>1, <3>7, <4>1, <4>2, NumberFacts
    <3>9. \A k \in 0..28 : k \in q <=> k \in r /\ k + 1 # x
      <4>1. \A y : y \in a <=> y \in s /\ y # x
        BY <3>2
      <4> QED
        BY <3>8, <4>1
    <3>10. CASE x = 0
      <4>1. r = q
        <5>1. \A k \in 0..28 : k \in q <=> k \in r
          BY <3>9, <3>10
        <5>2. \A k \in r : k \in q
          BY <3>8, <5>1
        <5>3. \A k \in q : k \in r
          BY <3>8, <5>1
        <5> QED
          BY <5>2, <5>3
      <4>2. 0 \in s /\ 0 \notin a /\ p = 1
        BY <3>1, <3>2, <3>3, <3>10, Powers
      <4> QED
        BY <3>4, <3>6, <3>7, <3>8, <4>1, <4>2
    <3>11. CASE x # 0
      <4>1. x - 1 \in 0..28
        BY <3>1, <3>11
      <4>2. q = r \ {x - 1} /\ x - 1 \in r
        <5>1. \A k \in 0..28 : k + 1 = x <=> k = x - 1
          BY <4>1
        <5>2. \A k \in r : k # x - 1 => k \in q
          BY <3>8, <3>9, <5>1
        <5>3. \A k \in q : k \in r /\ k # x - 1
          BY <3>8, <3>9, <5>1
        <5>4. x - 1 \in r
          <6>1. x - 1 + 1 = x
            BY <4>1
          <6> QED
            BY <3>1, <3>8, <4>1, <6>1
        <5> QED
          BY <5>2, <5>3, <5>4
      <4>3. r \in SUBSET (0..29)
        BY <3>8
      <4>4. Number(r) = Pow[x - 1] + Number(q)
        BY <4>2, <4>3, NumberFacts
      <4>5. PICK h \in Nat : h = Pow[x - 1] /\ p = 2 * h
        <5>1. x - 1 \in 0..29 /\ x - 1 \in 0..30 /\ x - 1 + 1 = x
          BY <4>1
        <5> QED
          BY <3>3, <5>1, Powers
      <4>6. 0 \in s <=> 0 \in a
        BY <3>2, <3>11
      <4> QED
        BY <3>4, <3>6, <3>7, <3>8, <4>4, <4>5, <4>6
    <3> QED
      BY <3>10, <3>11
  <2> QED
    BY <2>1, <2>2
<1>3. \A n \in Nat : n \in T
  <2> HIDE DEF T
  <2> QED
    BY <1>2, FromAllBelow
<1>4. Number(set) \in Nat
  BY NumberFacts
<1> QED
  BY <1>1, <1>3, <1>4

\* A quotient is the number that leaves a remainder below the divisor.
LEMMA DivIs ==
  ASSUME NEW b \in Nat \ {0}, NEW q \in Nat, NEW r \in Nat, r < b
  PROVE  (b * q + r) \div b = q
<1>1. PICK a \in Nat : a = b * q + r
  OBVIOUS
<1>2. PICK u \in Nat, v \in Nat : u = a \div b /\ v < b /\ a = b * u + v
  <2>1. /\ a \div b \in Nat /\ a % b \in Nat /\ a % b < b
        /\ a = (a \div b) * b + (a % b)
    BY <1>1, DivFacts
  <2>2. PICK u \in Nat, v \in Nat : u = a \div b /\ v = a % b
    BY <2>1
  <2>3. u * b = b * u
    OBVIOUS
  <2> QED
    BY <2>1, <2>2, <2>3
<1>3. ~(u < q)
  <2> SUFFICES ASSUME u < q PROVE FALSE
    OBVIOUS
  <2>1. PICK d \in Nat : q = u + 1 + d
    <3>1. q - u - 1 \in Nat /\ q = u + 1 + (q - u - 1)
      OBVIOUS
    <3> QED
      BY <3>1
  <2>2. b * q = b * u + b + b * d /\ b * d \in Nat /\ b * u \in Nat
    BY <2>1
  <2> QED
    BY <1>1, <1>2, <2>2
<1>4. ~(q < u)
  <2> SUFFICES ASSUME q < u PROVE FALSE
    OBVIOUS
  <2>1. PICK d \in Nat : u = q + 1 + d
    <3>1. u - q - 1 \in Nat /\ u = q + 1 + (u - q - 1)
      OBVIOUS
    <3> QED
      BY <3>1
  <2>2. b * u = b * q + b + b * d /\ b * d \in Nat /\ b * q \in Nat
    BY <2>1
  <2> QED
    BY <1>1, <1>2, <2>2
<1> QED
  BY <1>1, <1>2, <1>3, <1>4

\* Twice a number divides as half of what is divided does.
LEMMA DivTwice ==
  ASSUME NEW n \in Nat, NEW b \in Nat \ {0}
  PROVE  (n \div 2) \div b = n \div (2 * b)
<1>1. PICK h \in Nat, e \in {0, 1} : h = n \div 2 /\ n = 2 * h + e
  OBVIOUS
<1>2. PICK q \in Nat, r \in Nat : q = h \div b /\ r < b /\ h = b * q + r
  <2>1. /\ h \div b \in Nat /\ h % b \in Nat /\ h % b < b
        /\ h = (h \div b) * b + (h % b)
    BY DivFacts
  <2>2. PICK q \in Nat, r \in Nat : q = h \div b /\ r = h % b
    BY <2>1
  <2>3. q * b = b * q
    OBVIOUS
  <2> QED
    BY <2>1, <2>2, <2>3
<1>3. n = (2 * b) * q + (2 * r + e)
  <2>1. PICK m \in Nat : m = b * q /\ (2 * b) * q = 2 * m
    OBVIOUS
  <2> QED
    BY <1>1, <1>2, <2>1
<1>4. 2 * b \in Nat \ {0} /\ 2 * r + e \in Nat /\ 2 * r + e < 2 * b
  BY <1>2
<1>5. n \div (2 * b) = q
  BY <1>3, <1>4, DivIs
<1> QED
  BY <1>1, <1>2, <1>5

\* The bits of a number: the lowest is its remainder, the others are those of its half.
LEMMA BitsHalves ==
  ASSUME NEW n \in Nat
  PROVE  /\ Bits(n) \subseteq 0..30
         /\ 0 \in Bits(n) <=> n % 2 = 1
         /\ \A k \in 0..29 : k + 1 \in Bits(n) <=> k \in Bits(n \div 2)
<1>1. \A k \in 0..30 : k \in Bits(n) <=> (n \div Pow[k]) % 2 = 1
  BY Powers DEF Bits
<1>2. n \div 2 \in Nat
  OBVIOUS
<1>3. \A k \in 0..30 : k \in Bits(n \div 2) <=> ((n \div 2) \div Pow[k]) % 2 = 1
  BY Powers DEF Bits
<1>4. ASSUME NEW k \in 0..29 PROVE k + 1 \in Bits(n) <=> k \in Bits(n \div 2)
  <2>1. PICK p \in Nat \ {0} : p = Pow[k] /\ Pow[k + 1] = 2 * p
    <3>1. k \in 0..30
      OBVIOUS
    <3> QED
      BY <3>1, Powers
  <2>2. (n \div 2) \div p = n \div (2 * p)
    BY DivTwice
  <2>3. k \in 0..30 /\ k + 1 \in 0..30
    OBVIOUS
  <2> QED
    BY <1>1, <1>3, <2>1, <2>2, <2>3
<1>5. 0 \in Bits(n) <=> n % 2 = 1
  <2>1. n \div 1 = n /\ Pow[0] = 1 /\ 0 \in 0..30
    BY Powers
  <2> QED
    BY <1>1, <2>1
<1> QED
  BY <1>4, <1>5 DEF Bits

\* The bits of the number of up to 30 bits are these bits.
LEMMA BitsOfNumber == ASSUME NEW set \in SUBSET (0..29) PROVE Bits(Number(set)) = set
<1> DEFINE T == {k \in Nat : k <= 30 => \A s \in SUBSET (0..29) :
                   k \in Bits(Number(s)) <=> k \in s}
<1>1. ASSUME NEW s \in SUBSET (0..29)
      PROVE  \E half \in SUBSET (0..29) :
               /\ Number(s) \in Nat /\ Number(half) = Number(s) \div 2
               /\ Number(s) % 2 = 1 <=> 0 \in s
               /\ \A k \in 0..29 : k \in half <=> k + 1 \in s
  <2>1. PICK half : half = ShiftRight(s, 1)
    OBVIOUS
  <2>2. /\ half \in SUBSET (0..28)
        /\ Number(s) = 2 * Number(half) + IF 0 \in s THEN 1 ELSE 0
    BY <2>1, NumberHalves
  <2>3. half \in SUBSET (0..29)
    BY <2>2
  <2>4. PICK h \in Nat : h = Number(half)
    BY <2>3, NumberFacts
  <2>5. Number(s) \in Nat /\ h = Number(s) \div 2 /\ (Number(s) % 2 = 1 <=> 0 \in s)
    BY <2>2, <2>4
  <2>6. ASSUME NEW k \in 0..29 PROVE k \in half <=> k + 1 \in s
    <3>1. k \in half => k + 1 \in s
      BY <2>1 DEF ShiftRight
    <3>2. k + 1 \in s => k \in half
      <4>1. k + 1 >= 1 /\ k + 1 - 1 = k
        OBVIOUS
      <4> QED
        BY <2>1, <4>1 DEF ShiftRight
    <3> QED
      BY <3>1, <3>2
  <2> QED
    BY <2>3, <2>4, <2>5, <2>6
<1>2. 0 \in T
  <2>1. ASSUME NEW s \in SUBSET (0..29) PROVE 0 \in Bits(Number(s)) <=> 0 \in s
    BY <1>1, BitsHalves
  <2> QED
    BY <2>1
<1>3. ASSUME NEW k \in Nat, k \in T PROVE k + 1 \in T
  <2> SUFFICES ASSUME k + 1 <= 30, NEW s \in SUBSET (0..29)
               PROVE  k + 1 \in Bits(Number(s)) <=> k + 1 \in s
    OBVIOUS
  <2>1. PICK half \in SUBSET (0..29) :
               /\ Number(s) \in Nat /\ Number(half) = Number(s) \div 2
               /\ \A j \in 0..29 : j \in half <=> j + 1 \in s
    BY <1>1
  <2>2. k \in 0..29 /\ k <= 30
    OBVIOUS
  <2>3. k + 1 \in Bits(Number(s)) <=> k \in Bits(Number(half))
    BY <2>1, <2>2, BitsHalves
  <2>4. k \in Bits(Number(half)) <=> k \in half
    BY <1>3, <2>2
  <2> QED
    BY <2>1, <2>2, <2>3, <2>4
<1>4. \A k \in 0..30 : k \in T
  <2> HIDE DEF T
  <2>1. Nat \subseteq T
    BY <1>2, <1>3, Upwards
  <2> QED
    BY <2>1
<1>5. \A k \in 0..30 : k \in Bits(Number(set)) <=> k \in set
  BY <1>4
<1>6. Bits(Number(set)) \subseteq 0..30 /\ set \subseteq 0..30
  BY DEF Bits
<1> QED
  BY <1>5, <1>6

\* A number below 2^k has k bits.
LEMMA BitsBelow ==
  ASSUME NEW k \in 0..30, NEW n \in Nat, n < Pow[k]
  PROVE  Bits(n) \in SUBSET (0..k - 1)
<1> DEFINE T == {j \in Nat : j <= 30 => \A m \in Nat : m < Pow[j] => Bits(m) \subseteq 0..j - 1}
<1>1. 0 \in T
  <2>1. ASSUME NEW m \in Nat, m < Pow[0] PROVE Bits(m) \subseteq 0..0 - 1
    <3>1. m = 0
      BY <2>1, Powers
    <3>2. \A p \in Nat \ {0} : 0 \div p = 0
      OBVIOUS
    <3>3. \A j \in 0..30 : 2^j \in Nat \ {0}
      BY Powers
    <3>4. ASSUME NEW j \in 0..30 PROVE j \notin Bits(m)
      <4>1. PICK p \in Nat \ {0} : p = 2^j
        BY <3>3
      <4>2. (m \div p) % 2 = 0
        BY <3>1, <3>2
      <4> QED
        BY <4>1, <4>2 DEF Bits
    <3>5. Bits(m) \subseteq 0..30
      BY BitsHalves
    <3> QED
      BY <3>4, <3>5
  <2> QED
    BY <2>1
<1>2. ASSUME NEW j \in Nat, j \in T PROVE j + 1 \in T
  <2> SUFFICES ASSUME j + 1 <= 30, NEW m \in Nat, m < Pow[j + 1], NEW b \in Bits(m)
               PROVE  b \in 0..j + 1 - 1
    OBVIOUS
  <2>1. PICK p \in Nat : p = Pow[j] /\ Pow[j + 1] = 2 * p
    <3>1. j \in 0..29 /\ j \in 0..30
      OBVIOUS
    <3> QED
      BY <3>1, Powers
  <2>2. m \div 2 \in Nat /\ m \div 2 < p
    BY <2>1
  <2>3. Bits(m \div 2) \subseteq 0..j - 1
    BY <1>2, <2>1, <2>2
  <2>4. b \in 0..30
    BY BitsHalves
  <2>5. b # 0 => b - 1 \in 0..29 /\ b - 1 + 1 = b
    BY <2>4
  <2>6. b # 0 => b - 1 \in Bits(m \div 2)
    BY <2>5, BitsHalves
  <2> QED
    BY <2>3, <2>4, <2>6
<1>3. k \in T
  <2> HIDE DEF T
  <2> QED
    BY <1>1, <1>2, Upwards
<1> QED
  BY <1>3

\* The number of the bits of a number is this number.
LEMMA NumberOfBits ==
  ASSUME NEW number \in Nat, number < Pow[30]
  PROVE  Bits(number) \in SUBSET (0..29) /\ Number(Bits(number)) = number
<1> DEFINE T == {n \in Nat : n < Pow[30] => Number(Bits(n)) = n}
<1>1. ASSUME NEW n \in Nat, n < Pow[30] PROVE Bits(n) \in SUBSET (0..29)
  <2>1. 30 \in 0..30 /\ 30 - 1 = 29
    OBVIOUS
  <2> QED
    BY <1>1, <2>1, BitsBelow
<1>2. ASSUME NEW n \in Nat, \A m \in Nat : m < n => m \in T PROVE n \in T
  <2> SUFFICES ASSUME n < Pow[30] PROVE Number(Bits(n)) = n
    OBVIOUS
  <2>1. PICK h \in Nat, e \in {0, 1} : h = n \div 2 /\ n = 2 * h + e /\ e = n % 2
    OBVIOUS
  <2>2. h < Pow[29] /\ h < Pow[30]
    <3>1. 29 \in 0..29 /\ 29 \in 0..30 /\ 29 + 1 = 30
      OBVIOUS
    <3>2. PICK p \in Nat : p = Pow[29] /\ Pow[30] = 2 * p
      BY <3>1, Powers
    <3> QED
      BY <2>1, <3>2
  <2>3. PICK bits \in SUBSET (0..29) : bits = Bits(n)
    BY <1>1
  <2>4. Bits(h) \in SUBSET (0..28)
    <3>1. 29 \in 0..30 /\ 29 - 1 = 28
      OBVIOUS
    <3> QED
      BY <2>2, <3>1, BitsBelow
  <2>5. (\A k \in 0..29 : k + 1 \in bits <=> k \in Bits(h)) /\ (0 \in bits <=> e = 1)
    BY <2>1, <2>3, BitsHalves
  <2>6. ShiftRight(bits, 1) = Bits(h)
    <3>1. ASSUME NEW b \in bits, b >= 1 PROVE b - 1 \in Bits(h)
      <4>1. b - 1 \in 0..29 /\ b - 1 + 1 = b
        BY <3>1
      <4> QED
        BY <2>5, <4>1
    <3>2. ASSUME NEW k \in Bits(h) PROVE k + 1 \in bits /\ k + 1 >= 1 /\ k + 1 - 1 = k
      <4>1. k \in 0..29
        BY <2>4
      <4> QED
        BY <2>5, <4>1
    <3>3. PICK r : r = ShiftRight(bits, 1)
      OBVIOUS
    <3>4. r \subseteq Bits(h)
      BY <3>1, <3>3 DEF ShiftRight
    <3>5. ASSUME NEW k \in Bits(h) PROVE k \in r
      <4>1. k \in 0..29 /\ k + 1 \in bits
        BY <2>4, <3>2
      <4>2. PICK b \in bits : b = k + 1
        BY <4>1
      <4> QED
        BY <3>3, <4>1, <4>2 DEF ShiftRight
    <3> QED
      BY <3>3, <3>4, <3>5
  <2>7. CASE n = 0
    <3>1. Bits(n) = {}
      <4>1. n < Pow[0] /\ 0 \in 0..30
        BY <2>7, Powers
      <4>2. Bits(n) \in SUBSET (0..0 - 1)
        BY <4>1, BitsBelow
      <4> QED
        BY <4>2
    <3> QED
      BY <2>7, <3>1, NumberFacts
  <2>8. CASE n # 0
    <3>1. h < n
      BY <2>1, <2>8
    <3>2. Number(Bits(h)) = h
      BY <1>2, <2>2, <3>1
    <3>3. Number(bits) = 2 * Number(Bits(h)) + IF 0 \in bits THEN 1 ELSE 0
      BY <2>6, NumberHalves
    <3> QED
      BY <2>1, <2>3, <2>5, <3>2, <3>3
  <2> QED
    BY <2>7, <2>8
<1>3. \A n \in Nat : n \in T
  <2> HIDE DEF T
  <2> QED
    BY <1>2, FromAllBelow
<1> QED
  BY <1>1, <1>3

-----------------------------------------------------------------------------
(* Bytes in a stream. *)

\* A set of numbers up to a bound that is not empty has a greatest member.
LEMMA MaxFacts ==
  ASSUME NEW n \in Nat, NEW T \in SUBSET (0..n), T # {}
  PROVE  Max(T) \in T /\ \A k \in T : k <= Max(T)
<1> DEFINE U == {n - k : k \in T}
<1>1. U \subseteq Nat /\ U # {}
  <2>1. ASSUME NEW k \in T PROVE n - k \in Nat
    <3>1. k \in 0..n
      OBVIOUS
    <3> QED
      BY <3>1
  <2> QED
    BY <2>1
<1>2. PICK u \in U : \A v \in U : u <= v
  <2> HIDE DEF U
  <2> QED
    BY <1>1, Least
<1>3. PICK m \in T : u = n - m
  BY <1>2
<1>4. ASSUME NEW k \in T PROVE k <= m
  <2>1. n - m <= n - k
    BY <1>2, <1>3
  <2>2. k \in 0..n /\ m \in 0..n
    OBVIOUS
  <2> QED
    BY <2>1, <2>2
<1>5. \E x \in T : \A y \in T : x >= y
  BY <1>4
<1>6. Max(T) \in T /\ \A k \in T : Max(T) >= k
  BY <1>5 DEF Max
<1>7. \A k \in T : k \in Nat
  OBVIOUS
<1> QED
  BY <1>6, <1>7

\* Some bytes before others in a stream: they are its beginning, the others are left after it.
LEMMA Ahead ==
  ASSUME NEW e \in Seq(Octet), NEW rest \in Seq(Octet)
  PROVE  /\ e \o rest \in Seq(Octet)
         /\ Len(e \o rest) = Len(e) + Len(rest)
         /\ SubSeq(e \o rest, 1, Len(e)) = e
         /\ Drop(e \o rest, Len(e)) = rest
         /\ \A k \in 1..Len(e) : (e \o rest)[k] = e[k]
<1>1. PICK s : s = e \o rest
  OBVIOUS
<1>2. PICK n \in Nat, m \in Nat : n = Len(e) /\ m = Len(rest)
  OBVIOUS
<1>3. /\ s \in Seq(Octet) /\ Len(s) = n + m
      /\ \A k \in 1..n : s[k] = e[k]
      /\ \A k \in 1..m : s[n + k] = rest[k]
  BY <1>1, <1>2, ConcatFacts
<1>4. SubSeq(s, 1, n) = e
  <2>1. PICK a : a = SubSeq(s, 1, n)
    OBVIOUS
  <2>2. a \in Seq(Octet) /\ Len(a) = n /\ \A k \in 1..n : a[k] = s[k]
    BY <1>3, <2>1, SubSeqProperties
  <2> QED
    BY <1>2, <1>3, <2>1, <2>2
<1>5. SubSeq(s, n + 1, n + m) = rest
  <2>1. PICK a : a = SubSeq(s, n + 1, n + m)
    OBVIOUS
  <2>2. a \in Seq(Octet) /\ Len(a) = m /\ \A k \in 1..m : a[k] = s[n + 1 + k - 1]
    <3>1. PICK i \in Nat, l \in Nat : i = n + 1 /\ l = n + m
      OBVIOUS
    <3>2. \A k \in i..l : s[k] \in Octet
      BY <1>3, <3>1
    <3>3. /\ a \in Seq(Octet) /\ Len(a) = IF i <= l THEN l - i + 1 ELSE 0
          /\ \A k \in 1..l - i + 1 : a[k] = s[i + k - 1]
      BY <2>1, <3>1, <3>2, SubSeqProperties
    <3>4. l - i + 1 = m /\ (i <= l \/ m = 0)
      BY <3>1
    <3> QED
      BY <3>1, <3>3, <3>4
  <2>3. \A k \in 1..m : n + 1 + k - 1 = n + k
    OBVIOUS
  <2>4. \A k \in 1..m : a[k] = rest[k]
    BY <1>3, <2>2, <2>3
  <2>5. a = rest
    BY <1>2, <2>2, <2>4
  <2> QED
    BY <2>1, <2>5
<1> QED
  BY <1>1, <1>2, <1>3, <1>4, <1>5 DEF Drop

\* The table of the bits of a byte.
LEMMA ByteBitsFacts == \A b \in Octet : ByteBits[b] = Bits(b)
<1>1. \A b \in Octet : b \in 0..255
  BY DEF Octet
<1> QED
  BY <1>1 DEF ByteBits

\* Bits n * width and following, width of them, as the number that stands for them in a byte.
LEMMA GroupFacts ==
  ASSUME NEW bits \in SUBSET Nat, NEW n \in Nat, NEW width \in {7, 8}
  PROVE  /\ Group(bits, n, width) \in Nat /\ Group(bits, n, width) < Pow[width]
         /\ Bits(Group(bits, n, width)) \in SUBSET (0..width - 1)
         /\ \A j \in 0..width - 1 : j \in Bits(Group(bits, n, width)) <=> j + n * width \in bits
<1>1. PICK start \in Nat : start = n * width
  OBVIOUS
<1>2. PICK group : group = Low(ShiftRight(bits, start), width)
  OBVIOUS
<1>3. group \in SUBSET (0..width - 1) /\ group \in SUBSET (0..29)
  BY <1>2 DEF Low
<1>4. ASSUME NEW j \in 0..width - 1 PROVE j \in group <=> j + start \in bits
  <2>1. j \in group => j + start \in bits
    <3> SUFFICES ASSUME j \in group PROVE j + start \in bits
      OBVIOUS
    <3>1. PICK b \in bits : b >= start /\ j = b - start
      BY <1>2 DEF Low, ShiftRight
    <3>2. j + start = b
      BY <3>1
    <3> QED
      BY <3>2
  <2>2. j + start \in bits => j \in group
    <3> SUFFICES ASSUME j + start \in bits PROVE j \in group
      OBVIOUS
    <3>1. PICK b \in bits : b = j + start
      OBVIOUS
    <3>2. b >= start /\ j = b - start
      BY <3>1
    <3> QED
      BY <1>2, <3>2 DEF Low, ShiftRight
  <2> QED
    BY <2>1, <2>2
<1>5. Group(bits, n, width) = Number(group)
  BY <1>1, <1>2 DEF Group
<1>6. Number(group) \in Nat /\ Number(group) < Pow[width] /\ Bits(Number(group)) = group
  BY <1>3, NumberBelow, BitsOfNumber
<1> QED
  BY <1>1, <1>3, <1>4, <1>5, <1>6

\* The bits of n groups, each moved back to its place.
Ungrouped(group, n, width) == UNION {ShiftLeft(Bits(group[k]), width * (k - 1)) : k \in 1..n}

\* The bits of an integer below another one.
Below(bits, limit) == {b \in bits : b < limit}

\* These are those of the bits that were grouped, as far as the groups go.
LEMMA GroupsJoined ==
  ASSUME NEW bits \in SUBSET Nat, NEW n \in Nat, NEW width \in {7, 8},
         NEW group \in [1..n -> Nat],
         \A k \in 1..n : group[k] = Group(bits, k - 1, width)
  PROVE  Ungrouped(group, n, width) = Below(bits, width * n)
<1>1. ASSUME NEW k \in 1..n
      PROVE  /\ \A j \in Bits(group[k]) : j + width * (k - 1) \in bits
             /\ \A j \in 0..width - 1 : j + width * (k - 1) \in bits => j \in Bits(group[k])
             /\ Bits(group[k]) \subseteq 0..width - 1
  <2>1. PICK m \in Nat : m = k - 1
    OBVIOUS
  <2>2. PICK g : g = Group(bits, m, width)
    OBVIOUS
  <2>3. /\ Bits(g) \in SUBSET (0..width - 1)
        /\ \A j \in 0..width - 1 : j \in Bits(g) <=> j + m * width \in bits
    BY <2>2, GroupFacts
  <2>4. m * width = width * (k - 1) /\ group[k] = g
    BY <2>1, <2>2
  <2> QED
    BY <2>3, <2>4
<1>2. PICK G : G = [k \in 1..n |-> ShiftLeft(Bits(group[k]), width * (k - 1))]
  OBVIOUS
<1>3. ASSUME NEW k \in 1..n, NEW b \in G[k] PROVE b \in bits /\ b < width * n
  <2>1. PICK j \in Bits(group[k]) : b = j + width * (k - 1)
    BY <1>2 DEF ShiftLeft
  <2>2. b \in bits /\ j \in 0..width - 1
    BY <1>1, <2>1
  <2>3. PICK m \in Nat : m = k - 1 /\ m + 1 <= n
    OBVIOUS
  <2>4. width * (m + 1) <= width * n
    BY <2>3
  <2> QED
    BY <2>1, <2>2, <2>3, <2>4
<1>4. ASSUME NEW b \in bits, b < width * n PROVE \E k \in 1..n : b \in G[k]
  <2>1. PICK q \in Nat, r \in Nat : r < width /\ b = width * q + r
    <3>1. b \div width \in Nat /\ b % width \in Nat /\ b % width < width
          /\ b = (b \div width) * width + (b % width)
      BY DivFacts
    <3>2. PICK q \in Nat, r \in Nat : q = b \div width /\ r = b % width
      BY <3>1
    <3>3. q * width = width * q
      OBVIOUS
    <3> QED
      BY <3>1, <3>2, <3>3
  <2>2. q < n
    <3>1. width * q < width * n
      <4>1. PICK x \in Nat, y \in Nat : x = width * q /\ y = width * n
        OBVIOUS
      <4>2. x <= b /\ b < y /\ b \in Nat
        BY <1>4, <2>1, <4>1
      <4> QED
        BY <4>1, <4>2
    <3> QED
      BY <3>1
  <2>3. PICK k \in 1..n : k = q + 1
    BY <2>2
  <2>4. r \in 0..width - 1 /\ b = r + width * (k - 1)
    BY <2>1, <2>3
  <2>5. r \in Bits(group[k])
    BY <1>1, <2>4
  <2>6. b \in G[k]
    BY <1>2, <2>4, <2>5 DEF ShiftLeft
  <2> QED
    BY <2>6
<1>5. Ungrouped(group, n, width) = UNION {G[k] : k \in 1..n}
  BY <1>2 DEF Ungrouped
<1>6. UNION {G[k] : k \in 1..n} = {b \in bits : b < width * n}
  <2>1. PICK U : U = UNION {G[k] : k \in 1..n}
    OBVIOUS
  <2>2. ASSUME NEW b \in U PROVE b \in bits /\ b < width * n
    BY <1>3, <2>1
  <2>3. ASSUME NEW b \in bits, b < width * n PROVE b \in U
    BY <1>4, <2>1, <2>3
  <2>4. U = {b \in bits : b < width * n}
    BY <2>2, <2>3
  <2> QED
    BY <2>1, <2>4
<1> QED
  BY <1>5, <1>6 DEF Below

-----------------------------------------------------------------------------
(* Varints. *)

\* e is a varint of n bytes that holds bits.
IsVarint(e, n, bits) ==
  /\ e \in Seq(Octet) /\ Len(e) = n
  /\ \A k \in 1..n : e[k] = Group(bits, k - 1, 7) + IF k < n THEN 128 ELSE 0
  /\ \A b \in bits : b < 7 * n
  /\ n = 1 \/ \E b \in bits : 7 * (n - 1) <= b

\* pb_encode_varint() writes such a varint, of ten bytes at most, no longer than the bits need.
LEMMA VarintWritten ==
  ASSUME NEW bits \in SUBSET (0..63)
  PROVE  \E n \in 1..10 : IsVarint(pb_encode_varint(bits), n, bits)
<1>1. PICK n \in 1..10 : /\ n = IF bits = {} THEN 1 ELSE Max(bits) \div 7 + 1
                         /\ \A b \in bits : b < 7 * n
                         /\ n = 1 \/ \E b \in bits : 7 * (n - 1) <= b
  <2>1. CASE bits = {}
    BY <2>1
  <2>2. CASE bits # {}
    <3>1. PICK m \in bits : m = Max(bits) /\ \A b \in bits : b <= m
      BY <2>2, MaxFacts
    <3>2. m \in 0..63
      OBVIOUS
    <3>3. PICK q \in 0..9, r \in 0..6 : q = m \div 7 /\ m = 7 * q + r
      BY <3>2
    <3>4. PICK n \in 1..10 : n = q + 1
      BY <3>3
    <3>5. \A b \in bits : b \in 0..63
      OBVIOUS
    <3>6. n = Max(bits) \div 7 + 1
      BY <3>1, <3>3, <3>4
    <3>7. 7 * (n - 1) <= m /\ m < 7 * n
      BY <3>3, <3>4
    <3>8. \A b \in bits : b < 7 * n
      BY <3>1, <3>2, <3>5, <3>7
    <3> QED
      BY <2>2, <3>6, <3>7, <3>8
  <2> QED
    BY <2>1, <2>2
<1>2. PICK e : e = [k \in 1..n |-> Group(bits, k - 1, 7) + IF k < n THEN 128 ELSE 0]
  OBVIOUS
<1>3. ASSUME NEW k \in 1..n
      PROVE  Group(bits, k - 1, 7) + (IF k < n THEN 128 ELSE 0) \in Octet
  <2>1. PICK m \in Nat : m = k - 1
    OBVIOUS
  <2>2. Group(bits, m, 7) \in Nat /\ Group(bits, m, 7) < Pow[7]
    <3>1. bits \in SUBSET Nat /\ 7 \in {7, 8}
      OBVIOUS
    <3> QED
      BY <3>1, GroupFacts
  <2>3. Pow[7] = 128
    BY DEF Pow
  <2> QED
    BY <2>1, <2>2, <2>3 DEF Octet
<1>4. e \in [1..n -> Octet]
  BY <1>2, <1>3
<1>5. e \in Seq(Octet) /\ Len(e) = n
  BY <1>4
<1>6. e = pb_encode_varint(bits)
  BY <1>1, <1>2 DEF pb_encode_varint
<1>7. \A k \in 1..n : e[k] = Group(bits, k - 1, 7) + IF k < n THEN 128 ELSE 0
  BY <1>2
<1> QED
  BY <1>1, <1>5, <1>6, <1>7 DEF IsVarint

\* One byte of a varint: seven bits, and whether it is the last.
LEMMA VarintByte ==
  ASSUME NEW bits \in SUBSET Nat, NEW n \in 1..10, NEW e, IsVarint(e, n, bits), NEW k \in 1..n
  PROVE  /\ e[k] \in Octet /\ e[k] % 128 \in Octet /\ e[k] % 128 = Group(bits, k - 1, 7)
         /\ e[k] < 128 <=> k = n
<1>1. PICK m \in Nat : m = k - 1
  OBVIOUS
<1>2. PICK g \in Nat : g = Group(bits, m, 7) /\ g < 128
  <2>1. Pow[7] = 128
    BY DEF Pow
  <2>2. Group(bits, m, 7) \in Nat /\ Group(bits, m, 7) < Pow[7]
    BY GroupFacts
  <2> QED
    BY <2>1, <2>2
<1>3. e[k] = g + IF k < n THEN 128 ELSE 0
  BY <1>1, <1>2 DEF IsVarint
<1>4. PICK x \in Nat : x = e[k] /\ ((x = g + 128 /\ k # n) \/ (x = g /\ k = n))
  BY <1>2, <1>3
<1>5. x % 128 = g /\ (x < 128 <=> k = n) /\ x <= 255
  <2>1. g < 128
    BY <1>2
  <2> QED
    BY <1>4, <2>1
<1>6. x \in Octet /\ g \in Octet
  BY <1>2, <1>5, ByteFacts
<1> QED
  BY <1>1, <1>2, <1>4, <1>5, <1>6

\* The bits in its first bytes.
LEMMA VarintPrefix ==
  ASSUME NEW bits \in SUBSET Nat, NEW n \in 1..10, NEW e, IsVarint(e, n, bits), NEW m \in 1..n
  PROVE  VarintBits(SubSeq(e, 1, m)) = Below(bits, 7 * m)
<1>1. PICK a : a = SubSeq(e, 1, m)
  OBVIOUS
<1>2. a \in Seq(Octet) /\ Len(a) = m /\ \A k \in 1..m : a[k] = e[k]
  <2>1. e \in Seq(Octet) /\ Len(e) = n
    BY DEF IsVarint
  <2> QED
    BY <1>1, <2>1, SubSeqProperties
<1>3. \A k \in 1..m : a[k] % 128 \in Octet /\ a[k] % 128 = Group(bits, k - 1, 7)
  <2>1. ASSUME NEW k \in 1..m
        PROVE  a[k] % 128 \in Octet /\ a[k] % 128 = Group(bits, k - 1, 7)
    <3>1. k \in 1..n
      OBVIOUS
    <3>2. e[k] % 128 \in Octet /\ e[k] % 128 = Group(bits, k - 1, 7)
      BY <3>1, VarintByte
    <3> QED
      BY <1>2, <3>2
  <2> QED
    BY <2>1
<1>4. PICK group : group = [k \in 1..m |-> a[k] % 128]
  OBVIOUS
<1>5. group \in [1..m -> Nat] /\ \A k \in 1..m : group[k] = Group(bits, k - 1, 7)
  <2>1. \A k \in 1..m : a[k] % 128 \in Nat
    BY <1>3, ByteFacts
  <2> QED
    BY <1>3, <1>4, <2>1
<1>6. m \in Nat /\ 7 \in {7, 8}
  OBVIOUS
<1>7. Ungrouped(group, m, 7) = Below(bits, 7 * m)
  BY <1>5, <1>6, GroupsJoined
<1>8. \A k \in 1..m : ByteBits[a[k] % 128] = Bits(group[k])
  BY <1>3, <1>4, ByteBitsFacts
<1>9. DOMAIN a = 1..m
  BY <1>2
<1>10. VarintBits(a) = Ungrouped(group, m, 7)
  BY <1>8, <1>9 DEF VarintBits, Ungrouped
<1> QED
  BY <1>1, <1>7, <1>10

\* At the beginning of stream is a varint e of n bytes that holds bits, and rest is left after it.
Found(stream, e, n, bits, rest) ==
  /\ stream \in Seq(Octet) /\ Len(stream) = n + Len(rest)
  /\ VarintEnd(stream) = n
  /\ SubSeq(stream, 1, n) = e
  /\ VarintBits(e) = bits
  /\ Drop(stream, n) = rest
  /\ \A k \in 1..n : stream[k] = e[k]

\* A varint at the beginning of a stream is found there.
LEMMA VarintFound ==
  ASSUME NEW bits \in SUBSET Nat, NEW n \in 1..10, NEW e, NEW rest \in Seq(Octet),
         IsVarint(e, n, bits)
  PROVE  Found(e \o rest, e, n, bits, rest)
<1>1. PICK stream : stream = e \o rest
  OBVIOUS
<1>2. e \in Seq(Octet) /\ Len(e) = n
  BY DEF IsVarint
<1>3. /\ stream \in Seq(Octet) /\ Len(stream) = n + Len(rest) /\ SubSeq(stream, 1, n) = e
      /\ Drop(stream, n) = rest /\ \A k \in 1..n : stream[k] = e[k]
  BY <1>1, <1>2, Ahead
<1>4. ASSUME NEW k \in 1..n
      PROVE  e[k] \in Octet /\ (e[k] < 128 <=> k = n)
  <2>1. e[k] \in Octet
    BY <1>2, ElementOfSeq
  <2>2. e[k] < 128 <=> k = n
    BY VarintByte
  <2> QED
    BY <2>1, <2>2
<1>5. VarintEnd(stream) = n
  <2>1. PICK ends : ends = {k \in DOMAIN stream : stream[k] < 128}
    OBVIOUS
  <2>2. DOMAIN stream = 1..n + Len(rest)
    BY <1>3
  <2>3. n \in ends
    BY <1>3, <1>4, <2>1, <2>2
  <2>4. ASSUME NEW k \in ends PROVE k \in Nat /\ n <= k
    <3>1. k \in Nat /\ k >= 1 /\ stream[k] < 128
      BY <2>1, <2>2
    <3>2. CASE k <= n
      BY <1>3, <1>4, <3>1, <3>2
    <3> QED
      BY <3>1, <3>2
  <2>5. Min(ends) = n
    <3>1. ends \subseteq Nat /\ ends # {}
      BY <2>3, <2>4
    <3>2. Min(ends) \in ends /\ Min(ends) <= n
      BY <2>3, <3>1, MinFacts
    <3> QED
      BY <2>4, <3>2
  <2> QED
    BY <2>1, <2>3, <2>5 DEF VarintEnd
<1>6. VarintBits(e) = bits
  <2>1. PICK m \in 1..n : m = n /\ SubSeq(e, 1, m) = e
    BY <1>2
  <2>2. VarintBits(SubSeq(e, 1, m)) = Below(bits, 7 * m)
    BY VarintPrefix
  <2>3. \A b \in bits : b < 7 * n
    BY DEF IsVarint
  <2> QED
    BY <2>1, <2>2, <2>3 DEF Below
<1> QED
  BY <1>1, <1>3, <1>5, <1>6 DEF Found

\* pb_decode_varint() reads back what pb_encode_varint() wrote, whatever 64 bits these are, and
\* leaves what is behind it.
LEMMA VarintRead ==
  ASSUME NEW bits \in SUBSET (0..63), NEW rest \in Seq(Octet)
  PROVE  pb_decode_varint(pb_encode_varint(bits) \o rest) = Value(bits, rest)
<1>1. PICK n \in 1..10 : IsVarint(pb_encode_varint(bits), n, bits)
  BY VarintWritten
<1>2. PICK e, stream : e = pb_encode_varint(bits) /\ stream = e \o rest
  OBVIOUS
<1>3. bits \in SUBSET Nat
  OBVIOUS
<1>4. /\ VarintEnd(stream) = n /\ SubSeq(stream, 1, n) = e
      /\ VarintBits(e) = bits /\ Drop(stream, n) = rest
  <2>1. IsVarint(e, n, bits)
    BY <1>1, <1>2
  <2>2. Found(e \o rest, e, n, bits, rest)
    BY <1>1, <1>3, <2>1, VarintFound
  <2> QED
    BY <1>2, <2>2 DEF Found
<1>5. Low(bits, 64) = bits
  <2>1. \A b \in bits : b \in 0..64-1
    OBVIOUS
  <2> QED
    BY <2>1 DEF Low
<1>6. pb_decode_varint(stream) = Value(bits, rest)
  BY <1>4, <1>5 DEF pb_decode_varint
<1> QED
  BY <1>2, <1>6

\* The fifth byte of a varint of five bytes is below 16 if the bits it holds are 32 at most.
LEMMA FifthByte ==
  ASSUME NEW bits \in SUBSET (0..31), NEW e, IsVarint(e, 5, bits)
  PROVE  e[5] < 16
<1>1. PICK g : g = Group(bits, 4, 7)
  OBVIOUS
<1>2. e[5] = g
  <2>1. 5 \in 1..5 /\ 5 - 1 = 4 /\ ~(5 < 5)
    OBVIOUS
  <2>2. e[5] = Group(bits, 5 - 1, 7) + IF 5 < 5 THEN 128 ELSE 0
    BY <2>1 DEF IsVarint
  <2>3. bits \in SUBSET Nat /\ 7 \in {7, 8}
    OBVIOUS
  <2>4. g \in Nat
    BY <1>1, <2>3, GroupFacts
  <2> QED
    BY <1>1, <2>1, <2>2, <2>4
<1>3. PICK group : group = Low(ShiftRight(bits, 4 * 7), 7)
  OBVIOUS
<1>4. group \in SUBSET (0..4 - 1)
  <2>1. ASSUME NEW j \in group PROVE j \in 0..4 - 1
    <3>1. PICK b \in bits : b >= 28 /\ j = b - 28
      BY <1>3 DEF Low, ShiftRight
    <3>2. b \in 0..31
      OBVIOUS
    <3> QED
      BY <3>1, <3>2
  <2> QED
    BY <2>1
<1>5. Pow[4] = 16 /\ 4 \in 0..30
  BY DEF Pow
<1>6. Number(group) < Pow[4]
  BY <1>4, <1>5, NumberBelow
<1> QED
  BY <1>1, <1>2, <1>3, <1>5, <1>6 DEF Group

\* pb_decode_varint32() reads back 32 bits.
LEMMA Varint32Read ==
  ASSUME NEW bits \in SUBSET (0..31), NEW rest \in Seq(Octet)
  PROVE  pb_decode_varint32(pb_encode_varint(bits) \o rest) = Value(bits, rest)
<1>1. PICK n \in 1..10 : IsVarint(pb_encode_varint(bits), n, bits)
  <2>1. bits \in SUBSET (0..63)
    OBVIOUS
  <2> QED
    BY <2>1, VarintWritten
<1>2. n \in 1..5
  <2>1. n = 1 \/ \E b \in bits : 7 * (n - 1) <= b
    BY <1>1 DEF IsVarint
  <2>2. \A b \in bits : b \in 0..31
    OBVIOUS
  <2> QED
    BY <2>1, <2>2
<1>3. PICK e, stream : e = pb_encode_varint(bits) /\ stream = e \o rest
  OBVIOUS
<1>4. bits \in SUBSET Nat
  OBVIOUS
<1>5. /\ VarintEnd(stream) = n /\ SubSeq(stream, 1, n) = e
      /\ VarintBits(e) = bits /\ Drop(stream, n) = rest /\ \A k \in 1..n : stream[k] = e[k]
  <2>1. IsVarint(e, n, bits)
    BY <1>1, <1>3
  <2>2. Found(e \o rest, e, n, bits, rest)
    BY <1>1, <1>4, <2>1, VarintFound
  <2> QED
    BY <1>3, <2>2 DEF Found
<1>6. Low(bits, 32) = bits
  <2>1. \A b \in bits : b \in 0..32-1
    OBVIOUS
  <2> QED
    BY <2>1 DEF Low
<1>7. n = 5 => stream[5] < 16
  BY <1>1, <1>3, <1>5, FifthByte
<1>8. e \in Seq(Octet) /\ Len(e) = n
  BY <1>1, <1>3 DEF IsVarint
<1>9. SubSeq(stream, 1, IF n < 5 THEN n ELSE 5) = e
  BY <1>2, <1>5
<1>10. n = 5 => ~(stream[5] >= 16)
  <2>1. \A k \in 1..n : stream[k] \in Octet
    BY <1>5, <1>8
  <2> QED
    BY <1>7, <2>1, ByteFacts
<1>11. 6..n = {} /\ n # 0
  BY <1>2
<1>12. pb_decode_varint32(stream) = Value(bits, rest)
  BY <1>5, <1>6, <1>9, <1>10, <1>11 DEF pb_decode_varint32
<1> QED
  BY <1>3, <1>12

\* One to 32 bits as 64: those of a number below zero go on up to bit 63.
LEMMA SignExtendedFacts ==
  ASSUME NEW bits \in SUBSET (0..31), 31 \in bits
  PROVE  /\ SignExtended(bits, 32) \in SUBSET (0..63)
         /\ Low(SignExtended(bits, 32), 32) = bits
         /\ \A b \in 31..63 : b \in SignExtended(bits, 32)
<1>1. PICK wide : wide = bits \union (32..63)
  OBVIOUS
<1>2. SignExtended(bits, 32) = wide
  <2>1. 32 - 1 = 31
    OBVIOUS
  <2> QED
    BY <1>1, <2>1 DEF SignExtended
<1>3. \A b \in bits : b \in 0..31
  OBVIOUS
<1>4. wide \in SUBSET (0..63)
  BY <1>1, <1>3
<1>5. Low(wide, 32) = bits
  <2>1. ASSUME NEW b \in wide, b \in 0..31 PROVE b \in bits
    BY <1>1, <2>1
  <2>2. 32 - 1 = 31
    OBVIOUS
  <2>3. \A b \in bits : b \in wide /\ b \in 0..31
    BY <1>1, <1>3
  <2> QED
    BY <2>1, <2>2, <2>3 DEF Low
<1>6. \A b \in 31..63 : b \in wide
  <2>1. \A b \in 31..63 : b = 31 \/ b \in 32..63
    OBVIOUS
  <2> QED
    BY <1>1, <2>1
<1> QED
  BY <1>2, <1>4, <1>5, <1>6

\* The number of all of seven bits.
LEMMA AllOfSeven == Number(0..6) = 127 /\ Number({0}) = 1
<1>1. \A b \in Nat, s \in SUBSET (0..29) : b \in s => Number(s) = Pow[b] + Number(s \ {b})
  BY NumberFacts
<1>2. /\ (0..6) \ {6} = 0..5 /\ (0..5) \ {5} = 0..4 /\ (0..4) \ {4} = 0..3
      /\ (0..3) \ {3} = 0..2 /\ (0..2) \ {2} = 0..1 /\ (0..1) \ {1} = {0} /\ {0} \ {0} = {}
  OBVIOUS
<1>3. Pow[0] = 1 /\ Pow[1] = 2 /\ Pow[2] = 4 /\ Pow[3] = 8 /\ Pow[4] = 16 /\ Pow[5] = 32
      /\ Pow[6] = 64
  BY DEF Pow
<1>4. Number({}) = 0
  BY NumberFacts
<1>5. Number({0}) = 1
  <2>1. {0} \in SUBSET (0..29) /\ 0 \in {0}
    OBVIOUS
  <2> QED
    BY <1>1, <1>2, <1>3, <1>4, <2>1
<1>6. Number(0..1) = 3
  <2>1. 0..1 \in SUBSET (0..29) /\ 1 \in 0..1
    OBVIOUS
  <2> QED
    BY <1>1, <1>2, <1>3, <1>5, <2>1
<1>7. Number(0..2) = 7
  <2>1. 0..2 \in SUBSET (0..29) /\ 2 \in 0..2
    OBVIOUS
  <2> QED
    BY <1>1, <1>2, <1>3, <1>6, <2>1
<1>8. Number(0..3) = 15
  <2>1. 0..3 \in SUBSET (0..29) /\ 3 \in 0..3
    OBVIOUS
  <2> QED
    BY <1>1, <1>2, <1>3, <1>7, <2>1
<1>9. Number(0..4) = 31
  <2>1. 0..4 \in SUBSET (0..29) /\ 4 \in 0..4
    OBVIOUS
  <2> QED
    BY <1>1, <1>2, <1>3, <1>8, <2>1
<1>10. Number(0..5) = 63
  <2>1. 0..5 \in SUBSET (0..29) /\ 5 \in 0..5
    OBVIOUS
  <2> QED
    BY <1>1, <1>2, <1>3, <1>9, <2>1
<1>11. Number(0..6) = 127
  <2>1. 0..6 \in SUBSET (0..29) /\ 6 \in 0..6
    OBVIOUS
  <2> QED
    BY <1>1, <1>2, <1>3, <1>10, <2>1
<1> QED
  BY <1>5, <1>11

\* From the sixth byte on, the varint of a number below zero has all of its bits set.
LEMMA SignBytes ==
  ASSUME NEW bits \in SUBSET (0..63), \A b \in 31..63 : b \in bits,
         NEW e, NEW n \in 1..10, IsVarint(e, n, bits)
  PROVE  n = 10 /\ \A k \in 6..10 : e[k] = IF k < 10 THEN 255 ELSE 1
<1>1. n = 10
  <2>1. 63 \in bits
    OBVIOUS
  <2>2. 63 < 7 * n
    BY <2>1 DEF IsVarint
  <2> QED
    BY <2>2
<1>2. ASSUME NEW k \in 6..10 PROVE e[k] = IF k < 10 THEN 255 ELSE 1
  <2>1. PICK m \in 5..9 : m = k - 1
    OBVIOUS
  <2>2. PICK group : group = Low(ShiftRight(bits, m * 7), 7)
    OBVIOUS
  <2>3. ASSUME NEW j PROVE j \in group <=> j \in 0..6 /\ j + m * 7 <= 63
    <3>1. ASSUME j \in group PROVE j \in 0..6 /\ j + m * 7 <= 63
      <4>1. PICK b \in bits : b >= m * 7 /\ j = b - m * 7 /\ j \in 0..7 - 1
        BY <2>2, <3>1 DEF Low, ShiftRight
      <4>2. b \in 0..63
        OBVIOUS
      <4> QED
        BY <4>1, <4>2
    <3>2. ASSUME j \in 0..6, j + m * 7 <= 63 PROVE j \in group
      <4>1. PICK b \in 31..63 : b = j + m * 7
        BY <2>1, <3>2
      <4>2. b \in bits /\ b >= m * 7 /\ j = b - m * 7 /\ j \in 0..7 - 1
        BY <3>2, <4>1
      <4> QED
        BY <2>2, <4>2 DEF Low, ShiftRight
    <3> QED
      BY <3>1, <3>2
  <2>4. CASE k < 10
    <3>1. m <= 8
      BY <2>1, <2>4
    <3>2. group = 0..6
      BY <2>3, <3>1
    <3>3. Group(bits, k - 1, 7) = 127
      BY <2>1, <2>2, <3>2, AllOfSeven DEF Group
    <3>4. k \in 1..n /\ k < n
      BY <1>1, <2>4
    <3>5. e[k] = 127 + 128
      <4>1. e[k] = Group(bits, k - 1, 7) + IF k < n THEN 128 ELSE 0
        BY <3>4 DEF IsVarint
      <4> QED
        BY <3>3, <3>4, <4>1
    <3> QED
      BY <2>4, <3>5
  <2>5. CASE k = 10
    <3>1. m = 9
      BY <2>1, <2>5
    <3>2. group = {0}
      BY <2>3, <3>1
    <3>3. Group(bits, k - 1, 7) = 1
      BY <2>1, <2>2, <3>2, AllOfSeven DEF Group
    <3> QED
      BY <1>1, <2>5, <3>3 DEF IsVarint
  <2> QED
    BY <2>4, <2>5
<1> QED
  BY <1>1, <1>2

\* A number below zero is written as 64 bits in ten bytes; pb_decode_varint32() reads its 32 bits
\* from the first five and takes the others for its sign.
LEMMA NegativeRead ==
  ASSUME NEW bits \in SUBSET (0..31), 31 \in bits, NEW rest \in Seq(Octet)
  PROVE  pb_decode_varint32(pb_encode_varint(SignExtended(bits, 32)) \o rest) = Value(bits, rest)
<1>1. PICK wide \in SUBSET (0..63) :
             /\ wide = SignExtended(bits, 32) /\ Low(wide, 32) = bits
             /\ \A b \in 31..63 : b \in wide
  BY SignExtendedFacts
<1>2. PICK n \in 1..10 : IsVarint(pb_encode_varint(wide), n, wide)
  BY VarintWritten
<1>3. PICK e : e = pb_encode_varint(wide)
  OBVIOUS
<1>4. IsVarint(e, n, wide)
  BY <1>2, <1>3
<1>5. n = 10 /\ \A k \in 6..10 : e[k] = IF k < 10 THEN 255 ELSE 1
  BY <1>1, <1>2, <1>4, SignBytes
<1>6. PICK stream : stream = e \o rest
  OBVIOUS
<1>7. wide \in SUBSET Nat
  OBVIOUS
<1>8. Found(e \o rest, e, n, wide, rest)
  BY <1>2, <1>4, <1>7, VarintFound
<1>9. /\ stream \in Seq(Octet) /\ Len(stream) = 10 + Len(rest)
      /\ VarintEnd(stream) = 10 /\ Drop(stream, 10) = rest
      /\ \A k \in 1..10 : stream[k] = e[k]
  BY <1>5, <1>6, <1>8 DEF Found
<1>10. SubSeq(stream, 1, 5) = SubSeq(e, 1, 5)
  <2>1. e \in Seq(Octet) /\ Len(e) = 10
    BY <1>4, <1>5 DEF IsVarint
  <2>2. PICK a, b : a = SubSeq(stream, 1, 5) /\ b = SubSeq(e, 1, 5)
    OBVIOUS
  <2>3. a \in Seq(Octet) /\ Len(a) = 5 /\ \A k \in 1..5 : a[k] = stream[k]
    BY <1>9, <2>2, SubSeqProperties
  <2>4. b \in Seq(Octet) /\ Len(b) = 5 /\ \A k \in 1..5 : b[k] = e[k]
    <3>1. \A k \in 1..5 : e[k] \in Octet
      <4>1. \A k \in 1..5 : k \in 1..10
        OBVIOUS
      <4>2. \A k \in 1..10 : e[k] \in Octet
        BY <2>1, ElementOfSeq
      <4> QED
        BY <4>1, <4>2
    <3> QED
      BY <2>2, <3>1, SubSeqProperties
  <2>5. \A k \in 1..5 : a[k] = b[k]
    BY <1>9, <2>3, <2>4
  <2>6. a = b
    BY <2>3, <2>4, <2>5
  <2> QED
    BY <2>2, <2>6
<1>11. Low(VarintBits(SubSeq(stream, 1, 5)), 32) = bits
  <2>1. PICK m \in 1..n : m = 5
    BY <1>5
  <2>2. VarintBits(SubSeq(e, 1, m)) = Below(wide, 7 * m)
    BY <1>2, <1>4, <1>7, VarintPrefix
  <2>3. PICK five : five = Below(wide, 35)
    OBVIOUS
  <2>4. \A b \in 0..32 - 1 : b \in five <=> b \in wide
    BY <2>3 DEF Below
  <2>5. Low(five, 32) = Low(wide, 32)
    BY <2>4 DEF Low
  <2>6. 7 * m = 35
    BY <2>1
  <2> QED
    BY <1>1, <1>10, <2>1, <2>2, <2>3, <2>5, <2>6
<1>12. \A k \in 6..10 : stream[k] = IF k < 10 THEN 255 ELSE 1
  <2>1. \A k \in 6..10 : k \in 1..10
    OBVIOUS
  <2> QED
    BY <1>5, <1>9, <2>1
<1>13. pb_decode_varint32(stream) = Value(bits, rest)
  BY <1>9, <1>11, <1>12 DEF pb_decode_varint32
<1> QED
  BY <1>1, <1>3, <1>6, <1>13

-----------------------------------------------------------------------------
(* Signed and fixed integers. *)

\* 64 bits doubled, as pb_encode_svarint() does, and halved again, as pb_decode_svarint() does.
ZigZag(bits) ==
  LET doubled == Low(ShiftLeft(bits, 1), 64) IN
  IF 63 \in bits THEN (0..63) \ doubled ELSE doubled

\* They are the same.
LEMMA ZigZagBack ==
  ASSUME NEW bits \in SUBSET (0..63)
  PROVE  ZigZag(bits) \in SUBSET (0..63) /\ UnZigZag(ZigZag(bits)) = bits
<1>1. PICK doubled : doubled = Low(ShiftLeft(bits, 1), 64)
  OBVIOUS
<1>2. ASSUME NEW b PROVE b \in doubled <=> b \in 1..63 /\ b - 1 \in bits
  <2>1. ASSUME b \in doubled PROVE b \in 1..63 /\ b - 1 \in bits
    <3>1. PICK k \in bits : b = k + 1 /\ b \in 0..64 - 1
      BY <1>1, <2>1 DEF Low, ShiftLeft
    <3>2. k \in 0..63
      OBVIOUS
    <3>3. b - 1 = k
      BY <3>1, <3>2
    <3> QED
      BY <3>1, <3>2, <3>3
  <2>2. ASSUME b \in 1..63, b - 1 \in bits PROVE b \in doubled
    <3>1. PICK k \in bits : k = b - 1
      BY <2>2
    <3>2. b = k + 1 /\ b \in 0..64 - 1
      BY <2>2, <3>1
    <3> QED
      BY <1>1, <3>2 DEF Low, ShiftLeft
  <2> QED
    BY <2>1, <2>2
<1>3. PICK zigzag : zigzag = IF 63 \in bits THEN (0..63) \ doubled ELSE doubled
  OBVIOUS
<1>4. zigzag \in SUBSET (0..63)
  BY <1>2, <1>3
<1>5. PICK half : half = ShiftRight(zigzag, 1)
  OBVIOUS
<1>6. ASSUME NEW b PROVE b \in half <=> b \in 0..62 /\ b + 1 \in zigzag
  <2>1. ASSUME b \in half PROVE b \in 0..62 /\ b + 1 \in zigzag
    <3>1. PICK k \in zigzag : k >= 1 /\ b = k - 1
      BY <1>5, <2>1 DEF ShiftRight
    <3>2. k \in 0..63
      BY <1>4
    <3>3. b + 1 = k
      BY <3>1, <3>2
    <3> QED
      BY <3>1, <3>2, <3>3
  <2>2. ASSUME b \in 0..62, b + 1 \in zigzag PROVE b \in half
    <3>1. PICK k \in zigzag : k = b + 1
      BY <2>2
    <3>2. k >= 1 /\ b = k - 1
      BY <2>2, <3>1
    <3> QED
      BY <1>5, <3>2 DEF ShiftRight
  <2> QED
    BY <2>1, <2>2
<1>7. \A b \in 0..62 : b + 1 \in doubled <=> b \in bits
  <2>1. \A b \in 0..62 : b + 1 \in 1..63 /\ b + 1 - 1 = b
    OBVIOUS
  <2> QED
    BY <1>2, <2>1
<1>8. 0 \in zigzag <=> 63 \in bits
  <2>1. 0 \notin doubled /\ 0 \in 0..63
    BY <1>2
  <2> QED
    BY <1>3, <2>1
<1>9. \A b \in bits : b = 63 \/ b \in 0..62
  OBVIOUS
<1>10. CASE 63 \in bits
  <2>1. \A b \in 0..62 : b \in half <=> b \notin bits
    <3>1. \A b \in 0..62 : b + 1 \in 0..63
      OBVIOUS
    <3> QED
      BY <1>3, <1>6, <1>7, <1>10, <3>1
  <2>2. 63 \notin half
    BY <1>6
  <2>3. \A b \in 0..63 : b = 63 \/ b \in 0..62
    OBVIOUS
  <2>4. (0..63) \ half = bits
    <3>1. \A b \in 0..63 : b \in half <=> b \notin bits
      BY <1>10, <2>1, <2>2, <2>3
    <3>2. \A b \in bits : b \in 0..63
      OBVIOUS
    <3> QED
      BY <3>1, <3>2
  <2> QED
    BY <1>1, <1>3, <1>4, <1>5, <1>8, <1>10, <2>4 DEF ZigZag, UnZigZag
<1>11. CASE 63 \notin bits
  <2>1. \A b \in 0..62 : b \in half <=> b \in bits
    BY <1>3, <1>6, <1>7, <1>11
  <2>2. half = bits
    <3>1. \A b \in half : b \in 0..62
      BY <1>6
    <3>2. \A b \in bits : b \in 0..62
      BY <1>9, <1>11
    <3> QED
      BY <2>1, <3>1, <3>2
  <2> QED
    BY <1>1, <1>3, <1>4, <1>5, <1>8, <1>11, <2>2 DEF ZigZag, UnZigZag
<1> QED
  BY <1>10, <1>11

\* pb_decode_svarint() reads back what pb_encode_svarint() wrote.
LEMMA SVarintRead ==
  ASSUME NEW bits \in SUBSET (0..63), NEW rest \in Seq(Octet)
  PROVE  pb_decode_svarint(pb_encode_svarint(bits) \o rest) = Value(bits, rest)
<1>1. PICK zigzag \in SUBSET (0..63) : zigzag = ZigZag(bits) /\ UnZigZag(zigzag) = bits
  BY ZigZagBack
<1>2. pb_encode_svarint(bits) = pb_encode_varint(zigzag)
  BY <1>1 DEF pb_encode_svarint, ZigZag
<1>3. PICK stream : stream = pb_encode_varint(zigzag) \o rest
  OBVIOUS
<1>4. pb_decode_varint(stream) = Value(zigzag, rest)
  BY <1>1, <1>3, VarintRead
<1>5. pb_decode_svarint(stream) = Value(bits, rest)
  BY <1>1, <1>4 DEF pb_decode_svarint, Value
<1> QED
  BY <1>2, <1>3, <1>5

\* What is read of a stream are its first bytes, if it has as many.
LEMMA ReadFirst ==
  ASSUME NEW e \in Seq(Octet), NEW rest \in Seq(Octet), NEW n \in Nat, Len(e) = n
  PROVE  pb_read(e \o rest, n) = Value(e, rest)
<1>1. PICK stream : stream = e \o rest
  OBVIOUS
<1>2. Len(stream) = n + Len(rest) /\ SubSeq(stream, 1, n) = e /\ Drop(stream, n) = rest
  BY <1>1, Ahead
<1>3. PICK m \in Nat : m = Len(rest)
  OBVIOUS
<1>4. ~(Len(stream) < n)
  BY <1>2, <1>3
<1>5. pb_read(stream, n) = Value(e, rest)
  BY <1>2, <1>4 DEF pb_read
<1> QED
  BY <1>1, <1>5

\* Integers of 32 and 64 bits, byte by byte, are read back.
LEMMA FixedRead ==
  ASSUME NEW width \in {4, 8}, NEW bits \in SUBSET Nat, \A b \in bits : b < 8 * width,
         NEW e, e = [k \in 1..width |-> Group(bits, k - 1, 8)], NEW rest \in Seq(Octet)
  PROVE  /\ e \in Seq(Octet) /\ Len(e) = width
         /\ pb_decode_fixed(e \o rest, width) = Value(bits, rest)
<1>1. ASSUME NEW k \in 1..width PROVE Group(bits, k - 1, 8) \in Octet
  <2>1. PICK m \in Nat : m = k - 1
    OBVIOUS
  <2>2. 8 \in {7, 8}
    OBVIOUS
  <2>3. Group(bits, m, 8) \in Nat /\ Group(bits, m, 8) < Pow[8]
    BY <2>2, GroupFacts
  <2>4. Pow[8] = 256
    BY DEF Pow
  <2> QED
    BY <2>1, <2>3, <2>4, ByteFacts
<1>2. width \in Nat
  OBVIOUS
<1>3. e \in [1..width -> Octet]
  BY <1>1
<1>4. e \in Seq(Octet) /\ Len(e) = width /\ DOMAIN e = 1..width
  BY <1>2, <1>3
<1>5. e \in [1..width -> Nat] /\ \A k \in 1..width : e[k] = Group(bits, k - 1, 8)
  <2>1. \A k \in 1..width : e[k] \in Nat
    BY <1>3, ByteFacts
  <2> QED
    BY <1>3, <2>1
<1>6. Ungrouped(e, width, 8) = Below(bits, 8 * width)
  <2>1. 8 \in {7, 8}
    OBVIOUS
  <2> QED
    BY <1>2, <1>5, <2>1, GroupsJoined
<1>7. Below(bits, 8 * width) = bits
  BY DEF Below
<1>8. \A k \in 1..width : ByteBits[e[k]] = Bits(e[k])
  BY <1>3, ByteBitsFacts
<1>9. FixedBits(e) = Ungrouped(e, width, 8)
  BY <1>4, <1>8 DEF FixedBits, Ungrouped
<1>10. pb_read(e \o rest, width) = Value(e, rest)
  BY <1>2, <1>4, ReadFirst
<1>11. pb_decode_fixed(e \o rest, width) = Value(bits, rest)
  <2>1. PICK stream, r : stream = e \o rest /\ r = Value(e, rest)
    OBVIOUS
  <2>2. pb_read(stream, width) = r
    BY <1>10, <2>1
  <2>3. r.ok /\ r.value = e /\ r.rest = rest
    BY <2>1 DEF Value
  <2>4. FixedBits(e) = bits
    BY <1>6, <1>7, <1>9
  <2>5. pb_decode_fixed(stream, width) = Value(bits, rest)
    BY <2>2, <2>3, <2>4 DEF pb_decode_fixed
  <2> QED
    BY <2>1, <2>5
<1> QED
  BY <1>4, <1>11

\* Every integer is read back as it was written, and what is behind it is left: an unsigned one
\* of 64 bits and one of 32, one of 32 bits below zero written as one of 64, a signed one, and
\* those of a fixed width.
THEOREM IntegersReadBack ==
  \A rest \in Seq(Octet) :
    /\ \A bits \in SUBSET (0..63) :
         /\ pb_decode_varint(pb_encode_varint(bits) \o rest) = Value(bits, rest)
         /\ pb_decode_svarint(pb_encode_svarint(bits) \o rest) = Value(bits, rest)
         /\ pb_decode_fixed64(pb_encode_fixed64(bits) \o rest) = Value(bits, rest)
    /\ \A bits \in SUBSET (0..31) :
         /\ pb_decode_varint32(pb_encode_varint(bits) \o rest) = Value(bits, rest)
         /\ pb_decode_varint32(pb_encode_varint(SignExtended(bits, 32)) \o rest)
              = Value(bits, rest)
         /\ pb_decode_fixed32(pb_encode_fixed32(bits) \o rest) = Value(bits, rest)
<1>1. ASSUME NEW rest \in Seq(Octet), NEW bits \in SUBSET (0..63)
      PROVE  pb_decode_fixed64(pb_encode_fixed64(bits) \o rest) = Value(bits, rest)
  <2>1. bits \in SUBSET Nat /\ 8 \in {4, 8} /\ \A b \in bits : b < 8 * 8
    OBVIOUS
  <2>2. PICK e : e = [k \in 1..8 |-> Group(bits, k - 1, 8)]
    OBVIOUS
  <2>3. pb_decode_fixed(e \o rest, 8) = Value(bits, rest)
    BY <2>1, <2>2, FixedRead
  <2> QED
    BY <2>2, <2>3 DEF pb_decode_fixed64, pb_encode_fixed64
<1>2. ASSUME NEW rest \in Seq(Octet), NEW bits \in SUBSET (0..31)
      PROVE  pb_decode_fixed32(pb_encode_fixed32(bits) \o rest) = Value(bits, rest)
  <2>1. bits \in SUBSET Nat /\ 4 \in {4, 8} /\ \A b \in bits : b < 8 * 4
    OBVIOUS
  <2>2. PICK e : e = [k \in 1..4 |-> Group(bits, k - 1, 8)]
    OBVIOUS
  <2>3. pb_decode_fixed(e \o rest, 4) = Value(bits, rest)
    BY <2>1, <2>2, FixedRead
  <2> QED
    BY <2>2, <2>3 DEF pb_decode_fixed32, pb_encode_fixed32
<1>3. ASSUME NEW rest \in Seq(Octet), NEW bits \in SUBSET (0..31)
      PROVE  pb_decode_varint32(pb_encode_varint(SignExtended(bits, 32)) \o rest)
               = Value(bits, rest)
  <2>1. CASE 31 \in bits
    BY <2>1, NegativeRead
  <2>2. CASE 31 \notin bits
    <3>1. SignExtended(bits, 32) = bits
      <4>1. 32 - 1 = 31
        OBVIOUS
      <4> QED
        BY <2>2, <4>1 DEF SignExtended
    <3> QED
      BY <3>1, Varint32Read
  <2> QED
    BY <2>1, <2>2
<1> QED
  BY <1>1, <1>2, <1>3, VarintRead, SVarintRead, Varint32Read

-----------------------------------------------------------------------------
(* Tags, lengths, and passing over a field. *)

\* A number and a wire type of three bits side by side, and apart again.
LEMMA TagBits ==
  ASSUME NEW wire \in Nat, wire < Pow[3], NEW number \in Nat \ {0}, number < Pow[29]
  PROVE  \E bits \in SUBSET (0..31) :
           /\ bits = ShiftLeft(Bits(number), 3) \union Bits(wire)
           /\ bits # {}
           /\ Number(ShiftRight(bits, 3)) = number
           /\ Number(Low(bits, 3)) = wire
<1>1. PICK low \in SUBSET (0..2) : low = Bits(wire)
  <2>1. 3 \in 0..30 /\ 3 - 1 = 2
    OBVIOUS
  <2> QED
    BY <2>1, BitsBelow
<1>2. PICK high \in SUBSET (0..28) : high = Bits(number)
  <2>1. 29 \in 0..30 /\ 29 - 1 = 28
    OBVIOUS
  <2> QED
    BY <2>1, BitsBelow
<1>3. Number(low) = wire /\ Number(high) = number
  <2>1. Pow[3] = 8 /\ Pow[29] = 536870912 /\ Pow[30] = 1073741824
    BY DEF Pow
  <2>2. wire < Pow[30] /\ number < Pow[30]
    BY <2>1
  <2>3. Number(Bits(wire)) = wire
    BY <2>2, NumberOfBits
  <2>4. Number(Bits(number)) = number
    BY <2>2, NumberOfBits
  <2> QED
    BY <1>1, <1>2, <2>3, <2>4
<1>4. PICK bits : bits = ShiftLeft(high, 3) \union low
  OBVIOUS
<1>5. \A b : b \in bits <=> (\E k \in high : b = k + 3) \/ b \in low
  BY <1>4 DEF ShiftLeft
<1>6. ASSUME NEW b \in bits PROVE b \in 0..31
  <2>1. CASE b \in low
    <3>1. b \in 0..2
      BY <2>1
    <3> QED
      BY <3>1
  <2>2. ASSUME NEW k \in high, b = k + 3 PROVE b \in 0..31
    <3>1. k \in 0..28
      OBVIOUS
    <3> QED
      BY <2>2, <3>1
  <2> QED
    BY <1>5, <2>1, <2>2
<1>7. bits # {}
  <2>1. high # {}
    BY <1>3, NumberFacts
  <2>2. PICK k \in high : TRUE
    BY <2>1
  <2>3. k + 3 \in bits
    BY <1>5
  <2> QED
    BY <2>3
<1>8. ShiftRight(bits, 3) = high
  <2>1. PICK r : r = ShiftRight(bits, 3)
    OBVIOUS
  <2>2. ASSUME NEW k \in r PROVE k \in high
    <3>1. PICK b \in bits : b >= 3 /\ k = b - 3
      BY <2>1 DEF ShiftRight
    <3>2. b \notin low
      <4>1. b \in low => b \in 0..2
        OBVIOUS
      <4> QED
        BY <3>1, <4>1
    <3>3. PICK j \in high : b = j + 3
      BY <1>5, <3>2
    <3>4. j \in 0..28
      OBVIOUS
    <3>5. k = j
      BY <3>1, <3>3, <3>4
    <3> QED
      BY <3>5
  <2>3. ASSUME NEW k \in high PROVE k \in r
    <3>1. k \in 0..28
      OBVIOUS
    <3>2. PICK b \in bits : b = k + 3
      BY <1>5
    <3>3. b >= 3 /\ b - 3 = k
      BY <3>1, <3>2
    <3> QED
      BY <2>1, <3>3 DEF ShiftRight
  <2>4. r = high
    BY <2>2, <2>3
  <2> QED
    BY <2>1, <2>4
<1>9. Low(bits, 3) = low
  <2>1. ASSUME NEW b \in bits, b \in 0..3 - 1 PROVE b \in low
    <3> SUFFICES ASSUME NEW k \in high, b = k + 3 PROVE FALSE
      BY <1>5
    <3>1. k \in 0..28
      OBVIOUS
    <3> QED
      BY <2>1, <3>1
  <2>2. ASSUME NEW b \in low PROVE b \in bits /\ b \in 0..3 - 1
    <3>1. b \in 0..2
      OBVIOUS
    <3> QED
      BY <1>5, <3>1
  <2> QED
    BY <2>1, <2>2 DEF Low
<1>10. bits \in SUBSET (0..31)
  BY <1>6
<1>11. bits = ShiftLeft(Bits(number), 3) \union Bits(wire)
  BY <1>1, <1>2, <1>4
<1> QED
  BY <1>3, <1>7, <1>8, <1>9, <1>10, <1>11

\* pb_decode_tag() reads back the number of a field and its wire type.
LEMMA TagRead ==
  ASSUME NEW wire \in Nat, wire < Pow[3], NEW number \in Nat \ {0}, number < Pow[29],
         NEW rest \in Seq(Octet)
  PROVE  pb_decode_tag(pb_encode_tag(wire, number) \o rest)
           = [ok |-> TRUE, eof |-> FALSE, rest |-> rest, tag |-> number, wire |-> wire]
<1>1. PICK bits \in SUBSET (0..31) :
             /\ bits = ShiftLeft(Bits(number), 3) \union Bits(wire)
             /\ bits # {}
             /\ Number(ShiftRight(bits, 3)) = number
             /\ Number(Low(bits, 3)) = wire
  BY TagBits
<1>2. PICK stream : stream = pb_encode_varint(bits) \o rest
  OBVIOUS
<1>3. PICK r : r = Value(bits, rest)
  OBVIOUS
<1>4. pb_decode_varint32(stream) = r
  BY <1>1, <1>2, <1>3, Varint32Read
<1>5. r.ok /\ r.value = bits /\ r.rest = rest
  BY <1>3 DEF Value
<1>6. pb_decode_tag(stream)
        = [ok |-> TRUE, eof |-> FALSE, rest |-> rest, tag |-> number, wire |-> wire]
  BY <1>1, <1>4, <1>5 DEF pb_decode_tag
<1>7. pb_encode_tag(wire, number) = pb_encode_varint(bits)
  BY <1>1 DEF pb_encode_tag
<1> QED
  BY <1>2, <1>6, <1>7

\* Bytes behind their number are read back.
LEMMA StringRead ==
  ASSUME NEW bytes \in Seq(Octet), Len(bytes) < Pow[30], NEW rest \in Seq(Octet)
  PROVE  LengthDelimited(pb_encode_string(bytes) \o rest) = Value(bytes, rest)
<1>1. PICK n \in Nat : n = Len(bytes) /\ n < Pow[30]
  OBVIOUS
<1>2. PICK bits \in SUBSET (0..31) : bits = Bits(n) /\ Number(bits) = n
  <2>1. Bits(n) \in SUBSET (0..29) /\ Number(Bits(n)) = n
    BY <1>1, NumberOfBits
  <2>2. Bits(n) \in SUBSET (0..31)
    BY <2>1
  <2> QED
    BY <2>1, <2>2
<1>3. PICK e : e = pb_encode_varint(bits)
  OBVIOUS
<1>4. e \in Seq(Octet)
  <2>1. bits \in SUBSET (0..63)
    BY <1>2
  <2> QED
    BY <1>3, <2>1, VarintWritten DEF IsVarint
<1>5. PICK behind \in Seq(Octet) : behind = bytes \o rest
  BY ConcatFacts
<1>6. pb_encode_string(bytes) \o rest = e \o behind
  <2>1. pb_encode_string(bytes) = e \o bytes
    BY <1>1, <1>2, <1>3 DEF pb_encode_string
  <2>2. (e \o bytes) \o rest = e \o (bytes \o rest)
    BY <1>4, ConcatThree
  <2> QED
    BY <1>5, <2>1, <2>2
<1>7. pb_decode_varint32(e \o behind) = Value(bits, behind)
  BY <1>2, <1>3, <1>5, Varint32Read
<1>8. pb_read(behind, n) = Value(bytes, rest)
  BY <1>1, <1>5, ReadFirst
<1>9. PICK stream, length : stream = e \o behind /\ length = Value(bits, behind)
  OBVIOUS
<1>10. length.ok /\ length.value = bits /\ length.rest = behind
  BY <1>9 DEF Value
<1>11. LengthDelimited(stream) = Value(bytes, rest)
  BY <1>2, <1>7, <1>8, <1>9, <1>10 DEF LengthDelimited
<1> QED
  BY <1>6, <1>9, <1>11

\* The number and the wire type of a field are read back from its tag, the bytes of a string from
\* behind its length, and what is behind them is left.
THEOREM FieldsReadBack ==
  \A rest \in Seq(Octet) :
    /\ \A wire \in 0..7 : \A number \in 1..2^29 - 1 :
         pb_decode_tag(pb_encode_tag(wire, number) \o rest)
           = [ok |-> TRUE, eof |-> FALSE, rest |-> rest, tag |-> number, wire |-> wire]
    /\ \A bytes \in Seq(Octet) :
         Len(bytes) < 2^30 =>
           LengthDelimited(pb_encode_string(bytes) \o rest) = Value(bytes, rest)
<1>1. Pow[3] = 8 /\ Pow[29] = 2^29 /\ Pow[30] = 2^30 /\ 2^29 \in Nat
  BY DEF Pow
<1>2. ASSUME NEW rest \in Seq(Octet), NEW wire \in 0..7, NEW number \in 1..2^29 - 1
      PROVE  pb_decode_tag(pb_encode_tag(wire, number) \o rest)
               = [ok |-> TRUE, eof |-> FALSE, rest |-> rest, tag |-> number, wire |-> wire]
  <2>1. wire \in Nat /\ wire < Pow[3] /\ number \in Nat \ {0} /\ number < Pow[29]
    BY <1>1
  <2> QED
    BY <2>1, TagRead
<1>3. ASSUME NEW rest \in Seq(Octet), NEW bytes \in Seq(Octet), Len(bytes) < 2^30
      PROVE  LengthDelimited(pb_encode_string(bytes) \o rest) = Value(bytes, rest)
  <2>1. Len(bytes) < Pow[30]
    BY <1>1, <1>3
  <2> QED
    BY <2>1, StringRead
<1> QED
  BY <1>2, <1>3

\* Reading succeeded, and rest is left.
Leaves(result, rest) == result.ok /\ result.rest = rest

\* A field of each wire type is passed over, and a scalar kept as it is for a callback to read,
\* up to its end and no further.
THEOREM FieldsPassedOver ==
  \A rest \in Seq(Octet) :
    /\ \A bits \in SUBSET (0..63) :
         /\ Leaves(pb_skip_field(pb_encode_varint(bits) \o rest, WT_VARINT), rest)
         /\ Leaves(pb_skip_field(pb_encode_fixed64(bits) \o rest, WT_64BIT), rest)
         /\ read_raw_value(pb_encode_varint(bits) \o rest, WT_VARINT)
              = Value(pb_encode_varint(bits), rest)
         /\ read_raw_value(pb_encode_fixed64(bits) \o rest, WT_64BIT)
              = Value(pb_encode_fixed64(bits), rest)
    /\ \A bits \in SUBSET (0..31) :
         /\ Leaves(pb_skip_field(pb_encode_fixed32(bits) \o rest, WT_32BIT), rest)
         /\ read_raw_value(pb_encode_fixed32(bits) \o rest, WT_32BIT)
              = Value(pb_encode_fixed32(bits), rest)
    /\ \A bytes \in Seq(Octet) :
         Len(bytes) < 2^30 =>
           Leaves(pb_skip_field(pb_encode_string(bytes) \o rest, WT_STRING), rest)
<1>1. WT_VARINT = 0 /\ WT_64BIT = 1 /\ WT_STRING = 2 /\ WT_32BIT = 5
  BY DEF WT_VARINT, WT_64BIT, WT_STRING, WT_32BIT
<1>2. ASSUME NEW rest \in Seq(Octet), NEW bits \in SUBSET (0..63)
      PROVE  /\ Leaves(pb_skip_field(pb_encode_varint(bits) \o rest, WT_VARINT), rest)
             /\ read_raw_value(pb_encode_varint(bits) \o rest, WT_VARINT)
                  = Value(pb_encode_varint(bits), rest)
  <2>1. PICK n \in 1..10 : IsVarint(pb_encode_varint(bits), n, bits)
    BY VarintWritten
  <2>2. PICK e : e = pb_encode_varint(bits)
    OBVIOUS
  <2>3. bits \in SUBSET Nat /\ IsVarint(e, n, bits)
    BY <2>1, <2>2
  <2>4. Found(e \o rest, e, n, bits, rest)
    BY <2>1, <2>3, VarintFound
  <2>5. PICK stream : stream = e \o rest
    OBVIOUS
  <2>6. VarintEnd(stream) = n /\ Drop(stream, n) = rest
    BY <2>4, <2>5 DEF Found
  <2>7. Leaves(pb_skip_varint(stream), rest)
    BY <2>1, <2>6 DEF pb_skip_varint, Value, Leaves
  <2>8. pb_skip_field(stream, WT_VARINT) = pb_skip_varint(stream)
    BY <1>1 DEF pb_skip_field
  <2>9. e \in Seq(Octet) /\ Len(e) = n
    BY <2>3 DEF IsVarint
  <2>10. pb_read(stream, n) = Value(e, rest)
    BY <2>1, <2>5, <2>9, ReadFirst
  <2>11. read_raw_value(stream, WT_VARINT) = pb_read(stream, n)
    BY <1>1, <2>1, <2>6 DEF read_raw_value
  <2> QED
    BY <2>2, <2>5, <2>7, <2>8, <2>10, <2>11
<1>3. ASSUME NEW rest \in Seq(Octet), NEW e \in Seq(Octet), NEW width \in {4, 8}, Len(e) = width
      PROVE  LET stream == e \o rest
                 wire == IF width = 4 THEN WT_32BIT ELSE WT_64BIT
             IN  /\ Leaves(pb_skip_field(stream, wire), rest)
                 /\ read_raw_value(stream, wire) = Value(e, rest)
  <2>1. PICK stream, wire : stream = e \o rest /\ wire = IF width = 4 THEN WT_32BIT ELSE WT_64BIT
    OBVIOUS
  <2>2. pb_read(stream, width) = Value(e, rest)
    BY <1>3, <2>1, ReadFirst
  <2>3. pb_skip_field(stream, wire) = pb_read(stream, width)
    BY <1>1, <2>1 DEF pb_skip_field
  <2>4. read_raw_value(stream, wire) = pb_read(stream, width)
    BY <1>1, <2>1 DEF read_raw_value
  <2>5. Leaves(Value(e, rest), rest)
    BY DEF Value, Leaves
  <2> QED
    BY <2>1, <2>2, <2>3, <2>4, <2>5
<1>4. ASSUME NEW rest \in Seq(Octet), NEW bits \in SUBSET (0..63)
      PROVE  /\ Leaves(pb_skip_field(pb_encode_fixed64(bits) \o rest, WT_64BIT), rest)
             /\ read_raw_value(pb_encode_fixed64(bits) \o rest, WT_64BIT)
                  = Value(pb_encode_fixed64(bits), rest)
  <2>1. PICK e : e = [k \in 1..8 |-> Group(bits, k - 1, 8)]
    OBVIOUS
  <2>2. bits \in SUBSET Nat /\ 8 \in {4, 8} /\ \A b \in bits : b < 8 * 8
    OBVIOUS
  <2>3. e \in Seq(Octet) /\ Len(e) = 8
    BY <2>1, <2>2, FixedRead
  <2>4. e = pb_encode_fixed64(bits)
    BY <2>1 DEF pb_encode_fixed64
  <2> QED
    BY <1>3, <2>2, <2>3, <2>4
<1>5. ASSUME NEW rest \in Seq(Octet), NEW bits \in SUBSET (0..31)
      PROVE  /\ Leaves(pb_skip_field(pb_encode_fixed32(bits) \o rest, WT_32BIT), rest)
             /\ read_raw_value(pb_encode_fixed32(bits) \o rest, WT_32BIT)
                  = Value(pb_encode_fixed32(bits), rest)
  <2>1. PICK e : e = [k \in 1..4 |-> Group(bits, k - 1, 8)]
    OBVIOUS
  <2>2. bits \in SUBSET Nat /\ 4 \in {4, 8} /\ \A b \in bits : b < 8 * 4
    OBVIOUS
  <2>3. e \in Seq(Octet) /\ Len(e) = 4
    BY <2>1, <2>2, FixedRead
  <2>4. e = pb_encode_fixed32(bits)
    BY <2>1 DEF pb_encode_fixed32
  <2> QED
    BY <1>3, <2>2, <2>3, <2>4
<1>6. ASSUME NEW rest \in Seq(Octet), NEW bytes \in Seq(Octet), Len(bytes) < 2^30
      PROVE  Leaves(pb_skip_field(pb_encode_string(bytes) \o rest, WT_STRING), rest)
  <2>1. PICK stream : stream = pb_encode_string(bytes) \o rest
    OBVIOUS
  <2>2. LengthDelimited(stream) = Value(bytes, rest)
    BY <1>6, <2>1, FieldsReadBack
  <2>3. pb_skip_field(stream, WT_STRING) = LengthDelimited(stream)
    BY <1>1 DEF pb_skip_field
  <2> QED
    BY <2>1, <2>2, <2>3 DEF Value, Leaves
<1> QED
  BY <1>2, <1>4, <1>5, <1>6

-----------------------------------------------------------------------------
(* A Packet on the wire. *)

\* Bits of a byte, as nanopb and as Crc8.c weigh them.
LEMMA ByteOfNumber == ASSUME NEW bits \in Bits8 PROVE ByteOf(bits) = Number(bits)
<1>1. bits \in SUBSET (0..7)
  BY DEF Bits8, Bit
<1>2. \A s \in SUBSET (0..29), b \in Nat : b \in s => Number(s) = Pow[b] + Number(s \ {b})
  BY NumberFacts
<1>3. PICK w \in [0..7 -> Nat] : w = [k \in 0..7 |-> IF k \in bits THEN 2^k ELSE 0]
  <2>1. ASSUME NEW k \in 0..7 PROVE (IF k \in bits THEN 2^k ELSE 0) \in Nat
    <3>1. k \in 0..30
      OBVIOUS
    <3>2. 2^k \in Nat
      BY <3>1, Powers
    <3> QED
      BY <3>2
  <2> QED
    BY <2>1
<1>4. ASSUME NEW k \in 0..7, NEW s \in SUBSET (0..7), k \in s <=> k \in bits
      PROVE  Number(s) = w[k] + Number(s \ {k})
  <2>1. k \in Nat /\ s \in SUBSET (0..29) /\ k \in 0..30 /\ Number(s) \in Nat
    <3>1. k \in Nat /\ s \in SUBSET (0..29) /\ k \in 0..30
      OBVIOUS
    <3> QED
      BY <3>1, NumberFacts
  <2>2. CASE k \in s
    <3>1. Number(s) = Pow[k] + Number(s \ {k})
      BY <1>2, <2>1, <2>2
    <3>2. w[k] = Pow[k]
      BY <1>3, <1>4, <2>1, <2>2, Powers
    <3> QED
      BY <3>1, <3>2
  <2>3. CASE k \notin s
    <3>1. s \ {k} = s /\ w[k] = 0
      BY <1>3, <1>4, <2>3
    <3> QED
      BY <2>1, <3>1
  <2> QED
    BY <2>2, <2>3
<1>5. PICK s1, s2, s3, s4, s5, s6, s7, s8 :
        /\ s1 = bits \ {0} /\ s2 = s1 \ {1} /\ s3 = s2 \ {2} /\ s4 = s3 \ {3}
        /\ s5 = s4 \ {4} /\ s6 = s5 \ {5} /\ s7 = s6 \ {6} /\ s8 = s7 \ {7}
  OBVIOUS
<1>6. /\ s1 \in SUBSET (0..7) /\ s2 \in SUBSET (0..7) /\ s3 \in SUBSET (0..7)
      /\ s4 \in SUBSET (0..7) /\ s5 \in SUBSET (0..7) /\ s6 \in SUBSET (0..7)
      /\ s7 \in SUBSET (0..7)
      /\ 1 \in s1 <=> 1 \in bits
      /\ 2 \in s2 <=> 2 \in bits
      /\ 3 \in s3 <=> 3 \in bits
      /\ 4 \in s4 <=> 4 \in bits
      /\ 5 \in s5 <=> 5 \in bits
      /\ 6 \in s6 <=> 6 \in bits
      /\ 7 \in s7 <=> 7 \in bits
  BY <1>1, <1>5
<1>7. s8 = {}
  <2>1. \A b \in s8 : b \in 0..7 /\ b \notin {0, 1, 2, 3, 4, 5, 6, 7}
    BY <1>1, <1>5
  <2>2. \A b \in 0..7 : b \in {0, 1, 2, 3, 4, 5, 6, 7}
    OBVIOUS
  <2> QED
    BY <2>1, <2>2
<1>8. /\ Number(bits) = w[0] + Number(s1) /\ Number(s1) = w[1] + Number(s2)
      /\ Number(s2) = w[2] + Number(s3) /\ Number(s3) = w[3] + Number(s4)
      /\ Number(s4) = w[4] + Number(s5) /\ Number(s5) = w[5] + Number(s6)
      /\ Number(s6) = w[6] + Number(s7) /\ Number(s7) = w[7] + Number(s8)
  BY <1>1, <1>4, <1>5, <1>6
<1>9. Number(s8) = 0
  BY <1>7, NumberFacts
<1>10. PICK w0 \in Nat, w1 \in Nat, w2 \in Nat, w3 \in Nat, w4 \in Nat, w5 \in Nat, w6 \in Nat,
            w7 \in Nat :
         /\ w0 = w[0] /\ w1 = w[1] /\ w2 = w[2] /\ w3 = w[3]
         /\ w4 = w[4] /\ w5 = w[5] /\ w6 = w[6] /\ w7 = w[7]
  BY <1>3
<1>11. Number(bits) = w0 + w1 + w2 + w3 + w4 + w5 + w6 + w7
  BY <1>8, <1>9, <1>10
<1>12. ByteOf(bits) = w[0] + w[1] + w[2] + w[3] + w[4] + w[5] + w[6] + w[7]
  BY <1>3 DEF ByteOf
<1> QED
  BY <1>10, <1>11, <1>12

\* The bits of a byte as a varint are what Varint() says of their number.
LEMMA ByteVarint ==
  ASSUME NEW bits \in SUBSET (0..7)
  PROVE  Number(bits) \in Octet /\ pb_encode_varint(bits) = Varint(Number(bits))
<1>1. PICK n \in 1..10 : IsVarint(pb_encode_varint(bits), n, bits)
  <2>1. bits \in SUBSET (0..63)
    OBVIOUS
  <2> QED
    BY <2>1, VarintWritten
<1>2. PICK e : e = pb_encode_varint(bits) /\ e \in Seq(Octet) /\ Len(e) = n
  BY <1>1 DEF IsVarint
<1>3. Pow[7] = 128 /\ Pow[8] = 256
  BY DEF Pow
<1>4. Group(bits, 0, 7) = Number(bits \ {7})
  <2>1. ShiftRight(bits, 0) = bits
    <3>1. \A b \in bits : b >= 0 /\ b - 0 = b
      OBVIOUS
    <3> QED
      BY <3>1 DEF ShiftRight
  <2>2. Low(bits, 7) = bits \ {7}
    <3>1. \A b \in bits : b = 7 \/ b \in 0..7 - 1
      OBVIOUS
    <3>2. 7 \notin 0..7 - 1
      OBVIOUS
    <3> QED
      BY <3>1, <3>2 DEF Low
  <2>3. 0 * 7 = 0
    OBVIOUS
  <2> QED
    BY <2>1, <2>2, <2>3 DEF Group
<1>5. PICK low \in Nat : low = Number(bits \ {7}) /\ low < 128
  <2>1. bits \ {7} \in SUBSET (0..7 - 1)
    OBVIOUS
  <2> QED
    BY <1>3, <2>1, NumberBelow
<1>6. \A b \in bits : b \in 0..7 /\ b < 7 * n
  BY <1>1 DEF IsVarint
<1>7. n = 1 \/ \E b \in bits : 7 * (n - 1) <= b
  BY <1>1 DEF IsVarint
<1>8. CASE 7 \notin bits
  <2>1. bits \ {7} = bits
    BY <1>8
  <2>2. n = 1
    <3>1. \A b \in bits : b < 7
      BY <1>6, <1>8
    <3> QED
      BY <1>6, <1>7, <3>1
  <2>3. e[1] = low
    <3>1. 1 \in 1..n /\ ~(1 < n) /\ 1 - 1 = 0
      BY <2>2
    <3>2. e[1] = Group(bits, 1 - 1, 7) + IF 1 < n THEN 128 ELSE 0
      BY <1>1, <1>2, <3>1 DEF IsVarint
    <3> QED
      BY <1>4, <1>5, <3>1, <3>2
  <2>4. e = <<low>>
    BY <1>2, <2>2, <2>3
  <2>5. low \in Octet
    BY <1>5, ByteFacts
  <2> QED
    BY <1>2, <1>5, <2>1, <2>4, <2>5 DEF Varint
<1>9. CASE 7 \in bits
  <2>1. Number(bits) = 128 + low
    <3>1. bits \in SUBSET (0..29)
      OBVIOUS
    <3> QED
      BY <1>3, <1>5, <1>9, <3>1, NumberFacts
  <2>2. n = 2
    BY <1>6, <1>7, <1>9
  <2>3. e[1] = low + 128
    <3>1. 1 \in 1..n /\ 1 < n /\ 1 - 1 = 0
      BY <2>2
    <3>2. e[1] = Group(bits, 1 - 1, 7) + IF 1 < n THEN 128 ELSE 0
      BY <1>1, <1>2, <3>1 DEF IsVarint
    <3> QED
      BY <1>4, <1>5, <3>1, <3>2
  <2>4. e[2] = 1
    <3>1. Low(ShiftRight(bits, 7), 7) = {0}
      <4>1. PICK s : s = Low(ShiftRight(bits, 7), 7)
        OBVIOUS
      <4>2. ASSUME NEW b \in s PROVE b = 0
        <5>1. PICK k \in bits : k >= 7 /\ b = k - 7
          BY <4>1 DEF Low, ShiftRight
        <5> QED
          BY <1>6, <5>1
      <4>3. 0 \in s
        <5>1. 7 >= 7 /\ 7 - 7 = 0 /\ 0 \in 0..7 - 1
          OBVIOUS
        <5> QED
          BY <1>9, <4>1, <5>1 DEF Low, ShiftRight
      <4> QED
        BY <4>1, <4>2, <4>3
    <3>2. Group(bits, 1, 7) = 1
      <4>1. 1 * 7 = 7
        OBVIOUS
      <4> QED
        BY <3>1, <4>1, AllOfSeven DEF Group
    <3>3. 2 \in 1..n /\ ~(2 < n) /\ 2 - 1 = 1
      BY <2>2
    <3>4. e[2] = Group(bits, 2 - 1, 7) + IF 2 < n THEN 128 ELSE 0
      BY <1>1, <1>2, <3>3 DEF IsVarint
    <3> QED
      BY <3>2, <3>3, <3>4
  <2>5. e = << low + 128, 1 >>
    BY <1>2, <2>2, <2>3, <2>4
  <2>6. PICK number \in Nat : number = Number(bits) /\ number = 128 + low
    BY <2>1
  <2>7. /\ ~(number < 128) /\ number % 128 = low /\ number \div 128 = 1
        /\ number <= 255 /\ 128 + (number % 128) = low + 128
    BY <1>5, <2>6
  <2>8. Varint(number) = << low + 128, 1 >>
    BY <2>7 DEF Varint
  <2>9. number \in Octet
    BY <2>7, ByteFacts
  <2> QED
    BY <1>2, <2>5, <2>6, <2>8, <2>9
<1> QED
  BY <1>8, <1>9

\* A number that is the sum of these bits has these.
LEMMA BitsAre ==
  ASSUME NEW bits \in SUBSET (0..7), NEW n, Number(bits) = n
  PROVE  Bits(n) = bits
<1>1. bits \in SUBSET (0..29)
  OBVIOUS
<1> QED
  BY <1>1, BitsOfNumber

\* The bits of the wire types, the numbers and the tags of the fields of a Packet.
LEMMA SmallBits ==
  /\ Bits(0) = {} /\ Bits(1) = {0} /\ Bits(2) = {1} /\ Bits(3) = {0, 1} /\ Bits(4) = {2}
  /\ Number({1, 3}) = 10 /\ Number({4}) = 16 /\ Number({3, 4}) = 24 /\ Number({5}) = 32
<1>1. \A s \in SUBSET (0..29), b \in Nat : b \in s => Number(s) = Pow[b] + Number(s \ {b})
  BY NumberFacts
<1>2. /\ Number({}) = 0 /\ Pow[0] = 1 /\ Pow[1] = 2 /\ Pow[2] = 4 /\ Pow[3] = 8 /\ Pow[4] = 16
      /\ Pow[5] = 32
  BY NumberFacts DEF Pow
<1>3. ASSUME NEW b \in 0..7 PROVE Number({b}) = Pow[b]
  <2>1. {b} \in SUBSET (0..29) /\ b \in Nat /\ b \in {b} /\ {b} \ {b} = {} /\ b \in 0..30
    OBVIOUS
  <2>2. Number({b}) = Pow[b] + Number({})
    BY <1>1, <2>1
  <2>3. Pow[b] \in Nat
    BY <2>1, Powers
  <2> QED
    BY <1>2, <2>2, <2>3
<1>4. ASSUME NEW a \in 0..7, NEW b \in 0..7, a # b PROVE Number({a, b}) = Pow[a] + Pow[b]
  <2>1. {a, b} \in SUBSET (0..29) /\ a \in Nat /\ a \in {a, b} /\ {a, b} \ {a} = {b}
    BY <1>4
  <2>2. Number({a, b}) = Pow[a] + Number({b})
    BY <1>1, <2>1
  <2> QED
    BY <1>3, <2>2
<1>5. /\ Number({0}) = 1 /\ Number({1}) = 2 /\ Number({2}) = 4 /\ Number({4}) = 16
      /\ Number({5}) = 32
  BY <1>2, <1>3
<1>6. Number({0, 1}) = 3 /\ Number({1, 3}) = 10 /\ Number({3, 4}) = 24
  BY <1>2, <1>4
<1>7. /\ {} \in SUBSET (0..7) /\ {0} \in SUBSET (0..7) /\ {1} \in SUBSET (0..7)
      /\ {2} \in SUBSET (0..7) /\ {0, 1} \in SUBSET (0..7)
  OBVIOUS
<1>8. Bits(0) = {} /\ Bits(1) = {0} /\ Bits(2) = {1} /\ Bits(3) = {0, 1} /\ Bits(4) = {2}
  BY <1>2, <1>5, <1>6, <1>7, BitsAre
<1> QED
  BY <1>5, <1>6, <1>8

\* The tags of the fields of a Packet.
LEMMA TagBytes ==
  /\ pb_encode_tag(WT_STRING, 1) = << 10 >> /\ pb_encode_tag(WT_VARINT, 2) = << 16 >>
  /\ pb_encode_tag(WT_VARINT, 3) = << 24 >> /\ pb_encode_tag(WT_VARINT, 4) = << 32 >>
<1>1. /\ ShiftLeft({0}, 3) \union {1} = {1, 3} /\ ShiftLeft({1}, 3) \union {} = {4}
      /\ ShiftLeft({0, 1}, 3) \union {} = {3, 4} /\ ShiftLeft({2}, 3) \union {} = {5}
  BY DEF ShiftLeft
<1>2. WT_VARINT = 0 /\ WT_STRING = 2
  BY DEF WT_VARINT, WT_STRING
<1>3. /\ pb_encode_tag(WT_STRING, 1) = pb_encode_varint({1, 3})
      /\ pb_encode_tag(WT_VARINT, 2) = pb_encode_varint({4})
      /\ pb_encode_tag(WT_VARINT, 3) = pb_encode_varint({3, 4})
      /\ pb_encode_tag(WT_VARINT, 4) = pb_encode_varint({5})
  BY <1>1, <1>2, SmallBits DEF pb_encode_tag
<1>4. /\ {1, 3} \in SUBSET (0..7) /\ {4} \in SUBSET (0..7) /\ {3, 4} \in SUBSET (0..7)
      /\ {5} \in SUBSET (0..7)
  OBVIOUS
<1>5. /\ Varint(10) = << 10 >> /\ Varint(16) = << 16 >> /\ Varint(24) = << 24 >>
      /\ Varint(32) = << 32 >>
  BY DEF Varint
<1> QED
  BY <1>3, <1>4, <1>5, SmallBits, ByteVarint

\* The bytes of a number below 256 and of a text below 128 bytes.
LEMMA ByteNumbers ==
  /\ \A n \in Octet : pb_encode_varint(Bits(n)) = Varint(n)
  /\ \A bytes \in Seq(Octet) :
       Len(bytes) < 128 => pb_encode_string(bytes) = << Len(bytes) >> \o bytes
<1>1. ASSUME NEW n \in Octet PROVE pb_encode_varint(Bits(n)) = Varint(n)
  <2>1. n \in Nat /\ n <= 255
    BY ByteFacts
  <2>2. Pow[8] = 256 /\ Pow[30] = 1073741824 /\ 8 \in 0..30 /\ 8 - 1 = 7
    BY DEF Pow
  <2>3. Bits(n) \in SUBSET (0..7)
    BY <2>1, <2>2, BitsBelow
  <2>4. Number(Bits(n)) = n
    BY <2>1, <2>2, NumberOfBits
  <2> QED
    BY <2>3, <2>4, ByteVarint
<1>2. ASSUME NEW bytes \in Seq(Octet), Len(bytes) < 128
      PROVE  pb_encode_string(bytes) = << Len(bytes) >> \o bytes
  <2>1. PICK n \in Nat : n = Len(bytes) /\ n < 128
    BY <1>2
  <2>2. n \in Octet
    BY <2>1, ByteFacts
  <2>3. pb_encode_varint(Bits(n)) = << n >>
    BY <1>1, <2>1, <2>2 DEF Varint
  <2> QED
    BY <2>1, <2>3 DEF pb_encode_string
<1> QED
  BY <1>1, <1>2

\* Two bytes, one behind the other.
LEMMA TwoBytes ==
  ASSUME NEW a \in Octet, NEW b \in Octet
  PROVE  << a >> \o << b >> = << a, b >>
<1>1. PICK s : s = << a >>
  OBVIOUS
<1>2. PICK t : t = << b >>
  OBVIOUS
<1>3. PICK c \in Seq(Octet) : c = s \o t /\ Len(c) = 2 /\ c[1] = a /\ c[2] = b
  <2>1. /\ s \o t \in Seq(Octet) /\ Len(s \o t) = 2
        /\ \A k \in 1..1 : (s \o t)[k] = s[k]
        /\ \A k \in 1..1 : (s \o t)[1 + k] = t[k]
    <3>1. s \in Seq(Octet) /\ Len(s) = 1
      BY <1>1
    <3>2. t \in Seq(Octet) /\ Len(t) = 1
      BY <1>2
    <3> QED
      BY <3>1, <3>2, ConcatFacts
  <2>2. 1 \in 1..1 /\ 1 + 1 = 2 /\ s[1] = a /\ t[1] = b
    BY <1>1, <1>2
  <2> QED
    BY <2>1, <2>2
<1>4. PICK d : d = << a, b >>
  OBVIOUS
<1>5. d \in Seq(Octet) /\ Len(d) = 2 /\ d[1] = a /\ d[2] = b
  BY <1>4
<1>6. c = d
  <2>1. \A k \in 1..2 : c[k] = d[k]
    <3>1. \A k \in 1..2 : k = 1 \/ k = 2
      OBVIOUS
    <3> QED
      BY <1>3, <1>5, <3>1
  <2> QED
    BY SMTT(30), <1>3, <1>5, <2>1
<1> QED
  BY <1>1, <1>2, <1>3, <1>4, <1>6

\* What pb_encode() writes of the fields of a Packet, in the order of their descriptors.
Written(p) ==
  pb_encode_tag(WT_STRING, 1) \o pb_encode_string(p.data)
    \o pb_encode_tag(WT_VARINT, 2) \o pb_encode_varint(Bits(p.sequence_number))
    \o pb_encode_tag(WT_VARINT, 3) \o pb_encode_varint(calculate_crc(p.data))
    \o pb_encode_tag(WT_VARINT, 4) \o pb_encode_varint(Bits(FlagValue(p.flag)))

\* A Packet's number of bytes and its fields as pb_enc_bytes(), pb_enc_uvarint() and
\* pb_enc_varint() write them are what the frames are made of, whatever the data: a length,
\* a tag and a flag are one byte, the sequence number and the CRC one or two.
THEOREM PacketIsWritten ==
  \A p : Valid(p) =>
    /\ Body(p) = Written(p) /\ Wire(p) = pb_encode_string(Written(p))
    /\ Body(p) \in Seq(Octet) /\ Len(Body(p)) < 128
<1> SUFFICES ASSUME NEW p, Valid(p)
             PROVE  /\ Body(p) = Written(p) /\ Wire(p) = pb_encode_string(Written(p))
                    /\ Body(p) \in Seq(Octet) /\ Len(Body(p)) < 128
  OBVIOUS
<1>1. PICK data \in Seq(Octet) : data = p.data /\ Len(data) < 128
  BY DataMaxAssumption DEF Valid
<1>2. PICK n \in Octet : n = Len(data)
  BY <1>1, ByteFacts
<1>3. PICK u, v, f : /\ u = Varint(p.sequence_number)
                     /\ v = Varint(ByteOf(calculate_crc(p.data)))
                     /\ f = FlagValue(p.flag)
  OBVIOUS
<1>4. u = pb_encode_varint(Bits(p.sequence_number))
  BY <1>3, ByteNumbers DEF Valid
<1>5. v = pb_encode_varint(calculate_crc(p.data))
  <2>1. PICK crc \in Bits8 : crc = calculate_crc(data)
    <3>1. PICK a : Crcs(a, data) /\ calculate_crc(data) = a[Len(data)]
      BY CrcsExist
    <3>2. a[Len(data)] \in Bits8
      BY <1>1, <3>1 DEF Crcs
    <3> QED
      BY <3>1, <3>2
  <2>2. crc \in SUBSET (0..7)
    BY <2>1 DEF Bits8, Bit
  <2>3. pb_encode_varint(crc) = Varint(ByteOf(crc))
    BY <2>1, <2>2, ByteOfNumber, ByteVarint
  <2> QED
    BY <1>1, <1>3, <2>1, <2>3
<1>6. f \in Octet /\ << f >> = pb_encode_varint(Bits(FlagValue(p.flag)))
  <2>1. f \in Nat /\ f <= 3
    BY <1>3, FlagFacts DEF Valid
  <2>2. f \in Octet /\ f < 128
    BY <2>1, ByteFacts
  <2>3. Varint(f) = << f >>
    BY <2>2 DEF Varint
  <2> QED
    BY <1>3, <2>2, <2>3, ByteNumbers
<1>7. pb_encode_string(p.data) = << n >> \o data
  BY <1>1, <1>2, ByteNumbers
<1>8. u \in Seq(Octet) /\ v \in Seq(Octet)
  <2>1. u \in Seq(Octet)
    BY <1>3, VarintFacts DEF Valid
  <2>2. ByteOf(calculate_crc(p.data)) \in Octet
    <3>1. PICK a : Crcs(a, data) /\ calculate_crc(data) = a[Len(data)]
      BY CrcsExist
    <3>2. a[Len(data)] \in Bits8
      BY <1>1, <3>1 DEF Crcs
    <3> QED
      BY <1>1, <3>1, <3>2, ByteOfFacts
  <2> QED
    BY <1>3, <2>1, <2>2, VarintFacts
<1>9. 10 \in Octet /\ 16 \in Octet /\ 24 \in Octet /\ 32 \in Octet
  BY SMTT(30), ByteFacts
<1>10. << 10, n >> \o data = << 10 >> \o (<< n >> \o data)
  <2>1. << 10 >> \o << n >> = << 10, n >>
    BY <1>2, <1>9, TwoBytes
  <2>2. << 10 >> \in Seq(Octet) /\ << n >> \in Seq(Octet)
    BY <1>2, <1>9
  <2> QED
    BY <1>1, <2>1, <2>2, ConcatThree
<1>11. PICK b \in Seq(Octet) : b = << 10, n >> \o data \o << 16 >> \o u \o << 24 >> \o v
  <2>1. << 10, n >> \in Seq(Octet) /\ << 16 >> \in Seq(Octet) /\ << 24 >> \in Seq(Octet)
    BY <1>2, <1>9
  <2>2. << 10, n >> \o data \in Seq(Octet)
    BY <1>1, <2>1, ConcatFacts
  <2>3. << 10, n >> \o data \o << 16 >> \in Seq(Octet)
    BY <2>1, <2>2, ConcatFacts
  <2>4. << 10, n >> \o data \o << 16 >> \o u \in Seq(Octet)
    BY <1>8, <2>3, ConcatFacts
  <2>5. << 10, n >> \o data \o << 16 >> \o u \o << 24 >> \in Seq(Octet)
    BY <2>1, <2>4, ConcatFacts
  <2> QED
    BY <1>8, <2>5, ConcatFacts
<1>12. b \o << 32, f >> = b \o << 32 >> \o << f >>
  <2>1. << 32 >> \o << f >> = << 32, f >>
    BY <1>6, <1>9, TwoBytes
  <2>2. PICK s, t : s = << 32 >> /\ t = << f >>
    OBVIOUS
  <2>3. s \in Seq(Octet) /\ t \in Seq(Octet)
    BY <1>6, <1>9, <2>2
  <2>4. (b \o s) \o t = b \o (s \o t)
    BY <1>11, <2>3, ConcatThree
  <2> QED
    BY <2>1, <2>2, <2>4
<1>13. Body(p) = b \o << 32, f >>
  BY <1>1, <1>2, <1>3, <1>11, Zenon DEF Body
<1>14. Written(p) = b \o << 32 >> \o << f >>
  BY <1>4, <1>5, <1>6, <1>7, <1>10, <1>11, TagBytes, Zenon DEF Written
<1>15. Body(p) = Written(p)
  BY <1>12, <1>13, <1>14
<1>16. PICK body \in Seq(Octet) : body = Body(p) /\ Len(body) < 128
  <2>1. << 32, f >> \in Seq(Octet)
    BY <1>6, <1>9
  <2>2. Body(p) \in Seq(Octet)
    BY <1>11, <1>13, <2>1, ConcatFacts
  <2>3. Len(Wire(p)) = 1 + Len(Body(p))
    BY <2>2 DEF Wire
  <2>4. Len(Wire(p)) <= 128
    BY WireFacts
  <2> QED
    BY <2>2, <2>3, <2>4
<1>17. Wire(p) = pb_encode_string(body)
  BY <1>16, ByteNumbers DEF Wire
<1> QED
  BY <1>15, <1>16, <1>17

\* The fields of a Packet, one after the other, as pb_decode() finds them: the number and the
\* wire type of each, the data, and the bits of the numbers.
FoundIn(body, p) ==
  LET tag1 == pb_decode_tag(body)
      data == LengthDelimited(tag1.rest)
      tag2 == pb_decode_tag(data.rest)
      number == pb_decode_varint(tag2.rest)
      tag3 == pb_decode_tag(number.rest)
      crc == pb_decode_varint(tag3.rest)
      tag4 == pb_decode_tag(crc.rest)
      flag == pb_decode_varint(tag4.rest)
  IN  /\ tag1.ok /\ tag1.tag = 1 /\ tag1.wire = WT_STRING
      /\ data.ok /\ data.value = p.data
      /\ tag2.ok /\ tag2.tag = 2 /\ tag2.wire = WT_VARINT
      /\ number.ok /\ Number(number.value) = p.sequence_number
      /\ tag3.ok /\ tag3.tag = 3 /\ tag3.wire = WT_VARINT
      /\ crc.ok /\ crc.value = calculate_crc(p.data)
      /\ tag4.ok /\ tag4.tag = 4 /\ tag4.wire = WT_VARINT
      /\ flag.ok /\ Number(flag.value) = FlagValue(p.flag)
      /\ flag.rest = <<>>

\* The bits of a byte make up the byte.
LEMMA ByteBitsFound ==
  ASSUME NEW n \in Octet
  PROVE  Bits(n) \in SUBSET (0..63) /\ Number(Bits(n)) = n
<1>1. n \in Nat /\ n <= 255 /\ Pow[30] = 1073741824
  BY ByteFacts DEF Pow
<1>2. Bits(n) \in SUBSET (0..29) /\ Number(Bits(n)) = n
  BY <1>1, NumberOfBits
<1> QED
  BY <1>2

\* Strings of bytes.
Strings(parts) == parts \subseteq Seq(Octet)

\* Eight strings behind each other: each of them with what follows it.
InRow(t1, s, t2, u, t3, v, t4, f) ==
  \E r1, r2, r3, r4, r5, r6, r7 :
    /\ Strings({r1, r2, r3, r4, r5, r6, r7})
    /\ t1 \o s \o t2 \o u \o t3 \o v \o t4 \o f = t1 \o r1
    /\ r1 = s \o r2 /\ r2 = t2 \o r3 /\ r3 = u \o r4 /\ r4 = t3 \o r5
    /\ r5 = v \o r6 /\ r6 = t4 \o r7 /\ r7 = f

\* Strings behind each other can be read from the left, as they are written.
LEMMA FieldsInRow ==
  ASSUME NEW t1, NEW s, NEW t2, NEW u, NEW t3, NEW v, NEW t4, NEW f,
         Strings({t1, s, t2, u, t3, v, t4, f})
  PROVE  InRow(t1, s, t2, u, t3, v, t4, f)
<1>1. ASSUME NEW a \in Seq(Octet), NEW b \in Seq(Octet) PROVE a \o b \in Seq(Octet)
  BY ConcatFacts
<1>2. t1 \in Seq(Octet)
  BY DEF Strings
<1>3. s \in Seq(Octet)
  BY DEF Strings
<1>4. t2 \in Seq(Octet)
  BY DEF Strings
<1>5. u \in Seq(Octet)
  BY DEF Strings
<1>6. t3 \in Seq(Octet)
  BY DEF Strings
<1>7. v \in Seq(Octet)
  BY DEF Strings
<1>8. t4 \in Seq(Octet)
  BY DEF Strings
<1>9. f \in Seq(Octet)
  BY DEF Strings
<1>10. PICK r7 : r7 = f
  OBVIOUS
<1>11. r7 \in Seq(Octet)
  BY <1>9, <1>10
<1>12. PICK r6 : r6 = t4 \o r7
  OBVIOUS
<1>13. r6 \in Seq(Octet)
  BY <1>1, <1>8, <1>11, <1>12
<1>14. PICK r5 : r5 = v \o r6
  OBVIOUS
<1>15. r5 \in Seq(Octet)
  BY <1>1, <1>7, <1>13, <1>14
<1>16. PICK r4 : r4 = t3 \o r5
  OBVIOUS
<1>17. r4 \in Seq(Octet)
  BY <1>1, <1>6, <1>15, <1>16
<1>18. PICK r3 : r3 = u \o r4
  OBVIOUS
<1>19. r3 \in Seq(Octet)
  BY <1>1, <1>5, <1>17, <1>18
<1>20. PICK r2 : r2 = t2 \o r3
  OBVIOUS
<1>21. r2 \in Seq(Octet)
  BY <1>1, <1>4, <1>19, <1>20
<1>22. PICK r1 : r1 = s \o r2
  OBVIOUS
<1>23. r1 \in Seq(Octet)
  BY <1>1, <1>3, <1>21, <1>22
<1>24. PICK a2 : a2 = t1 \o s
  OBVIOUS
<1>25. a2 \in Seq(Octet)
  BY <1>1, <1>3, <1>2, <1>24
<1>26. PICK a3 : a3 = a2 \o t2
  OBVIOUS
<1>27. a3 \in Seq(Octet)
  BY <1>1, <1>4, <1>25, <1>26
<1>28. PICK a4 : a4 = a3 \o u
  OBVIOUS
<1>29. a4 \in Seq(Octet)
  BY <1>1, <1>5, <1>27, <1>28
<1>30. PICK a5 : a5 = a4 \o t3
  OBVIOUS
<1>31. a5 \in Seq(Octet)
  BY <1>1, <1>6, <1>29, <1>30
<1>32. PICK a6 : a6 = a5 \o v
  OBVIOUS
<1>33. a6 \in Seq(Octet)
  BY <1>1, <1>7, <1>31, <1>32
<1>34. PICK a7 : a7 = a6 \o t4
  OBVIOUS
<1>35. a7 \in Seq(Octet)
  BY <1>1, <1>8, <1>33, <1>34
<1>36. a7 \o r7 = a6 \o r6
  <2>1. (a6 \o t4) \o r7 = a6 \o (t4 \o r7)
    BY <1>33, <1>8, <1>11, ConcatThree
  <2> QED
    BY <1>34, <1>12, <2>1, Zenon
<1>37. a6 \o r6 = a5 \o r5
  <2>1. (a5 \o v) \o r6 = a5 \o (v \o r6)
    BY <1>31, <1>7, <1>13, ConcatThree
  <2> QED
    BY <1>32, <1>14, <2>1, Zenon
<1>38. a5 \o r5 = a4 \o r4
  <2>1. (a4 \o t3) \o r5 = a4 \o (t3 \o r5)
    BY <1>29, <1>6, <1>15, ConcatThree
  <2> QED
    BY <1>30, <1>16, <2>1, Zenon
<1>39. a4 \o r4 = a3 \o r3
  <2>1. (a3 \o u) \o r4 = a3 \o (u \o r4)
    BY <1>27, <1>5, <1>17, ConcatThree
  <2> QED
    BY <1>28, <1>18, <2>1, Zenon
<1>40. a3 \o r3 = a2 \o r2
  <2>1. (a2 \o t2) \o r3 = a2 \o (t2 \o r3)
    BY <1>25, <1>4, <1>19, ConcatThree
  <2> QED
    BY <1>26, <1>20, <2>1, Zenon
<1>41. a2 \o r2 = t1 \o r1
  <2>1. (t1 \o s) \o r2 = t1 \o (s \o r2)
    BY <1>2, <1>3, <1>21, ConcatThree
  <2> QED
    BY <1>24, <1>22, <2>1, Zenon
<1>42. t1 \o s \o t2 \o u \o t3 \o v \o t4 \o f = t1 \o r1
  <2>1. t1 \o s \o t2 \o u \o t3 \o v \o t4 \o f = a7 \o r7
    BY <1>10, <1>24, <1>26, <1>28, <1>30, <1>32, <1>34, Zenon
  <2> QED
    BY <1>36, <1>37, <1>38, <1>39, <1>40, <1>41, <2>1, Zenon
<1>43. Strings({r1, r2, r3, r4, r5, r6, r7})
  BY <1>23, <1>21, <1>19, <1>17, <1>15, <1>13, <1>11 DEF Strings
<1> QED
  BY <1>42, <1>43, <1>22, <1>20, <1>18, <1>16, <1>14, <1>12, <1>10, Zenon DEF InRow

\* The tags are bytes.
LEMMA TagsAreBytes ==
  /\ pb_encode_tag(WT_STRING, 1) \in Seq(Octet) /\ pb_encode_tag(WT_VARINT, 2) \in Seq(Octet)
  /\ pb_encode_tag(WT_VARINT, 3) \in Seq(Octet) /\ pb_encode_tag(WT_VARINT, 4) \in Seq(Octet)
<1>1. 10 \in Octet /\ 16 \in Octet /\ 24 \in Octet /\ 32 \in Octet
  BY ByteFacts
<1>2. << 10 >> \in Seq(Octet) /\ << 16 >> \in Seq(Octet) /\ << 24 >> \in Seq(Octet)
      /\ << 32 >> \in Seq(Octet)
  BY <1>1
<1> QED
  BY <1>2, TagBytes

\* The bits of a CRC are those of a byte.
LEMMA CrcBits == ASSUME NEW data \in Seq(Octet) PROVE calculate_crc(data) \in Bits8
<1>1. PICK a : Crcs(a, data) /\ calculate_crc(data) = a[Len(data)]
  BY CrcsExist
<1>2. Len(data) \in 0..Len(data)
  OBVIOUS
<1> QED
  BY <1>1, <1>2 DEF Crcs

\* Nothing behind a sequence.
LEMMA ConcatEmpty == ASSUME NEW e \in Seq(Octet) PROVE e \o <<>> = e
OBVIOUS

\* Whatever follows a marshalled Packet, _unmarshal() and pb_decode() find its fields and
\* their values in it, and nothing behind them: what process() hands on is what send() packed.
THEOREM PacketReadBack ==
  \A p : Valid(p) =>
    \A rest \in Seq(Octet) :
      /\ LengthDelimited(Wire(p) \o rest) = Value(Body(p), rest)
      /\ FoundIn(Body(p), p)
<1> SUFFICES ASSUME NEW p, Valid(p), NEW rest \in Seq(Octet)
             PROVE  /\ LengthDelimited(Wire(p) \o rest) = Value(Body(p), rest)
                    /\ FoundIn(Body(p), p)
  OBVIOUS
<1>1. Body(p) = Written(p) /\ Wire(p) = pb_encode_string(Written(p))
  BY PacketIsWritten
<1>2. PICK body \in Seq(Octet) : body = Body(p) /\ Len(body) < 2^30
  BY PacketIsWritten
<1>3. LengthDelimited(Wire(p) \o rest) = Value(Body(p), rest)
  BY <1>1, <1>2, FieldsReadBack
<1>4. PICK t1, t2, t3, t4 : /\ t1 = pb_encode_tag(WT_STRING, 1)
                            /\ t2 = pb_encode_tag(WT_VARINT, 2)
                            /\ t3 = pb_encode_tag(WT_VARINT, 3)
                            /\ t4 = pb_encode_tag(WT_VARINT, 4)
  OBVIOUS
<1>5. t1 \in Seq(Octet) /\ t2 \in Seq(Octet) /\ t3 \in Seq(Octet) /\ t4 \in Seq(Octet)
  BY <1>4, TagsAreBytes
<1>6. PICK data \in Seq(Octet) : data = p.data /\ Len(data) < 128
  BY DataMaxAssumption DEF Valid
<1>7. PICK s \in Seq(Octet) : s = pb_encode_string(data)
  <2>1. PICK n : n = Len(data)
    OBVIOUS
  <2>2. n \in Octet
    BY <1>6, <2>1, ByteFacts
  <2>3. << n >> \in Seq(Octet)
    BY <2>2
  <2>4. << n >> \o data \in Seq(Octet)
    BY <1>6, <2>3, ConcatFacts
  <2>5. pb_encode_string(data) = << n >> \o data
    BY <1>6, <2>1, ByteNumbers
  <2> QED
    BY <2>4, <2>5
<1>8. PICK number \in SUBSET (0..63) :
        number = Bits(p.sequence_number) /\ Number(number) = p.sequence_number
  BY ByteBitsFound DEF Valid
<1>9. PICK crc \in SUBSET (0..63) : crc = calculate_crc(data)
  <2>1. calculate_crc(data) \in Bits8
    BY <1>6, CrcBits
  <2>2. \A c \in Bits8 : c \in SUBSET (0..63)
    BY DEF Bits8, Bit
  <2> QED
    BY <2>1, <2>2
<1>10. PICK flag \in SUBSET (0..63) :
         flag = Bits(FlagValue(p.flag)) /\ Number(flag) = FlagValue(p.flag)
  <2>1. FlagValue(p.flag) \in Octet
    <3>1. FlagValue(p.flag) \in Nat /\ FlagValue(p.flag) <= 3
      BY FlagFacts DEF Valid
    <3> QED
      BY <3>1, ByteFacts
  <2> QED
    BY <2>1, ByteBitsFound
<1>11. PICK u, v, f : /\ u = pb_encode_varint(number)
                      /\ v = pb_encode_varint(crc)
                      /\ f = pb_encode_varint(flag)
  OBVIOUS
<1>12. u \in Seq(Octet) /\ v \in Seq(Octet) /\ f \in Seq(Octet)
  <2>1. ASSUME NEW bits \in SUBSET (0..63) PROVE pb_encode_varint(bits) \in Seq(Octet)
    BY VarintWritten DEF IsVarint
  <2> QED
    BY <1>11, <2>1
<1>13. Body(p) = t1 \o s \o t2 \o u \o t3 \o v \o t4 \o f
  BY <1>1, <1>4, <1>6, <1>7, <1>8, <1>9, <1>10, <1>11, Zenon DEF Written
<1>14. PICK r1, r2, r3, r4, r5, r6, r7 :
         /\ Strings({r1, r2, r3, r4, r5, r6, r7})
         /\ t1 \o s \o t2 \o u \o t3 \o v \o t4 \o f = t1 \o r1
         /\ r1 = s \o r2 /\ r2 = t2 \o r3 /\ r3 = u \o r4 /\ r4 = t3 \o r5
         /\ r5 = v \o r6 /\ r6 = t4 \o r7 /\ r7 = f
  <2>1. Strings({t1, s, t2, u, t3, v, t4, f})
    BY <1>5, <1>7, <1>12 DEF Strings
  <2>2. InRow(t1, s, t2, u, t3, v, t4, f)
    BY <2>1, FieldsInRow, Zenon
  <2> QED
    BY <2>2, Zenon DEF InRow
<1>15. /\ r1 \in Seq(Octet) /\ r2 \in Seq(Octet) /\ r3 \in Seq(Octet) /\ r4 \in Seq(Octet)
       /\ r5 \in Seq(Octet) /\ r6 \in Seq(Octet) /\ r7 \in Seq(Octet)
  BY <1>14 DEF Strings
<1>16. ASSUME NEW wire \in 0..7, NEW n \in 1..4, NEW after \in Seq(Octet)
       PROVE  pb_decode_tag(pb_encode_tag(wire, n) \o after)
                = [ok |-> TRUE, eof |-> FALSE, rest |-> after, tag |-> n, wire |-> wire]
  <2>1. n \in 1..2^29 - 1
    OBVIOUS
  <2> QED
    BY <2>1, FieldsReadBack
<1>17. /\ WT_VARINT \in 0..7 /\ WT_STRING \in 0..7
       /\ 1 \in 1..4 /\ 2 \in 1..4 /\ 3 \in 1..4 /\ 4 \in 1..4
  BY DEF WT_VARINT, WT_STRING
<1>18. PICK tag1, data1, tag2, number1, tag3, crc1, tag4, flag1 :
         /\ tag1 = pb_decode_tag(Body(p)) /\ data1 = LengthDelimited(r1)
         /\ tag2 = pb_decode_tag(r2) /\ number1 = pb_decode_varint(r3)
         /\ tag3 = pb_decode_tag(r4) /\ crc1 = pb_decode_varint(r5)
         /\ tag4 = pb_decode_tag(r6) /\ flag1 = pb_decode_varint(r7)
  OBVIOUS
<1>19. tag1 = [ok |-> TRUE, eof |-> FALSE, rest |-> r1, tag |-> 1, wire |-> WT_STRING]
  <2>1. pb_decode_tag(pb_encode_tag(WT_STRING, 1) \o r1)
          = [ok |-> TRUE, eof |-> FALSE, rest |-> r1, tag |-> 1, wire |-> WT_STRING]
    BY <1>15, <1>16, <1>17, Zenon
  <2>2. Body(p) = pb_encode_tag(WT_STRING, 1) \o r1
    BY <1>4, <1>13, <1>14, Zenon
  <2> QED
    BY <1>18, <2>1, <2>2, Zenon
<1>20. data1 = Value(data, r2)
  <2>1. Len(data) < 2^30
    BY <1>6
  <2> QED
    BY <1>7, <1>14, <1>15, <1>18, <2>1, FieldsReadBack
<1>21. tag2 = [ok |-> TRUE, eof |-> FALSE, rest |-> r3, tag |-> 2, wire |-> WT_VARINT]
  <2>1. pb_decode_tag(pb_encode_tag(WT_VARINT, 2) \o r3)
          = [ok |-> TRUE, eof |-> FALSE, rest |-> r3, tag |-> 2, wire |-> WT_VARINT]
    BY <1>15, <1>16, <1>17, Zenon
  <2>2. r2 = pb_encode_tag(WT_VARINT, 2) \o r3
    BY <1>4, <1>13, <1>14, Zenon
  <2> QED
    BY <1>18, <2>1, <2>2, Zenon
<1>22. number1 = Value(number, r4)
  <2>1. pb_decode_varint(pb_encode_varint(number) \o r4) = Value(number, r4)
    BY <1>8, <1>15, IntegersReadBack, Zenon
  <2> QED
    BY <1>11, <1>14, <1>18, <2>1, Zenon
<1>23. tag3 = [ok |-> TRUE, eof |-> FALSE, rest |-> r5, tag |-> 3, wire |-> WT_VARINT]
  <2>1. pb_decode_tag(pb_encode_tag(WT_VARINT, 3) \o r5)
          = [ok |-> TRUE, eof |-> FALSE, rest |-> r5, tag |-> 3, wire |-> WT_VARINT]
    BY <1>15, <1>16, <1>17, Zenon
  <2>2. r4 = pb_encode_tag(WT_VARINT, 3) \o r5
    BY <1>4, <1>13, <1>14, Zenon
  <2> QED
    BY <1>18, <2>1, <2>2, Zenon
<1>24. crc1 = Value(crc, r6)
  <2>1. pb_decode_varint(pb_encode_varint(crc) \o r6) = Value(crc, r6)
    BY <1>9, <1>15, IntegersReadBack, Zenon
  <2> QED
    BY <1>11, <1>14, <1>18, <2>1, Zenon
<1>25. tag4 = [ok |-> TRUE, eof |-> FALSE, rest |-> r7, tag |-> 4, wire |-> WT_VARINT]
  <2>1. pb_decode_tag(pb_encode_tag(WT_VARINT, 4) \o r7)
          = [ok |-> TRUE, eof |-> FALSE, rest |-> r7, tag |-> 4, wire |-> WT_VARINT]
    BY <1>15, <1>16, <1>17, Zenon
  <2>2. r6 = pb_encode_tag(WT_VARINT, 4) \o r7
    BY <1>4, <1>13, <1>14, Zenon
  <2> QED
    BY <1>18, <2>1, <2>2, Zenon
<1>26. flag1 = Value(flag, <<>>)
  <2>1. << >> \in Seq(Octet)
    OBVIOUS
  <2>2. pb_decode_varint(pb_encode_varint(flag) \o << >>) = Value(flag, << >>)
    BY <1>10, <2>1, IntegersReadBack, Zenon
  <2>3. f \o << >> = f
    BY <1>12, ConcatEmpty
  <2> QED
    BY <1>11, <1>14, <1>18, <2>2, <2>3, Zenon
<1>27. /\ tag1.rest = r1 /\ data1.rest = r2 /\ tag2.rest = r3 /\ number1.rest = r4
       /\ tag3.rest = r5 /\ crc1.rest = r6 /\ tag4.rest = r7 /\ flag1.rest = <<>>
  BY <1>19, <1>20, <1>21, <1>22, <1>23, <1>24, <1>25, <1>26 DEF Value
<1>28. /\ tag1.ok /\ tag1.tag = 1 /\ tag1.wire = WT_STRING
       /\ data1.ok /\ data1.value = p.data
       /\ tag2.ok /\ tag2.tag = 2 /\ tag2.wire = WT_VARINT
       /\ number1.ok /\ Number(number1.value) = p.sequence_number
  BY <1>6, <1>8, <1>19, <1>20, <1>21, <1>22 DEF Value
<1>29. /\ tag3.ok /\ tag3.tag = 3 /\ tag3.wire = WT_VARINT
       /\ crc1.ok /\ crc1.value = calculate_crc(p.data)
       /\ tag4.ok /\ tag4.tag = 4 /\ tag4.wire = WT_VARINT
       /\ flag1.ok /\ Number(flag1.value) = FlagValue(p.flag)
  BY <1>6, <1>9, <1>10, <1>23, <1>24, <1>25, <1>26 DEF Value
<1>30. FoundIn(Body(p), p)
  BY <1>18, <1>27, <1>28, <1>29, Zenon DEF FoundIn
<1> QED
  BY <1>3, <1>30
=============================================================================
