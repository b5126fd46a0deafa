------------------------------ MODULE Cobs_proofs ------------------------------
(***************************************************************************)
(* Proofs about COBS and COBS/R for every source, however long: what is    *)
(* encoded holds no zero, fits, and is decoded to the source.  Both        *)
(* directions are recursive functions, about which is reasoned from the    *)
(* end of the source towards its beginning.                                *)
(***************************************************************************)
EXTENDS Cobs, SequenceTheorems, WellFoundedInduction, TLAPS

\* Bytes are numbers.
LEMMA ByteFacts == \A b : b \in Octet <=> b \in Nat /\ b <= 255
BY DEF Octet

\* The bytes of two sequences, one behind the other.
LEMMA ConcatFacts ==
  ASSUME NEW a \in Seq(Octet), NEW b \in Seq(Octet)
  PROVE  /\ a \o b \in Seq(Octet)
         /\ Len(a \o b) = Len(a) + Len(b)
         /\ \A k \in 1..Len(a) : (a \o b)[k] = a[k]
         /\ \A k \in 1..Len(b) : (a \o b)[Len(a) + k] = b[k]
<1>1. a \o b \in Seq(Octet) /\ Len(a \o b) = Len(a) + Len(b)
  OBVIOUS
<1>2. \A k \in 1..Len(a) : (a \o b)[k] = a[k]
  OBVIOUS
<1>3. \A k \in 1..Len(b) : (a \o b)[Len(a) + k] = b[k]
  OBVIOUS
<1> QED
  BY <1>1, <1>2, <1>3

\* Three one behind the other, whichever two are joined first.
LEMMA ConcatThree ==
  ASSUME NEW a \in Seq(Octet), NEW b \in Seq(Octet), NEW c \in Seq(Octet)
  PROVE  (a \o b) \o c = a \o (b \o c)
BY ConcatAssociative

-----------------------------------------------------------------------------
(* Numbers. *)

\* Every set of numbers that is not empty has a least member.
LEMMA Least ==
  ASSUME NEW T, T \subseteq Nat, T # {}
  PROVE  \E n \in T : \A k \in T : n <= k
<1> DEFINE R == OpToRel(<, Nat)
<1>1. IsWellFoundedOn(R, Nat)
  BY NatLessThanWellFounded
<1>2. PICK n \in T : \A k \in T : ~(<<k, n>> \in R)
  BY <1>1, WFMin
<1>3. \A k \in T : n <= k
  <2> SUFFICES ASSUME NEW k \in T, k < n PROVE FALSE
    OBVIOUS
  <2>1. <<k, n>> \in R
    BY DEF OpToRel
  <2> QED
    BY <1>2, <2>1
<1> QED
  BY <1>3

\* Which Min is.
LEMMA MinFacts ==
  ASSUME NEW T, T \subseteq Nat, T # {}
  PROVE  Min(T) \in T /\ \A k \in T : Min(T) <= k
BY Least DEF Min

\* Induction: a set that holds 0, and with each number the next one, holds them all.
LEMMA Upwards ==
  ASSUME NEW T, 0 \in T, \A n \in Nat : n \in T => n + 1 \in T
  PROVE  Nat \subseteq T
<1> SUFFICES ASSUME Nat \ T # {} PROVE FALSE
  OBVIOUS
<1>1. PICK n \in Nat \ T : \A k \in Nat \ T : n <= k
  BY Least
<1>2. n # 0 /\ n - 1 \in Nat /\ n - 1 \in T
  BY <1>1
<1> QED
  BY <1>1, <1>2

-----------------------------------------------------------------------------
(* Blocks. *)

\* A block ends at a zero, behind 254 bytes or at the end of the source, and holds no zero.
LEMMA BlockEndFacts ==
  ASSUME NEW s \in Seq(Octet), NEW first \in 1..Len(s) + 1
  PROVE  LET end == BlockEnd(s, first) IN
         /\ end \in first..Len(s) + 1
         /\ end <= first + 254
         /\ \A k \in first..end - 1 : s[k] # 0
         /\ \/ end = Len(s) + 1
            \/ end = first + 254 /\ end <= Len(s)
            \/ end < first + 254 /\ end <= Len(s) /\ s[end] = 0
<1> DEFINE ends == {k \in first..Len(s) : s[k] = 0} \union {Len(s) + 1, first + LongBlock}
<1>1. ends \subseteq Nat /\ Len(s) + 1 \in ends /\ first + 254 \in ends
  BY DEF LongBlock
<1>2. /\ Min(ends) \in ends
      /\ Min(ends) <= Len(s) + 1
      /\ Min(ends) <= first + 254
      /\ \A k \in first..Len(s) : s[k] = 0 => Min(ends) <= k
  <2> HIDE DEF ends
  <2>1. Min(ends) \in ends /\ \A k \in ends : Min(ends) <= k
    BY <1>1, MinFacts
  <2> QED
    BY <1>1, <2>1 DEF ends
<1>3. BlockEnd(s, first) = Min(ends)
  BY DEF BlockEnd
<1>4. PICK end : end = Min(ends)
  OBVIOUS
<1>5. \/ end \in first..Len(s) /\ s[end] = 0
      \/ end = Len(s) + 1
      \/ end = first + 254
  BY <1>2, <1>4 DEF LongBlock
<1> HIDE DEF ends
<1>6. end \in first..Len(s) + 1
  BY <1>1, <1>2, <1>4, <1>5
<1>7. \A k \in first..end - 1 : s[k] # 0
  BY <1>2, <1>4, <1>6
<1>8. \/ end = Len(s) + 1
      \/ end = first + 254 /\ end <= Len(s)
      \/ end < first + 254 /\ end <= Len(s) /\ s[end] = 0
  BY <1>2, <1>4, <1>5, <1>6
<1> QED
  BY <1>2, <1>3, <1>4, <1>6, <1>7, <1>8


\* The block behind it begins further on, and not behind the end of the source.
LEMMA NextBlockFacts ==
  ASSUME NEW s \in Seq(Octet), NEW first \in 1..Len(s) + 1,
         BlockEnd(s, first) # Len(s) + 1
  PROVE  NextBlock(s, first) \in first + 1..Len(s) + 1
<1>1. PICK end : end = BlockEnd(s, first)
  OBVIOUS
<1>2. end \in first..Len(s) /\ (end = first + 254 \/ end < first + 254)
  BY <1>1, BlockEndFacts
<1>3. NextBlock(s, first) = IF end = first + 254 THEN end ELSE end + 1
  BY <1>1 DEF NextBlock, LongBlock
<1> QED
  BY <1>2, <1>3

\* A block's bytes.
LEMMA BlockFacts ==
  ASSUME NEW s \in Seq(Octet), NEW first \in 1..Len(s) + 1, NEW end \in first..Len(s) + 1
  PROVE  /\ Block(s, first, end) \in Seq(Octet)
         /\ Len(Block(s, first, end)) = end - first
         /\ \A k \in 1..end - first : Block(s, first, end)[k] = s[first + k - 1]
BY SubSeqProperties DEF Block

-----------------------------------------------------------------------------
(* The recursive functions are what their definitions say.                 *)

\* What is written of a source from first on, given what is written from later positions on.
StuffedBy(s, reduced, from, first) ==
  LET end == BlockEnd(s, first)
      block == Block(s, first, end)
  IN  IF end # Len(s) + 1 THEN Coded(block) \o from[NextBlock(s, first)]
      ELSE IF reduced THEN Reduced(block)
      ELSE Coded(block)

\* Only later positions matter.
LEMMA StuffedByLater ==
  ASSUME NEW s \in Seq(Octet), NEW reduced, NEW first \in 1..Len(s) + 1,
         NEW f, NEW g, \A k \in first + 1..Len(s) + 1 : f[k] = g[k]
  PROVE  StuffedBy(s, reduced, f, first) = StuffedBy(s, reduced, g, first)
BY NextBlockFacts DEF StuffedBy

\* The recursive function is one: StuffedFrom(s, reduced) has at every position the value that
\* its definition gives it there.
LEMMA StuffedFromIs ==
  ASSUME NEW s \in Seq(Octet), NEW reduced
  PROVE  LET f == StuffedFrom(s, reduced) IN
         \A first \in 1..Len(s) + 1 : f[first] = StuffedBy(s, reduced, f, first)
<1> DEFINE L == Len(s)
           Solves(f, n) == f = [first \in L + 1 - n..L + 1 |-> StuffedBy(s, reduced, f, first)]
           T == {n \in Nat : n <= L => \E f : Solves(f, n)}
<1>1. L \in Nat
  OBVIOUS
<1>2. 0 \in T
  <2> DEFINE f == [first \in L + 1..L + 1 |-> StuffedBy(s, reduced, <<>>, first)]
  <2>1. ASSUME NEW first \in L + 1..L + 1
        PROVE  StuffedBy(s, reduced, <<>>, first) = StuffedBy(s, reduced, f, first)
    <3>1. first \in 1..L + 1 /\ \A k \in first + 1..L + 1 : <<>>[k] = f[k]
      BY <1>1
    <3> HIDE DEF f
    <3> QED
      BY <3>1, StuffedByLater
  <2>2. Solves(f, 0)
    BY <1>1, <2>1
  <2> QED
    BY <2>2
<1>3. ASSUME NEW n \in Nat, n \in T PROVE n + 1 \in T
  <2> SUFFICES ASSUME n + 1 <= L PROVE \E f : Solves(f, n + 1)
    BY <1>3
  <2>1. PICK f : Solves(f, n)
    BY <1>1, <1>3
  <2> DEFINE g == [first \in L - n..L + 1 |->
                     IF first = L - n THEN StuffedBy(s, reduced, f, first) ELSE f[first]]
  <2>2. \A first \in L + 1 - n..L + 1 : g[first] = f[first]
    BY <1>1
  <2>3. ASSUME NEW first \in L - n..L + 1
        PROVE  g[first] = StuffedBy(s, reduced, g, first)
    <3>1. first \in 1..L + 1 /\ \A k \in first + 1..L + 1 : f[k] = g[k]
      BY <1>1, <2>2
    <3>2. g[first] = StuffedBy(s, reduced, f, first)
      <4>1. CASE first = L - n
        BY <4>1
      <4>2. CASE first # L - n
        <5>1. first \in L + 1 - n..L + 1
          BY <1>1, <4>2
        <5>2. f[first] = StuffedBy(s, reduced, f, first)
          BY <2>1, <5>1, Zenon
        <5>3. g[first] = f[first]
          BY <4>2
        <5> QED
          BY <5>2, <5>3
      <4> QED
        BY <4>1, <4>2
    <3> HIDE DEF g
    <3> QED
      BY <3>1, <3>2, StuffedByLater
  <2>4. g = [first \in L - n..L + 1 |-> StuffedBy(s, reduced, g, first)]
    BY <2>3
  <2>5. Solves(g, n + 1)
    BY <1>1, <2>4, L + 1 - (n + 1) = L - n
  <2> QED
    BY <2>5
<1>4. \E f : f = [first \in 1..L + 1 |-> StuffedBy(s, reduced, f, first)]
  <2>1. L \in T
    <3> HIDE DEF T
    <3> QED BY <1>1, <1>2, <1>3, Upwards
  <2>2. PICK f : Solves(f, L)
    BY <2>1
  <2> QED
    BY <1>1, <2>2, L + 1 - L = 1
<1>5. StuffedFrom(s, reduced)
        = CHOOSE f : f = [first \in 1..L + 1 |-> StuffedBy(s, reduced, f, first)]
  BY DEF StuffedFrom, StuffedBy
<1> QED
  BY <1>4, <1>5

\* What is read of an encoding from at on, given what is read from later positions on.
UnstuffedBy(s, from, at) ==
  Read(s, at, s[at], at + s[at], SubSeq(s, at + 1, Min({at + s[at] - 1, Len(s)})),
       from[at + s[at]])

\* Only later positions matter, as a code that is not zero leads forward.
LEMMA UnstuffedByLater ==
  ASSUME NEW s \in Seq(Octet), NEW at \in 1..Len(s) + 1,
         NEW f, NEW g, \A k \in at + 1..Len(s) + 1 : f[k] = g[k]
  PROVE  UnstuffedBy(s, f, at) = UnstuffedBy(s, g, at)
<1>1. CASE at > Len(s)
  BY <1>1 DEF UnstuffedBy, Read
<1>2. CASE at <= Len(s) /\ s[at] = 0
  BY <1>2 DEF UnstuffedBy, Read
<1>3. CASE at <= Len(s) /\ s[at] # 0 /\ at + s[at] > Len(s)
  BY <1>3 DEF UnstuffedBy, Read
<1>4. CASE at <= Len(s) /\ s[at] # 0 /\ at + s[at] <= Len(s)
  <2>1. s[at] \in Octet
    BY <1>4
  <2>2. at + s[at] \in at + 1..Len(s) + 1
    BY <1>4, <2>1, ByteFacts
  <2>3. f[at + s[at]] = g[at + s[at]]
    BY <2>2
  <2> QED
    BY <1>4, <2>3, Zenon DEF UnstuffedBy, Read
<1>5. at \in Nat /\ Len(s) \in Nat /\ (at <= Len(s) => s[at] \in Nat)
  BY ByteFacts
<1> QED
  BY <1>1, <1>2, <1>3, <1>4, <1>5

\* The recursive function of the decoding has at every position the value that its definition
\* gives it there.
LEMMA UnstuffedFromIs ==
  ASSUME NEW s \in Seq(Octet)
  PROVE  LET f == UnstuffedFrom(s) IN
         \A at \in 1..Len(s) + 1 : f[at] = UnstuffedBy(s, f, at)
<1> DEFINE L == Len(s)
           Solves(f, n) == f = [at \in L + 1 - n..L + 1 |-> UnstuffedBy(s, f, at)]
           T == {n \in Nat : n <= L => \E f : Solves(f, n)}
<1>1. L \in Nat
  OBVIOUS
<1>2. 0 \in T
  <2> DEFINE f == [at \in L + 1..L + 1 |-> UnstuffedBy(s, <<>>, at)]
  <2>1. ASSUME NEW at \in L + 1..L + 1
        PROVE  UnstuffedBy(s, <<>>, at) = UnstuffedBy(s, f, at)
    <3>1. at \in 1..L + 1 /\ \A k \in at + 1..L + 1 : <<>>[k] = f[k]
      BY <1>1
    <3> HIDE DEF f
    <3> QED
      BY <3>1, UnstuffedByLater
  <2>2. Solves(f, 0)
    BY <1>1, <2>1
  <2> QED
    BY <2>2
<1>3. ASSUME NEW n \in Nat, n \in T PROVE n + 1 \in T
  <2> SUFFICES ASSUME n + 1 <= L PROVE \E f : Solves(f, n + 1)
    BY <1>3
  <2>1. PICK f : Solves(f, n)
    BY <1>1, <1>3
  <2> DEFINE g == [at \in L - n..L + 1 |->
                     IF at = L - n THEN UnstuffedBy(s, f, at) ELSE f[at]]
  <2>2. \A at \in L + 1 - n..L + 1 : g[at] = f[at]
    BY <1>1
  <2>3. ASSUME NEW at \in L - n..L + 1
        PROVE  g[at] = UnstuffedBy(s, g, at)
    <3>1. at \in 1..L + 1 /\ \A k \in at + 1..L + 1 : f[k] = g[k]
      BY <1>1, <2>2
    <3>2. g[at] = UnstuffedBy(s, f, at)
      <4>1. CASE at = L - n
        BY <4>1
      <4>2. CASE at # L - n
        <5>1. at \in L + 1 - n..L + 1
          BY <1>1, <4>2
        <5>2. f[at] = UnstuffedBy(s, f, at)
          BY <2>1, <5>1, Zenon
        <5>3. g[at] = f[at]
          BY <4>2
        <5> QED
          BY <5>2, <5>3
      <4> QED
        BY <4>1, <4>2
    <3> HIDE DEF g
    <3> QED
      BY <3>1, <3>2, UnstuffedByLater
  <2>4. g = [at \in L - n..L + 1 |-> UnstuffedBy(s, g, at)]
    BY <2>3
  <2>5. Solves(g, n + 1)
    BY <1>1, <2>4, L + 1 - (n + 1) = L - n
  <2> QED
    BY <2>5
<1>4. \E f : f = [at \in 1..L + 1 |-> UnstuffedBy(s, f, at)]
  <2>1. L \in T
    <3> HIDE DEF T
    <3> QED BY <1>1, <1>2, <1>3, Upwards
  <2>2. PICK f : Solves(f, L)
    BY <2>1
  <2> QED
    BY <1>1, <2>2, L + 1 - L = 1
<1>5. UnstuffedFrom(s) = CHOOSE f : f = [at \in 1..L + 1 |-> UnstuffedBy(s, f, at)]
  BY DEF UnstuffedFrom, UnstuffedBy
<1> QED
  BY <1>4, <1>5

-----------------------------------------------------------------------------
(* One block. *)

\* From the end towards the beginning: what holds of a position whenever it holds of all
\* later ones holds of every position.
LEMMA Backwards ==
  ASSUME NEW L \in Nat, NEW G,
         \A first \in 1..L + 1 : (\A k \in first + 1..L + 1 : k \in G) => first \in G
  PROVE  \A first \in 1..L + 1 : first \in G
<1> DEFINE T == {L + 1 - first : first \in {k \in 1..L + 1 : k \notin G}}
<1> SUFFICES ASSUME NEW bad \in 1..L + 1, bad \notin G PROVE FALSE
  OBVIOUS
<1>1. T \subseteq Nat /\ T # {}
  OBVIOUS
<1>2. PICK n \in T : \A k \in T : n <= k
  <2> HIDE DEF T
  <2> QED BY <1>1, Least
<1>3. PICK first \in 1..L + 1 : first \notin G /\ n = L + 1 - first
  BY <1>2
<1>4. ASSUME NEW k \in first + 1..L + 1 PROVE k \in G
  <2> SUFFICES ASSUME k \notin G PROVE FALSE
    OBVIOUS
  <2>1. k \in 1..L + 1
    BY <1>3
  <2>2. L + 1 - k \in T
    BY <2>1
  <2>3. n <= L + 1 - k
    BY <1>2, <2>2
  <2> QED
    BY <1>3, <2>1, <2>3
<1> QED
  BY <1>3, <1>4

\* The lesser of two numbers.
LEMMA MinOfTwo ==
  ASSUME NEW a \in Nat, NEW b \in Nat
  PROVE  Min({a, b}) = IF a <= b THEN a ELSE b
<1>1. {a, b} \subseteq Nat /\ {a, b} # {}
  OBVIOUS
<1>2. Min({a, b}) \in {a, b} /\ Min({a, b}) <= a /\ Min({a, b}) <= b
  BY <1>1, MinFacts
<1> QED
  BY <1>2

Zeroless(seq) == \A k \in 1..Len(seq) : seq[k] # 0

\* A coded block is its bytes behind their number plus one.
LEMMA CodedFacts ==
  ASSUME NEW block \in Seq(Octet), Len(block) <= 254
  PROVE  /\ Coded(block) = <<Len(block) + 1>> \o block
         /\ Coded(block) \in Seq(Octet)
         /\ Len(Coded(block)) = Len(block) + 1
         /\ Zeroless(block) => Zeroless(Coded(block))
<1>1. Len(block) \in Nat /\ Len(block) + 1 \in Octet
  BY ByteFacts
<1>2. <<Len(block) + 1>> \in Seq(Octet)
  BY <1>1
<1>3. Coded(block) = <<Len(block) + 1>> \o block
  BY DEF Coded
<1>4. /\ Coded(block) \in Seq(Octet)
      /\ Len(Coded(block)) = Len(block) + 1
      /\ \A k \in 1..Len(block) + 1 :
           Coded(block)[k] = IF k = 1 THEN Len(block) + 1 ELSE block[k - 1]
  BY <1>1, <1>2, <1>3
<1> QED
  BY <1>1, <1>3, <1>4 DEF Zeroless

\* A reduced block is coded, or its last byte is in the place of a code that is less.
LEMMA ReducedFacts ==
  ASSUME NEW block \in Seq(Octet), Len(block) <= 254, Zeroless(block)
  PROVE  \/ Reduced(block) = Coded(block)
         \/ /\ block # <<>>
            /\ block[Len(block)] > Len(block)
            /\ Reduced(block) = <<block[Len(block)]>> \o SubSeq(block, 1, Len(block) - 1)
            /\ Reduced(block) \in Seq(Octet)
            /\ Len(Reduced(block)) = Len(block)
            /\ Zeroless(Reduced(block))
<1>1. CASE ~(block # <<>> /\ Last(block) > Len(block))
  BY <1>1 DEF Reduced
<1>2. CASE block # <<>> /\ Last(block) > Len(block)
  <2> DEFINE front == SubSeq(block, 1, Len(block) - 1)
  <2>1. Last(block) = block[Len(block)] /\ Front(block) = front
    BY <1>2 DEF Last, Front
  <2>2. Len(block) \in Nat \ {0} /\ block[Len(block)] \in Octet
    BY <1>2
  <2>3. /\ front \in Seq(Octet)
        /\ Len(front) = Len(block) - 1
        /\ \A k \in 1..Len(block) - 1 : front[k] = block[k]
    <3>1. \A k \in 1..Len(block) - 1 : block[k] \in Octet
      BY <2>2
    <3>2. PICK n \in Nat : n = Len(block) - 1
      BY <2>2
    <3>3. /\ front \in Seq(Octet)
          /\ Len(front) = IF 1 <= n THEN n - 1 + 1 ELSE 0
          /\ \A k \in 1..n - 1 + 1 : front[k] = block[1 + k - 1]
      BY <3>1, <3>2, SubSeqProperties
    <3>4. Len(front) = n
      BY <3>2, <3>3
    <3>5. ASSUME NEW k \in 1..n PROVE front[k] = block[k]
      BY <3>2, <3>3, n - 1 + 1 = n, 1 + k - 1 = k
    <3> QED
      BY <3>2, <3>3, <3>4, <3>5
  <2>4. Reduced(block) = <<block[Len(block)]>> \o front
    BY <1>2, <2>1 DEF Reduced
  <2> HIDE DEF front
  <2>5. /\ Reduced(block) \in Seq(Octet)
        /\ Len(Reduced(block)) = Len(block)
        /\ \A k \in 1..Len(block) :
             Reduced(block)[k] = IF k = 1 THEN block[Len(block)] ELSE block[k - 1]
    BY <2>2, <2>3, <2>4
  <2>6. Zeroless(Reduced(block))
    BY <2>2, <2>5 DEF Zeroless
  <2> QED
    BY <1>2, <2>1, <2>4, <2>5, <2>6 DEF front
<1> QED
  BY <1>1, <1>2

\* A block in the middle of a source is coded and followed by the rest, the last one is
\* coded or reduced.
LEMMA StuffedCases ==
  ASSUME NEW s \in Seq(Octet), NEW reduced \in BOOLEAN, NEW first \in 1..Len(s) + 1
  PROVE  LET F == StuffedFrom(s, reduced)
             end == BlockEnd(s, first)
             block == Block(s, first, end)
         IN  /\ block \in Seq(Octet)
             /\ Len(block) = end - first
             /\ Len(block) <= 254
             /\ Zeroless(block)
             /\ \A k \in 1..Len(block) : block[k] = s[first + k - 1]
             /\ \/ end # Len(s) + 1 /\ F[first] = Coded(block) \o F[NextBlock(s, first)]
                \/ end = Len(s) + 1 /\ F[first] = IF reduced THEN Reduced(block) ELSE Coded(block)
<1> DEFINE end == BlockEnd(s, first)
           block == Block(s, first, end)
           F == StuffedFrom(s, reduced)
<1>1. /\ end \in first..Len(s) + 1
      /\ end <= first + 254
      /\ \A k \in first..end - 1 : s[k] # 0
  BY BlockEndFacts
<1>2. F[first] = StuffedBy(s, reduced, F, first)
  BY StuffedFromIs
<1>3. \/ end # Len(s) + 1 /\ F[first] = Coded(block) \o F[NextBlock(s, first)]
      \/ end = Len(s) + 1 /\ F[first] = IF reduced THEN Reduced(block) ELSE Coded(block)
  BY <1>2 DEF StuffedBy
<1> HIDE DEF end, F
<1>4. /\ block \in Seq(Octet)
      /\ Len(block) = end - first
      /\ \A k \in 1..end - first : block[k] = s[first + k - 1]
  BY <1>1, BlockFacts
<1> HIDE DEF block
<1>5. Zeroless(block)
  <2> SUFFICES ASSUME NEW k \in 1..Len(block) PROVE block[k] # 0
    BY DEF Zeroless
  <2>1. first + k - 1 \in first..end - 1
    BY <1>1, <1>4
  <2> QED
    BY <1>1, <1>4, <2>1
<1>6. Len(block) <= 254
  BY <1>1, <1>4
<1> QED
  BY <1>3, <1>4, <1>5, <1>6 DEF end, block, F

-----------------------------------------------------------------------------
(* What is written. *)

\* Neither encoding is empty, and neither holds a zero.
LEMMA StuffedFacts ==
  ASSUME NEW s \in Seq(Octet), NEW reduced \in BOOLEAN
  PROVE  \A first \in 1..Len(s) + 1 :
           LET f == StuffedFrom(s, reduced)[first] IN
           f \in Seq(Octet) /\ f # <<>> /\ Zeroless(f)
<1> DEFINE F == StuffedFrom(s, reduced)
           G == {k \in 1..Len(s) + 1 : F[k] \in Seq(Octet) /\ F[k] # <<>> /\ Zeroless(F[k])}
<1>1. ASSUME NEW first \in 1..Len(s) + 1, \A k \in first + 1..Len(s) + 1 : k \in G
      PROVE  first \in G
  <2>1. PICK block : /\ block \in Seq(Octet) /\ Len(block) <= 254 /\ Zeroless(block)
                     /\ \/ /\ BlockEnd(s, first) # Len(s) + 1
                           /\ F[first] = Coded(block) \o F[NextBlock(s, first)]
                        \/ F[first] = Coded(block)
                        \/ F[first] = Reduced(block)
    <3> DEFINE b == Block(s, first, BlockEnd(s, first))
    <3>1. /\ b \in Seq(Octet) /\ Len(b) <= 254 /\ Zeroless(b)
          /\ \/ /\ BlockEnd(s, first) # Len(s) + 1
                /\ F[first] = Coded(b) \o F[NextBlock(s, first)]
             \/ F[first] = Coded(b)
             \/ F[first] = Reduced(b)
      BY StuffedCases
    <3> HIDE DEF b
    <3> QED
      BY <3>1
  <2>2. /\ Coded(block) \in Seq(Octet) /\ Len(Coded(block)) = Len(block) + 1
        /\ Zeroless(Coded(block))
    BY <2>1, CodedFacts
  <2>3. CASE BlockEnd(s, first) # Len(s) + 1 /\ F[first] = Coded(block) \o F[NextBlock(s, first)]
    <3>1. PICK rest : rest = F[NextBlock(s, first)]
      OBVIOUS
    <3>2. rest \in Seq(Octet) /\ rest # <<>> /\ Zeroless(rest)
      BY <1>1, <2>3, <3>1, NextBlockFacts
    <3>3. PICK code : code = Coded(block)
      OBVIOUS
    <3>4. code \o rest \in Seq(Octet) /\ code \o rest # <<>> /\ Zeroless(code \o rest)
      BY <2>1, <2>2, <3>2, <3>3 DEF Zeroless
    <3> QED
      BY <2>3, <3>1, <3>3, <3>4
  <2>4. CASE F[first] = Coded(block)
    BY <2>1, <2>2, <2>4
  <2>5. CASE F[first] = Reduced(block)
    <3>1. \/ Reduced(block) = Coded(block)
          \/ /\ block # <<>> /\ Reduced(block) \in Seq(Octet)
             /\ Len(Reduced(block)) = Len(block) /\ Zeroless(Reduced(block))
      BY <2>1, ReducedFacts
    <3> QED
      BY <2>1, <2>2, <2>5, <3>1
  <2> QED
    BY <2>1, <2>3, <2>4, <2>5
<1>2. \A first \in 1..Len(s) + 1 : first \in G
  <2>1. Len(s) \in Nat
    OBVIOUS
  <2>2. \A first \in 1..Len(s) + 1 : (\A k \in first + 1..Len(s) + 1 : k \in G) => first \in G
    BY <1>1
  <2> HIDE DEF G
  <2> QED
    BY <2>1, <2>2, Backwards
<1> QED
  BY <1>2

\* What cobs.h asks for, but for an empty source, whose encoding takes a byte.
Room(n) == IF n = 0 THEN 1 ELSE COBS_ENCODE_DST_BUF_LEN_MAX(n)

\* The room of a source is more than its length, and leaves a byte for the code of every block.
LEMMA RoomFacts ==
  /\ \A n \in Nat : Room(n) \in Nat /\ n < Room(n)
  /\ \A n \in Nat, b \in Nat : Room(n) + b + 1 <= Room(n + b + 1)
  /\ \A n \in Nat \ {0} : Room(n) + 255 <= Room(n + 254)
<1>1. \A n \in Nat : (n + 253) \div 254 \in Nat /\ (n > 0 => (n + 253) \div 254 > 0)
  OBVIOUS
<1>2. \A n, m \in Nat : n <= m => (n + 253) \div 254 <= (m + 253) \div 254
  OBVIOUS
<1>3. \A n \in Nat : (n + 254 + 253) \div 254 = (n + 253) \div 254 + 1
  OBVIOUS
<1>4. \A n \in Nat : Room(n) = IF n = 0 THEN 1 ELSE n + (n + 253) \div 254
  BY DEF Room, COBS_ENCODE_DST_BUF_LEN_MAX
<1>5. \A n \in Nat : Room(n) \in Nat /\ n < Room(n)
  BY <1>1, <1>4
<1>6. ASSUME NEW n \in Nat, NEW b \in Nat PROVE Room(n) + b + 1 <= Room(n + b + 1)
  <2>1. PICK m \in Nat : m = n + b + 1
    OBVIOUS
  <2> QED
    BY <1>1, <1>2, <1>4, <2>1
<1>7. ASSUME NEW n \in Nat \ {0} PROVE Room(n) + 255 <= Room(n + 254)
  BY <1>1, <1>3, <1>4
<1> QED
  BY <1>5, <1>6, <1>7


\* An encoding is longer than its source and not longer than cobs.h says; a reduced one may
\* be as short as the source, and is never the longer one.
LEMMA StuffedLength ==
  ASSUME NEW s \in Seq(Octet)
  PROVE  \A first \in 1..Len(s) + 1 :
           LET n == Len(s) + 1 - first
               coded == Len(StuffedFrom(s, FALSE)[first])
               reduced == Len(StuffedFrom(s, TRUE)[first])
           IN  n < coded /\ coded <= Room(n) /\ n <= reduced /\ reduced <= coded
<1> DEFINE E == StuffedFrom(s, FALSE)
           R == StuffedFrom(s, TRUE)
           Fits(k) == LET n == Len(s) + 1 - k IN
                      /\ n < Len(E[k]) /\ Len(E[k]) <= Room(n)
                      /\ n <= Len(R[k]) /\ Len(R[k]) <= Len(E[k])
           G == {k \in 1..Len(s) + 1 : Fits(k)}
<1>0. \A k \in 1..Len(s) + 1 : E[k] \in Seq(Octet) /\ R[k] \in Seq(Octet)
  <2>1. \A reduced \in BOOLEAN : \A k \in 1..Len(s) + 1 : StuffedFrom(s, reduced)[k] \in Seq(Octet)
    BY StuffedFacts
  <2> QED
    BY <2>1
<1>1. ASSUME NEW first \in 1..Len(s) + 1, \A k \in first + 1..Len(s) + 1 : Fits(k)
      PROVE  Fits(first)
  <2>1. PICK end : end = BlockEnd(s, first)
    OBVIOUS
  <2>2. PICK block : block = Block(s, first, end)
    OBVIOUS
  <2>3. /\ block \in Seq(Octet) /\ Len(block) = end - first /\ Len(block) <= 254
        /\ Zeroless(block)
        /\ \/ end # Len(s) + 1 /\ E[first] = Coded(block) \o E[NextBlock(s, first)]
           \/ end = Len(s) + 1 /\ E[first] = Coded(block)
        /\ \/ end # Len(s) + 1 /\ R[first] = Coded(block) \o R[NextBlock(s, first)]
           \/ end = Len(s) + 1 /\ R[first] = Reduced(block)
    <3>1. /\ block \in Seq(Octet) /\ Len(block) = end - first /\ Len(block) <= 254
          /\ Zeroless(block)
          /\ \/ end # Len(s) + 1 /\ E[first] = Coded(block) \o E[NextBlock(s, first)]
             \/ end = Len(s) + 1 /\ E[first] = IF FALSE THEN Reduced(block) ELSE Coded(block)
      BY ZenonT(30), FALSE \in BOOLEAN, <2>1, <2>2, StuffedCases
    <3>2. \/ end # Len(s) + 1 /\ R[first] = Coded(block) \o R[NextBlock(s, first)]
          \/ end = Len(s) + 1 /\ R[first] = IF TRUE THEN Reduced(block) ELSE Coded(block)
      BY ZenonT(30), TRUE \in BOOLEAN, <2>1, <2>2, StuffedCases
    <3> HIDE DEF E, R
    <3> QED
      BY <3>1, <3>2
  <2> HIDE DEF E, R
  <2>4. Coded(block) \in Seq(Octet) /\ Len(Coded(block)) = Len(block) + 1
    BY <2>3, CodedFacts
  <2>5. PICK n \in Nat : n = Len(s) + 1 - first
    OBVIOUS
  <2>6. PICK b \in Nat : b = end - first /\ b = Len(block)
    BY <2>3
  <2>7. CASE end # Len(s) + 1
    <3>1. PICK next : next = NextBlock(s, first)
      OBVIOUS
    <3>2. /\ next \in first + 1..Len(s) + 1
          /\ \/ b = 254 /\ next = first + 254 /\ next <= Len(s)
             \/ b < 254 /\ next = first + b + 1
      <4>1. next = IF end = first + 254 THEN end ELSE end + 1
        BY <2>1, <3>1 DEF NextBlock, LongBlock
      <4>2. /\ end \in first..Len(s) /\ end <= first + 254
            /\ end = first + 254 => end <= Len(s)
        BY <2>1, <2>7, BlockEndFacts
      <4>3. next \in first + 1..Len(s) + 1
        BY <2>1, <2>7, <3>1, NextBlockFacts
      <4> QED
        BY <2>6, <4>1, <4>2, <4>3
    <3>3. PICK m \in Nat : m = Len(s) + 1 - next
      BY <3>2
    <3>4. PICK e, r : e = E[next] /\ r = R[next]
      OBVIOUS
    <3>5. e \in Seq(Octet) /\ r \in Seq(Octet)
      BY <1>0, <3>2, <3>4
    <3>6. m < Len(e) /\ Len(e) <= Room(m) /\ m <= Len(r) /\ Len(r) <= Len(e)
      BY <1>1, <3>2, <3>3, <3>4
    <3>7. Len(E[first]) = b + 1 + Len(e) /\ Len(R[first]) = b + 1 + Len(r)
      <4>1. PICK code : code = Coded(block)
        OBVIOUS
      <4>2. E[first] = code \o e /\ R[first] = code \o r
        BY <2>3, <2>7, <3>1, <3>4, <4>1
      <4>3. code \in Seq(Octet) /\ Len(code) = b + 1
        BY <2>4, <2>6, <4>1
      <4>4. Len(code \o e) = Len(code) + Len(e) /\ Len(code \o r) = Len(code) + Len(r)
        BY <3>5, <4>3, ConcatFacts
      <4> QED
        BY <4>2, <4>3, <4>4
    <3>8. Len(e) \in Nat /\ Len(r) \in Nat /\ Room(m) \in Nat /\ Room(n) \in Nat
      <4>1. Room(m) \in Nat /\ Room(n) \in Nat
        BY RoomFacts
      <4> QED
        BY <3>5, <4>1
    <3>9. CASE b = 254 /\ next = first + 254 /\ next <= Len(s)
      <4>1. m \in Nat \ {0} /\ n = m + 254
        BY <2>5, <3>3, <3>9
      <4>2. Room(m) + 255 <= Room(n)
        BY <4>1, RoomFacts
      <4>3. /\ n < Len(E[first]) /\ Len(E[first]) <= Room(n)
            /\ n <= Len(R[first]) /\ Len(R[first]) <= Len(E[first])
        BY <3>6, <3>7, <3>8, <3>9, <4>1, <4>2
      <4> QED
        BY <2>5, <4>3
    <3>10. CASE b < 254 /\ next = first + b + 1
      <4>1. n = m + b + 1
        BY <2>5, <3>3, <3>10
      <4>2. Room(m) + b + 1 <= Room(n)
        BY <4>1, RoomFacts
      <4>3. /\ n < Len(E[first]) /\ Len(E[first]) <= Room(n)
            /\ n <= Len(R[first]) /\ Len(R[first]) <= Len(E[first])
        BY <3>6, <3>7, <3>8, <4>1, <4>2
      <4> QED
        BY <2>5, <4>3
    <3> QED
      BY <3>2, <3>9, <3>10
  <2>8. CASE end = Len(s) + 1
    <3>1. Len(E[first]) = n + 1
      BY <2>3, <2>4, <2>5, <2>6, <2>8
    <3>2. \/ Len(R[first]) = n + 1
          \/ Len(R[first]) = n
      <4>1. Reduced(block) = Coded(block) \/ Len(Reduced(block)) = Len(block)
        BY <2>3, ReducedFacts
      <4> QED
        BY <2>3, <2>4, <2>5, <2>6, <2>8, <4>1
    <3>3. Room(n) \in Nat /\ n < Room(n)
      BY RoomFacts
    <3>4. /\ n < Len(E[first]) /\ Len(E[first]) <= Room(n)
          /\ n <= Len(R[first]) /\ Len(R[first]) <= Len(E[first])
      BY <3>1, <3>2, <3>3
    <3> QED
      BY <2>5, <3>4
  <2> QED
    BY <2>7, <2>8
<1>2. \A first \in 1..Len(s) + 1 : Fits(first)
  <2>1. Len(s) \in Nat
    OBVIOUS
  <2> HIDE DEF Fits
  <2>2. \A first \in 1..Len(s) + 1 : (\A k \in first + 1..Len(s) + 1 : k \in G) => first \in G
    BY <1>1
  <2> HIDE DEF G
  <2>3. \A first \in 1..Len(s) + 1 : first \in G
    BY <2>1, <2>2, Backwards
  <2> QED
    BY <2>3 DEF G
<1> QED
  BY <1>2

-----------------------------------------------------------------------------
(* What is read. *)

\* At at there is a code, which is not 0; bytes, which hold no zero, are behind it up to next
\* or the end of s.
CodeAt(s, at, code, next, bytes) ==
  /\ at \in Nat /\ code \in Nat /\ next \in Nat /\ Len(s) \in Nat
  /\ at <= Len(s) /\ s[at] = code /\ code # 0 /\ next = at + code
  /\ \E last : last = Min({next - 1, Len(s)}) /\ bytes = SubSeq(s, at + 1, last)
  /\ 0 \notin Range(bytes)

\* Read without an error.
Fine(out, missing) == Reading(TRUE, out, missing)

\* A block's bytes, the zero that may follow, and what is read of the rest.
Joined(bytes, code, out) == bytes \o ZeroBehind(code) \o out

\* Something is left of s from next on.
Left(s, next) == next <= Len(s)

\* Read() is given these.
LEMMA ReadBlock ==
  ASSUME NEW s, NEW f, NEW at, NEW code, NEW next, NEW bytes,
         CodeAt(s, at, code, next, bytes)
  PROVE  UnstuffedBy(s, f, at) = Read(s, at, code, next, bytes, f[next])
<1>1. /\ at \in Nat /\ code \in Nat /\ next \in Nat /\ Len(s) \in Nat
      /\ s[at] = code /\ at + s[at] = next
  BY DEF CodeAt
<1>2. SubSeq(s, at + 1, Min({at + s[at] - 1, Len(s)})) = bytes
  <2>1. at + s[at] - 1 = next - 1
    BY <1>1
  <2>2. {at + s[at] - 1, Len(s)} = {next - 1, Len(s)}
    BY <2>1
  <2> QED
    BY <2>2, Zenon DEF CodeAt
<1> QED
  BY <1>1, <1>2, Zenon DEF UnstuffedBy

\* Before the end of s the rest is read as well.
MiddleRead(s, at, code, next, bytes, out, missing) ==
  CodeAt(s, at, code, next, bytes) /\ Left(s, next) =>
    Read(s, at, code, next, bytes, Fine(out, missing)) = Fine(Joined(bytes, code, out), missing)

\* Whatever is read of the rest: a block with more behind it is its bytes, the zero it stands
\* for, and the rest.
LEMMA ReadMiddle ==
  ASSUME NEW s, NEW at, NEW code, NEW next, NEW bytes, NEW out, NEW missing
  PROVE  MiddleRead(s, at, code, next, bytes, out, missing)
<1> SUFFICES ASSUME CodeAt(s, at, code, next, bytes), Left(s, next)
             PROVE  Read(s, at, code, next, bytes, Fine(out, missing))
                      = Fine(Joined(bytes, code, out), missing)
  BY DEF MiddleRead
<1>1. ~(at > Len(s)) /\ code # 0 /\ ~(next > Len(s))
  BY DEF CodeAt, Left
<1>2. PICK rest : rest = Fine(out, missing)
  OBVIOUS
<1>3. rest.ok = TRUE /\ rest.out = out /\ rest.missing = missing
  BY <1>2 DEF Reading, Fine
<1>4. (0 \notin Range(bytes) /\ rest.ok) = TRUE
  BY <1>3 DEF CodeAt
<1>5. Read(s, at, code, next, bytes, rest)
        = Reading(0 \notin Range(bytes) /\ rest.ok, bytes \o ZeroBehind(code) \o rest.out,
                  rest.missing)
  BY <1>1, Zenon DEF Read
<1> QED
  BY <1>2, <1>3, <1>4, <1>5, Zenon DEF Fine, Joined

\* At the end of s the code may announce one byte more, which it is itself.
LastRead(s, at, code, next, bytes, rest) ==
  CodeAt(s, at, code, next, bytes) /\ ~Left(s, next) =>
    Read(s, at, code, next, bytes, rest)
      = Fine(bytes, IF Len(bytes) < code - 1 THEN <<code>> ELSE <<>>)

\* The last block is its bytes, whatever would be read behind it.
LEMMA ReadLast ==
  ASSUME NEW s, NEW at, NEW code, NEW next, NEW bytes, NEW rest
  PROVE  LastRead(s, at, code, next, bytes, rest)
<1> SUFFICES ASSUME CodeAt(s, at, code, next, bytes), ~Left(s, next)
             PROVE  Read(s, at, code, next, bytes, rest)
                      = Fine(bytes, IF Len(bytes) < code - 1 THEN <<code>> ELSE <<>>)
  BY DEF LastRead
<1>1. ~(at > Len(s)) /\ code # 0 /\ next > Len(s)
  BY DEF CodeAt, Left
<1>2. (0 \notin Range(bytes)) = TRUE
  BY DEF CodeAt
<1> QED
  BY <1>1, <1>2, Zenon DEF Read, Fine

\* Behind pre there is a code with as many bytes as it announces, or with the last bytes
\* there are.
LEMMA CodeBehind ==
  ASSUME NEW pre \in Seq(Octet), NEW code \in Octet, NEW bytes \in Seq(Octet),
         NEW rest \in Seq(Octet),
         code # 0, Zeroless(bytes),
         Len(bytes) = code - 1 \/ (Len(bytes) < code - 1 /\ rest = <<>>)
  PROVE  LET s == pre \o ((<<code>> \o bytes) \o rest)
             at == Len(pre) + 1
         IN  /\ s \in Seq(Octet)
             /\ at \in 1..Len(s) + 1
             /\ CodeAt(s, at, code, at + code, bytes)
             /\ Left(s, at + code) <=> rest # <<>>
<1>1. code \in Nat \ {0}
  BY ByteFacts
<1>2. PICK p \in Nat : p = Len(pre)
  OBVIOUS
<1>3. PICK n \in Nat : n = Len(bytes)
  OBVIOUS
<1>4. PICK r \in Nat : r = Len(rest)
  OBVIOUS
<1>5. PICK c : c = <<code>> \o bytes
  OBVIOUS
<1>6. /\ c \in Seq(Octet) /\ Len(c) = n + 1
      /\ c[1] = code
      /\ \A k \in 1..n : c[k + 1] = bytes[k]
  BY <1>3, <1>5
<1>7. PICK tail : tail = c \o rest
  OBVIOUS
<1>8. /\ tail \in Seq(Octet)
      /\ Len(tail) = n + 1 + r
      /\ \A k \in 1..n + 1 : tail[k] = c[k]
  <2>1. /\ tail \in Seq(Octet)
        /\ Len(tail) = Len(c) + Len(rest)
        /\ \A k \in 1..Len(c) : tail[k] = c[k]
    BY ZenonT(30), <1>6, <1>7, ConcatFacts
  <2> QED
    BY <1>4, <1>6, <2>1
<1>9. PICK s : s = pre \o tail
  OBVIOUS
<1>10. /\ s \in Seq(Octet)
       /\ Len(s) = p + n + 1 + r
       /\ \A k \in 1..n + 1 : s[p + k] = tail[k]
  <2>1. /\ s \in Seq(Octet)
        /\ Len(s) = Len(pre) + Len(tail)
        /\ \A k \in 1..Len(tail) : s[Len(pre) + k] = tail[k]
    BY <1>8, <1>9, ConcatFacts
  <2> QED
    BY <1>2, <1>4, <1>8, <2>1
<1>11. s[p + 1] = code
  BY <1>6, <1>8, <1>10
<1>12. \A k \in 1..n : s[p + 1 + k] = bytes[k]
  <2> TAKE k \in 1..n
  <2>1. k + 1 \in 1..n + 1 /\ p + (k + 1) = p + 1 + k
    OBVIOUS
  <2> QED
    BY <1>6, <1>8, <1>10, <2>1
<1>13. SubSeq(s, p + 2, p + n + 1) = bytes
  <2>1. \A k \in p + 2..p + n + 1 : s[k] \in Octet
    BY <1>10
  <2>2. PICK b : b = SubSeq(s, p + 2, p + n + 1)
    OBVIOUS
  <2>3. /\ b \in Seq(Octet)
        /\ Len(b) = IF p + 2 <= p + n + 1 THEN p + n + 1 - (p + 2) + 1 ELSE 0
        /\ \A k \in 1..p + n + 1 - (p + 2) + 1 : b[k] = s[p + 2 + k - 1]
    BY <2>1, <2>2, SubSeqProperties
  <2>4. Len(b) = n
    BY <2>3
  <2>5. \A k \in 1..n : b[k] = bytes[k]
    <3> TAKE k \in 1..n
    <3>1. p + 2 + k - 1 = p + 1 + k /\ k \in 1..p + n + 1 - (p + 2) + 1
      OBVIOUS
    <3> QED
      BY <1>12, <2>3, <3>1
  <2> QED
    BY <1>3, <2>2, <2>3, <2>4, <2>5, SeqEqual
<1>14. PICK at, next \in Nat : at = p + 1 /\ next = at + code
  BY <1>1
<1>15. PICK last : last = Min({next - 1, Len(s)})
  OBVIOUS
<1>16. last = p + n + 1
  <2>1. next - 1 \in Nat /\ Len(s) \in Nat /\ next - 1 = p + code
    BY <1>1, <1>10, <1>14
  <2>2. last = IF next - 1 <= Len(s) THEN next - 1 ELSE Len(s)
    BY <1>15, <2>1, MinOfTwo
  <2>3. n = code - 1 \/ (n < code - 1 /\ r = 0)
    BY <1>1, <1>3, <1>4
  <2> QED
    BY <1>1, <1>10, <2>1, <2>2, <2>3
<1>17. CodeAt(s, at, code, next, bytes)
  <2>1. bytes = SubSeq(s, at + 1, last)
    BY <1>13, <1>14, <1>16
  <2>2. at \in Nat /\ Len(s) \in Nat /\ at <= Len(s) /\ s[at] = code
    BY <1>10, <1>11, <1>14
  <2>3. 0 \notin Range(bytes)
    BY DEF Range, Zeroless
  <2> QED
    BY <1>1, <1>14, <1>15, <2>1, <2>2, <2>3 DEF CodeAt
<1>18. Left(s, next) <=> rest # <<>>
  <2>1. n = code - 1 \/ (n < code - 1 /\ r = 0)
    BY <1>1, <1>3, <1>4
  <2>2. rest # <<>> <=> r # 0
    BY <1>4
  <2>3. next <= Len(s) <=> r # 0
    BY <1>1, <1>10, <1>14, <2>1
  <2> QED
    BY <2>2, <2>3 DEF Left
<1>19. at \in 1..Len(s) + 1
  BY <1>10, <1>14
<1>20. /\ s = pre \o ((<<code>> \o bytes) \o rest)
       /\ at = Len(pre) + 1 /\ next = Len(pre) + 1 + code
  BY <1>2, <1>5, <1>7, <1>9, <1>14
<1> QED
  BY <1>10, <1>17, <1>18, <1>19, <1>20

\* A block in the middle is read with a zero behind it, unless it is a long one, and what is
\* read of the rest.
LEMMA UnstuffedMiddle ==
  ASSUME NEW pre \in Seq(Octet), NEW block \in Seq(Octet), NEW rest \in Seq(Octet),
         Len(block) <= 254, Zeroless(block), rest # <<>>, NEW out, NEW missing,
         UnstuffedFrom(pre \o (Coded(block) \o rest))[Len(pre) + 1 + (Len(block) + 1)]
           = Fine(out, missing)
  PROVE  UnstuffedFrom(pre \o (Coded(block) \o rest))[Len(pre) + 1]
           = Fine(Joined(block, Len(block) + 1, out), missing)
<1>1. PICK code : code = Len(block) + 1
  OBVIOUS
<1>2. PICK s, at, next : /\ s = pre \o (Coded(block) \o rest)
                         /\ at = Len(pre) + 1 /\ next = at + code
  OBVIOUS
<1>3. code \in Octet /\ code # 0 /\ Len(block) = code - 1
  <2>1. PICK n \in Nat : n = Len(block)
    OBVIOUS
  <2>2. code \in Nat /\ code <= 255 /\ code # 0 /\ n = code - 1
    BY <1>1, <2>1
  <2> QED
    BY <2>1, <2>2, ByteFacts
<1>4. s = pre \o ((<<code>> \o block) \o rest)
  BY <1>1, <1>2, CodedFacts
<1>5. /\ s \in Seq(Octet) /\ at \in 1..Len(s) + 1
      /\ CodeAt(s, at, code, next, block) /\ Left(s, next)
  BY <1>2, <1>3, <1>4, CodeBehind
<1>6. PICK f : f = UnstuffedFrom(s)
  OBVIOUS
<1>7. f[at] = UnstuffedBy(s, f, at)
  BY <1>5, <1>6, UnstuffedFromIs
<1>8. f[next] = Fine(out, missing)
  BY <1>1, <1>2, <1>6
<1>9. UnstuffedBy(s, f, at) = Read(s, at, code, next, block, f[next])
  BY <1>5, ReadBlock, Zenon
<1>10. MiddleRead(s, at, code, next, block, out, missing)
  BY ReadMiddle, Zenon
<1>11. f[at] = Fine(Joined(block, code, out), missing)
  BY <1>5, <1>7, <1>8, <1>9, <1>10 DEF MiddleRead
<1> QED
  BY <1>1, <1>2, <1>6, <1>11

\* A code with the last bytes there are is read as these, and as the last byte itself if it
\* announces more of them.
LEMMA UnstuffedLast ==
  ASSUME NEW pre \in Seq(Octet), NEW code \in Octet, NEW bytes \in Seq(Octet),
         code # 0, Zeroless(bytes), Len(bytes) <= code - 1
  PROVE  UnstuffedFrom(pre \o (<<code>> \o bytes))[Len(pre) + 1]
           = Fine(bytes, IF Len(bytes) < code - 1 THEN <<code>> ELSE <<>>)
<1>1. PICK s, at, next : /\ s = pre \o (<<code>> \o bytes)
                         /\ at = Len(pre) + 1 /\ next = at + code
  OBVIOUS
<1>2. <<>> \in Seq(Octet) /\ (<<code>> \o bytes) \o <<>> = <<code>> \o bytes
  OBVIOUS
<1>3. Len(bytes) = code - 1 \/ Len(bytes) < code - 1
  BY ByteFacts
<1>4. /\ s \in Seq(Octet) /\ at \in 1..Len(s) + 1
      /\ CodeAt(s, at, code, next, bytes) /\ ~Left(s, next)
  <2>1. PICK rest : rest = <<>>
    OBVIOUS
  <2>2. rest \in Seq(Octet) /\ s = pre \o ((<<code>> \o bytes) \o rest)
    BY <1>1, <1>2, <2>1
  <2> QED
    <3>1. Len(bytes) = code - 1 \/ (Len(bytes) < code - 1 /\ rest = <<>>)
      BY <1>3, <2>1
    <3>2. LET t == pre \o ((<<code>> \o bytes) \o rest)
              a == Len(pre) + 1
          IN  /\ t \in Seq(Octet)
              /\ a \in 1..Len(t) + 1
              /\ CodeAt(t, a, code, a + code, bytes)
              /\ Left(t, a + code) <=> rest # <<>>
      BY <2>2, <3>1, CodeBehind
    <3> QED
      BY <1>1, <2>1, <2>2, <3>2
<1>5. PICK f : f = UnstuffedFrom(s)
  OBVIOUS
<1>6. f[at] = UnstuffedBy(s, f, at)
  BY <1>4, <1>5, UnstuffedFromIs
<1>7. UnstuffedBy(s, f, at) = Read(s, at, code, next, bytes, f[next])
  BY <1>4, ReadBlock, Zenon
<1>8. LastRead(s, at, code, next, bytes, f[next])
  BY ReadLast, Zenon
<1>9. f[at] = Fine(bytes, IF Len(bytes) < code - 1 THEN <<code>> ELSE <<>>)
  BY <1>4, <1>6, <1>7, <1>8 DEF LastRead
<1> QED
  BY <1>1, <1>5, <1>9

-----------------------------------------------------------------------------
(* There and back. *)

\* A sequence of one zero.
LEMMA SingleZero ==
  ASSUME NEW b \in Seq(Octet), Len(b) = 1, b[1] = 0
  PROVE  b = <<0>>
OBVIOUS

\* A block in the middle, the zero behind it unless it is a long one, and the source from the
\* next block on are the source from the block on.
LEMMA BlockJoined ==
  ASSUME NEW s \in Seq(Octet), NEW first \in 1..Len(s) + 1, BlockEnd(s, first) # Len(s) + 1
  PROVE  LET block == Block(s, first, BlockEnd(s, first)) IN
         block \o ZeroBehind(Len(block) + 1) \o SubSeq(s, NextBlock(s, first), Len(s))
           = SubSeq(s, first, Len(s))
<1>1. PICK end, next : end = BlockEnd(s, first) /\ next = NextBlock(s, first)
  OBVIOUS
<1>2. /\ end \in first..Len(s)
      /\ \/ end = first + 254
         \/ end < first + 254 /\ s[end] = 0
  BY <1>1, BlockEndFacts
<1>3. next = IF end = first + 254 THEN end ELSE end + 1
  BY <1>1 DEF NextBlock, LongBlock
<1>4. PICK block : block = Block(s, first, end)
  OBVIOUS
<1>5. block \in Seq(Octet) /\ Len(block) = end - first
  <2>1. end \in first..Len(s) + 1
    BY <1>2
  <2> QED
    BY <1>4, <2>1, BlockFacts
<1>6. block \o SubSeq(s, end, Len(s)) = SubSeq(s, first, Len(s))
  <2>1. PICK m \in Nat : m = end - 1
    BY <1>2
  <2>2. first \in 1..Len(s) + 1 /\ m \in first - 1..Len(s) /\ Len(s) \in m..Len(s) /\ m + 1 = end
    BY <1>2, <2>1
  <2>3. SubSeq(s, first, m) \o SubSeq(s, m + 1, Len(s)) = SubSeq(s, first, Len(s))
    BY <2>2, ConcatAdjacentSubSeq
  <2> QED
    BY <1>4, <2>1, <2>2, <2>3 DEF Block
<1>7. CASE end = first + 254
  <2>1. ZeroBehind(Len(block) + 1) = <<>> /\ next = end
    BY <1>2, <1>3, <1>5, <1>7 DEF ZeroBehind, LongBlock
  <2>2. block \o <<>> = block
    BY <1>5
  <2> QED
    BY <1>1, <1>4, <1>6, <2>1, <2>2
<1>8. CASE end < first + 254 /\ s[end] = 0
  <2>1. ZeroBehind(Len(block) + 1) = <<0>> /\ next = end + 1
    BY <1>2, <1>3, <1>5, <1>8 DEF ZeroBehind, LongBlock
  <2>2. <<0>> \o SubSeq(s, end + 1, Len(s)) = SubSeq(s, end, Len(s))
    <3>1. SubSeq(s, end, end) = <<0>>
      <4>1. PICK b : b = SubSeq(s, end, end)
        OBVIOUS
      <4>2. end \in Int /\ \A k \in end..end : s[k] \in Octet
        BY <1>2
      <4>3. /\ b \in Seq(Octet)
            /\ Len(b) = IF end <= end THEN end - end + 1 ELSE 0
            /\ \A k \in 1..end - end + 1 : b[k] = s[end + k - 1]
        BY <4>1, <4>2, SubSeqProperties
      <4>4. Len(b) = 1 /\ b[1] = s[end]
        BY <4>2, <4>3
      <4> QED
        BY <1>8, <4>1, <4>3, <4>4, SingleZero
    <3>2. SubSeq(s, end, end) \o SubSeq(s, end + 1, Len(s)) = SubSeq(s, end, Len(s))
      BY <1>2, ConcatAdjacentSubSeq
    <3> QED
      BY <3>1, <3>2
  <2>3. (block \o <<0>>) \o SubSeq(s, end + 1, Len(s))
          = block \o (<<0>> \o SubSeq(s, end + 1, Len(s)))
    <3>1. SubSeq(s, end + 1, Len(s)) \in Seq(Octet) /\ <<0>> \in Seq(Octet)
      BY <1>2, ByteFacts
    <3> QED
      BY <1>5, <3>1, ConcatThree
  <2> QED
    BY <1>1, <1>4, <1>6, <2>1, <2>2, <2>3
<1> QED
  BY <1>2, <1>7, <1>8

\* What is read of e from at on makes up bytes; nothing of it is missing if it was not reduced.
ReadAs(e, at, bytes, reduced) ==
  \E out, missing \in Seq(Octet) :
    /\ UnstuffedFrom(e)[at] = Fine(out, missing)
    /\ out \o missing = bytes
    /\ ~reduced => missing = <<>>

\* Behind any bytes, what is written of a source from first on is read as the source from
\* first on.
Back(s, reduced, first) ==
  \A pre \in Seq(Octet) :
    ReadAs(pre \o StuffedFrom(s, reduced)[first], Len(pre) + 1, SubSeq(s, first, Len(s)), reduced)

\* A block that others follow is read as it was if those that follow are.
LEMMA BackMiddle ==
  ASSUME NEW s \in Seq(Octet), NEW reduced \in BOOLEAN, NEW first \in 1..Len(s) + 1,
         BlockEnd(s, first) # Len(s) + 1, Back(s, reduced, NextBlock(s, first))
  PROVE  Back(s, reduced, first)
<1>1. PICK block : block = Block(s, first, BlockEnd(s, first))
  OBVIOUS
<1>2. PICK next : next = NextBlock(s, first)
  OBVIOUS
<1>3. PICK rest : rest = StuffedFrom(s, reduced)[next]
  OBVIOUS
<1>4. /\ block \in Seq(Octet) /\ Len(block) <= 254 /\ Zeroless(block)
      /\ StuffedFrom(s, reduced)[first] = Coded(block) \o rest
  BY ZenonT(30), <1>1, <1>2, <1>3, StuffedCases
<1>5. rest \in Seq(Octet) /\ rest # <<>>
  <2>1. next \in 1..Len(s) + 1
    BY <1>2, NextBlockFacts
  <2> QED
    BY <1>3, <2>1, StuffedFacts
<1>6. Coded(block) \in Seq(Octet) /\ Len(Coded(block)) = Len(block) + 1
  BY <1>4, CodedFacts
<1> SUFFICES ASSUME NEW pre \in Seq(Octet)
             PROVE  ReadAs(pre \o (Coded(block) \o rest), Len(pre) + 1,
                           SubSeq(s, first, Len(s)), reduced)
  BY <1>4, Zenon DEF Back
<1>7. /\ pre \o Coded(block) \in Seq(Octet)
      /\ Len(pre \o Coded(block)) + 1 = Len(pre) + 1 + (Len(block) + 1)
      /\ (pre \o Coded(block)) \o rest = pre \o (Coded(block) \o rest)
  <2>1. PICK c : c = Coded(block)
    OBVIOUS
  <2>2. c \in Seq(Octet) /\ Len(c) = Len(block) + 1
    BY <1>6, <2>1
  <2>3. pre \o c \in Seq(Octet) /\ Len(pre \o c) = Len(pre) + Len(c)
    BY <2>2, ConcatFacts
  <2>4. (pre \o c) \o rest = pre \o (c \o rest)
    BY <1>5, <2>2, ConcatThree
  <2> QED
    BY <1>4, <2>1, <2>2, <2>3, <2>4
<1>8. PICK out, missing \in Seq(Octet) :
        /\ UnstuffedFrom(pre \o (Coded(block) \o rest))[Len(pre) + 1 + (Len(block) + 1)]
             = Fine(out, missing)
        /\ out \o missing = SubSeq(s, next, Len(s))
        /\ ~reduced => missing = <<>>
  <2>1. PICK longer : longer = pre \o Coded(block)
    OBVIOUS
  <2>2. ReadAs(longer \o StuffedFrom(s, reduced)[next], Len(longer) + 1,
               SubSeq(s, next, Len(s)), reduced)
    BY <1>2, <1>7, <2>1, Zenon DEF Back
  <2>3. /\ longer \o StuffedFrom(s, reduced)[next] = pre \o (Coded(block) \o rest)
        /\ Len(longer) + 1 = Len(pre) + 1 + (Len(block) + 1)
    BY <1>3, <1>7, <2>1
  <2> QED
    BY <2>2, <2>3 DEF ReadAs
<1>9. UnstuffedFrom(pre \o (Coded(block) \o rest))[Len(pre) + 1]
        = Fine(Joined(block, Len(block) + 1, out), missing)
  BY <1>4, <1>5, <1>8, UnstuffedMiddle
<1>10. PICK zero : zero = ZeroBehind(Len(block) + 1)
  OBVIOUS
<1>11. zero \in Seq(Octet)
  <2>1. zero = <<>> \/ zero = <<0>>
    BY <1>10 DEF ZeroBehind
  <2>2. <<>> \in Seq(Octet) /\ <<0>> \in Seq(Octet)
    BY SMTT(30), ByteFacts
  <2> QED
    BY <2>1, <2>2
<1>12. PICK bytes : bytes = block \o zero
  OBVIOUS
<1>13. bytes \in Seq(Octet) /\ bytes \o out \in Seq(Octet)
  BY <1>4, <1>11, <1>12
<1>14. (bytes \o out) \o missing = bytes \o (out \o missing)
  <2>1. bytes \in Seq(Octet) /\ out \in Seq(Octet) /\ missing \in Seq(Octet)
    BY <1>8, <1>13
  <2> QED
    BY SMTT(30), <2>1, ConcatThree
<1>15. bytes \o SubSeq(s, next, Len(s)) = SubSeq(s, first, Len(s))
  BY <1>1, <1>2, <1>10, <1>12, BlockJoined
<1>16. Joined(block, Len(block) + 1, out) = bytes \o out
  BY <1>10, <1>12 DEF Joined
<1> QED
  BY <1>8, <1>9, <1>13, <1>14, <1>15, <1>16 DEF ReadAs

\* The last block is read as it was, coded or reduced.
LEMMA BackLast ==
  ASSUME NEW s \in Seq(Octet), NEW reduced \in BOOLEAN, NEW first \in 1..Len(s) + 1,
         BlockEnd(s, first) = Len(s) + 1
  PROVE  Back(s, reduced, first)
<1>1. PICK block : block = Block(s, first, BlockEnd(s, first))
  OBVIOUS
<1>2. block = SubSeq(s, first, Len(s))
  BY <1>1, Len(s) + 1 - 1 = Len(s) DEF Block
<1>3. /\ block \in Seq(Octet) /\ Len(block) <= 254 /\ Zeroless(block)
      /\ \/ StuffedFrom(s, reduced)[first] = Coded(block)
         \/ reduced /\ StuffedFrom(s, reduced)[first] = Reduced(block)
  BY <1>1, StuffedCases
<1> SUFFICES ASSUME NEW pre \in Seq(Octet)
             PROVE  ReadAs(pre \o StuffedFrom(s, reduced)[first], Len(pre) + 1, block, reduced)
  BY <1>2, Zenon DEF Back
<1>4. ReadAs(pre \o Coded(block), Len(pre) + 1, block, reduced)
  <2>1. PICK code : code = Len(block) + 1
    OBVIOUS
  <2>2. code \in Octet /\ code # 0 /\ Len(block) <= code - 1 /\ ~(Len(block) < code - 1)
    <3>1. PICK n \in Nat : n = Len(block)
      BY <1>3
    <3>2. code \in Nat /\ code <= 255 /\ code # 0 /\ n <= code - 1 /\ ~(n < code - 1)
      BY <1>3, <2>1, <3>1
    <3> QED
      BY <3>1, <3>2, ByteFacts
  <2>3. UnstuffedFrom(pre \o (<<code>> \o block))[Len(pre) + 1] = Fine(block, <<>>)
    BY <1>3, <2>2, UnstuffedLast
  <2>4. Coded(block) = <<code>> \o block
    BY <1>3, <2>1, CodedFacts
  <2>5. <<>> \in Seq(Octet) /\ block \o <<>> = block
    BY <1>3
  <2> QED
    BY <1>3, <2>3, <2>4, <2>5 DEF ReadAs
<1>5. CASE StuffedFrom(s, reduced)[first] = Coded(block)
  BY <1>4, <1>5
<1>6. CASE reduced /\ StuffedFrom(s, reduced)[first] = Reduced(block) /\ Reduced(block) # Coded(block)
  <2>1. PICK n \in Nat : n = Len(block)
    BY <1>3
  <2>2. PICK code : code = block[n]
    OBVIOUS
  <2>3. PICK front : front = SubSeq(block, 1, n - 1)
    OBVIOUS
  <2>4. n # 0 /\ code > n /\ Reduced(block) = <<code>> \o front
    BY <1>3, <1>6, <2>1, <2>2, <2>3, ReducedFacts
  <2>5. code \in Octet /\ code \in Nat /\ code # 0
    <3>1. code \in Octet
      BY <1>3, <2>1, <2>2, <2>4
    <3> QED
      BY <2>4, <3>1, ByteFacts
  <2>6. /\ front \in Seq(Octet) /\ Len(front) = n - 1
        /\ \A k \in 1..n - 1 : front[k] = block[k]
    <3>1. \A k \in 1..n - 1 : block[k] \in Octet
      BY <1>3, <2>1
    <3>2. n - 1 \in Int /\ n - 1 - 1 + 1 = n - 1
      BY <2>4
    <3>3. /\ front \in Seq(Octet)
          /\ Len(front) = IF 1 <= n - 1 THEN n - 1 - 1 + 1 ELSE 0
          /\ \A k \in 1..n - 1 - 1 + 1 : front[k] = block[1 + k - 1]
      BY <2>3, <3>1, <3>2, SubSeqProperties
    <3>4. ASSUME NEW k \in 1..n - 1 PROVE front[k] = block[k]
      BY <3>2, <3>3, 1 + k - 1 = k
    <3>5. Len(front) = n - 1
      BY <2>4, <3>3
    <3> QED
      BY <3>3, <3>4, <3>5
  <2>7. Zeroless(front)
    BY <1>3, <2>1, <2>6 DEF Zeroless
  <2>8. Len(front) <= code - 1 /\ Len(front) < code - 1
    BY <2>4, <2>5, <2>6
  <2>9. UnstuffedFrom(pre \o (<<code>> \o front))[Len(pre) + 1] = Fine(front, <<code>>)
    BY <2>5, <2>6, <2>7, <2>8, UnstuffedLast
  <2>10. <<code>> \in Seq(Octet) /\ front \o <<code>> = block
    <3>1. <<code>> \in Seq(Octet)
      BY <2>5
    <3>2. PICK whole : whole = front \o <<code>>
      OBVIOUS
    <3>3. /\ whole \in Seq(Octet) /\ Len(whole) = n
          /\ \A k \in 1..n - 1 : whole[k] = front[k]
          /\ whole[n] = code
      BY <2>4, <2>5, <2>6, <3>2
    <3>4. \A k \in 1..n : whole[k] = block[k]
      BY <2>2, <2>6, <3>3
    <3>5. whole = block
      BY <1>3, <2>1, <3>3, <3>4, SeqEqual
    <3> QED
      BY <3>1, <3>2, <3>5
  <2> QED
    BY <1>6, <2>4, <2>6, <2>9, <2>10 DEF ReadAs
<1> QED
  BY <1>3, <1>5, <1>6

\* Every beginning of a block is a good one, the beginning of the source included.
LEMMA BackAlways ==
  ASSUME NEW s \in Seq(Octet), NEW reduced \in BOOLEAN
  PROVE  ReadAs(StuffedFrom(s, reduced)[1], 1, s, reduced)
<1> DEFINE G == {first \in 1..Len(s) + 1 : Back(s, reduced, first)}
<1>1. ASSUME NEW first \in 1..Len(s) + 1, \A k \in first + 1..Len(s) + 1 : k \in G
      PROVE  first \in G
  <2>1. CASE BlockEnd(s, first) # Len(s) + 1
    <3>1. NextBlock(s, first) \in first + 1..Len(s) + 1
      BY <2>1, NextBlockFacts
    <3>2. Back(s, reduced, NextBlock(s, first))
      BY <1>1, <3>1
    <3> QED
      BY <2>1, <3>2, BackMiddle
  <2>2. CASE BlockEnd(s, first) = Len(s) + 1
    BY <2>2, BackLast
  <2> QED
    BY <2>1, <2>2
<1>2. 1 \in G
  <2>1. Len(s) \in Nat /\ 1 \in 1..Len(s) + 1
    OBVIOUS
  <2>2. \A first \in 1..Len(s) + 1 : (\A k \in first + 1..Len(s) + 1 : k \in G) => first \in G
    BY <1>1
  <2> HIDE DEF G
  <2> QED
    BY <2>1, <2>2, Backwards
<1>3. PICK e : e = StuffedFrom(s, reduced)[1]
  OBVIOUS
<1>4. e \in Seq(Octet)
  BY <1>3, StuffedFacts
<1>5. PICK empty : empty = <<>>
  OBVIOUS
<1>6. empty \in Seq(Octet) /\ empty \o e = e /\ Len(empty) + 1 = 1
  BY <1>4, <1>5
<1>7. ReadAs(empty \o e, Len(empty) + 1, SubSeq(s, 1, Len(s)), reduced)
  BY <1>2, <1>3, <1>6, Zenon DEF Back
<1>8. SubSeq(s, 1, Len(s)) = s
  BY SubSeqFull
<1> QED
  BY <1>3, <1>6, <1>7, <1>8, Zenon

-----------------------------------------------------------------------------
(* The calls. *)

\* What fits is not cut off.
LEMMA BoundedFits ==
  ASSUME NEW out \in Seq(Octet), NEW n \in Nat, Len(out) <= n, NEW ok \in BOOLEAN
  PROVE  Bounded(n, ok, out) = [ok |-> ok, out |-> out]
<1>1. Len(out) \in Nat
  OBVIOUS
<1>2. Min({Len(out), n}) = Len(out)
  BY <1>1, MinOfTwo
<1>3. SubSeq(out, 1, Len(out)) = out
  BY SubSeqFull
<1>4. (ok /\ Len(out) <= n) = ok
  OBVIOUS
<1> QED
  BY <1>2, <1>3, <1>4 DEF Bounded

\* What is read without an error, as the calls return it.
LEMMA DecodedFine ==
  ASSUME NEW s \in Seq(Octet), NEW e \in Seq(Octet), NEW reduced \in BOOLEAN,
         ReadAs(e, 1, s, reduced), NEW n \in Nat, Len(s) <= n
  PROVE  /\ cobsr_decode(n, e) = [ok |-> TRUE, out |-> s]
         /\ ~reduced => cobs_decode(n, e) = [ok |-> TRUE, out |-> s]
<1>1. PICK out, missing \in Seq(Octet) : /\ UnstuffedFrom(e)[1] = Fine(out, missing)
                                         /\ out \o missing = s
                                         /\ ~reduced => missing = <<>>
  BY DEF ReadAs
<1>2. PICK r : r = Unstuffed(e)
  OBVIOUS
<1>3. r.ok = TRUE /\ r.out = out /\ r.missing = missing
  BY <1>1, <1>2 DEF Unstuffed, Fine, Reading
<1>4. Bounded(n, TRUE, s) = [ok |-> TRUE, out |-> s]
  BY BoundedFits
<1>5. cobsr_decode(n, e) = Bounded(n, TRUE, s)
  BY <1>1, <1>2, <1>3, Zenon DEF cobsr_decode
<1>6. ASSUME ~reduced PROVE cobs_decode(n, e) = Bounded(n, TRUE, s)
  <2>1. missing = <<>> /\ out = s
    BY <1>1, <1>6
  <2>2. (r.ok /\ r.missing = <<>>) = TRUE /\ r.out = s
    BY <1>3, <2>1
  <2> QED
    BY <1>2, <2>2, Zenon DEF cobs_decode
<1> QED
  BY <1>4, <1>5, <1>6

\* COBS and COBS/R, in the buffers that cobs.h and cobsr.h ask for: every source that is not
\* empty, of whatever length, is encoded without an error, contains no zero then, is not
\* longer in COBS/R than in COBS, and is decoded to what it was.
THEOREM CobsRoundTrips == \A s \in Seq(Octet) \ {<<>>} : RoundTrips(s)
<1> SUFFICES ASSUME NEW s \in Seq(Octet), s # <<>> PROVE RoundTrips(s)
  OBVIOUS
<1>1. PICK n \in Nat \ {0} : n = Len(s)
  OBVIOUS
<1>2. PICK room : room = COBS_ENCODE_DST_BUF_LEN_MAX(n)
  OBVIOUS
<1>3. PICK coded, reduced : coded = StuffedFrom(s, FALSE)[1] /\ reduced = StuffedFrom(s, TRUE)[1]
  OBVIOUS
<1>4. 1 \in 1..Len(s) + 1 /\ TRUE \in BOOLEAN /\ FALSE \in BOOLEAN
  BY <1>1
<1>5. coded \in Seq(Octet) /\ Zeroless(coded) /\ reduced \in Seq(Octet) /\ Zeroless(reduced)
  <2>1. \A r \in BOOLEAN : StuffedFrom(s, r)[1] \in Seq(Octet) /\ Zeroless(StuffedFrom(s, r)[1])
    BY <1>4, StuffedFacts
  <2> QED
    BY <1>3, <1>4, <2>1
<1>6. n < Len(coded) /\ Len(coded) <= room /\ n <= Len(reduced) /\ Len(reduced) <= Len(coded)
  <2>1. Room(n) = room /\ Len(s) + 1 - 1 = n
    BY <1>1, <1>2 DEF Room
  <2> QED
    BY <1>1, <1>3, <1>4, <2>1, StuffedLength
<1>7. cobs_encode(room, s) = [ok |-> TRUE, out |-> coded]
  BY <1>3, <1>6 DEF cobs_encode, Stuffed
<1>8. room \in Nat
  BY <1>1, <1>2, RoomFacts DEF Room
<1>9. cobsr_encode(room, s) = [ok |-> TRUE, out |-> reduced]
  <2>1. Stuffed(s) = coded
    BY <1>3 DEF Stuffed
  <2>2. PICK written : written = Len(coded)
    OBVIOUS
  <2>3. written \in Nat /\ written <= room
    BY <1>5, <1>6, <2>2
  <2>4. ~(written > room)
    BY <1>8, <2>3
  <2>5. ~(Len(Stuffed(s)) > room)
    BY <2>1, <2>2, <2>4, Zenon
  <2> QED
    BY <1>3, <2>5, Zenon DEF cobsr_encode
<1>10. 0 \notin Range(coded) \union Range(reduced)
  BY <1>5 DEF Range, Zeroless
<1>11. cobs_decode(COBS_DECODE_DST_BUF_LEN_MAX(Len(coded)), coded) = [ok |-> TRUE, out |-> s]
  <2>1. PICK size : size = COBS_DECODE_DST_BUF_LEN_MAX(Len(coded))
    OBVIOUS
  <2>2. size \in Nat /\ Len(s) <= size
    BY <1>1, <1>5, <1>6, <2>1 DEF COBS_DECODE_DST_BUF_LEN_MAX
  <2>3. ReadAs(coded, 1, s, FALSE)
    BY <1>3, <1>4, BackAlways
  <2> QED
    BY <1>4, <1>5, <2>1, <2>2, <2>3, DecodedFine
<1>12. cobsr_decode(COBSR_DECODE_DST_BUF_LEN_MAX(Len(reduced)), reduced)
         = [ok |-> TRUE, out |-> s]
  <2>1. PICK size : size = COBSR_DECODE_DST_BUF_LEN_MAX(Len(reduced))
    OBVIOUS
  <2>2. size \in Nat /\ Len(s) <= size
    BY <1>1, <1>5, <1>6, <2>1 DEF COBSR_DECODE_DST_BUF_LEN_MAX
  <2>3. ReadAs(reduced, 1, s, TRUE)
    BY <1>3, <1>4, BackAlways
  <2> QED
    BY <1>4, <1>5, <2>1, <2>2, <2>3, DecodedFine
<1> QED
  BY <1>1, <1>2, <1>6, <1>7, <1>9, <1>10, <1>11, <1>12 DEF RoundTrips
=============================================================================
