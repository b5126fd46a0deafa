------------------------ MODULE PacketSerialTx_proofs ------------------------
(***************************************************************************)
(* Proofs about send(), for every chunk size, every width of size_t and    *)
(* every payload size.                                                     *)
(***************************************************************************)
EXTENDS PacketSerialTx, TLAPS

-----------------------------------------------------------------------------
(* The arithmetic of the chunks. *)

\* The defining property of integer division.
LEMMA DivFacts ==
  ASSUME NEW x \in Nat, NEW c \in Nat, c > 0
  PROVE  /\ x \div c \in Nat
         /\ (x \div c) * c <= x
         /\ x < (x \div c) * c + c
         /\ x % c = x - (x \div c) * c
OBVIOUS

\* A quotient is determined by the interval its dividend lies in.
LEMMA ModUnique ==
  ASSUME NEW q \in Nat, NEW r \in Nat, NEW c \in Nat, r < c
  PROVE  (q * c + r) % c = r
<1>1. PICK x \in Nat : x = q * c + r
  OBVIOUS
<1> DEFINE d == x \div c
<1>2. d \in Nat /\ d * c <= x /\ x < d * c + c /\ x % c = x - d * c
  BY <1>1, DivFacts
<1> HIDE DEF d
<1>3. d = q
  <2>1. CASE d < q
    <3>1. PICK e \in Nat : q = d + 1 + e
      BY <1>2, <2>1
    <3>2. q * c = d * c + c + e * c
      BY <3>1, <1>2
    <3>3. e * c >= 0
      BY <3>1
    <3> QED
      BY <1>1, <1>2, <3>2, <3>3
  <2>2. CASE d > q
    <3>1. PICK e \in Nat : d = q + 1 + e
      BY <1>2, <2>2
    <3>2. d * c = q * c + c + e * c
      BY <3>1, <1>2
    <3>3. e * c >= 0
      BY <3>1
    <3> QED
      BY <1>1, <1>2, <3>2, <3>3
  <2> QED
    BY <1>2, <2>1, <2>2
<1> QED
  BY <1>1, <1>2, <1>3

\* A payload is cut into no chunk at all, or into as many as hold it: all full but the
\* last, which holds between one byte and a full chunk.
LEMMA ChunksFacts ==
  ASSUME NEW n \in 0..SIZE_MOD-1
  PROVE  /\ Chunks(n) \in Nat
         /\ Chunks(n) > 0 => /\ (Chunks(n) - 1) * data_chunk_size < n
                             /\ n <= (Chunks(n) - 1) * data_chunk_size + data_chunk_size
<1> DEFINE c == data_chunk_size
           x == (n + c - 1) % SIZE_MOD
           q == x \div c
<1>1. /\ c \in Nat /\ c > 0 /\ SIZE_MOD \in Nat /\ SIZE_MOD > c /\ n \in Nat
      /\ n + c - 1 \in Nat /\ n < SIZE_MOD
  BY DataAssumption, ModAssumption DEF data_chunk_size
<1>2. Chunks(n) = q
  BY DEF Chunks
<1>3. \/ x = n + c - 1
      \/ x = n + c - 1 - SIZE_MOD /\ x < c
  <2>1. CASE n + c - 1 < SIZE_MOD
    BY <1>1, <2>1
  <2>2. CASE n + c - 1 >= SIZE_MOD
    <3>1. n + c - 1 < SIZE_MOD + SIZE_MOD
      BY <1>1
    <3> QED
      BY <1>1, <2>2, <3>1
  <2> QED
    BY <1>1, <2>1, <2>2
<1> HIDE DEF c
<1>4. x \in Nat
  BY <1>1
<1> HIDE DEF x
<1>5. q \in Nat /\ q * c <= x /\ x < q * c + c
  BY <1>1, <1>4, DivFacts
<1> HIDE DEF q
<1>6. ASSUME q > 0 PROVE (q - 1) * c < n /\ n <= (q - 1) * c + c
  <2>1. (q - 1) * c + c = q * c
    BY <1>1, <1>5
  <2>2. q * c >= c
    <3>1. PICK e \in Nat : q = e + 1
      BY <1>5, <1>6
    <3>2. q * c = e * c + c /\ e * c >= 0
      BY <3>1, <1>1
    <3> QED
      BY <3>2, <1>1
  <2>3. x = n + c - 1
    BY <1>1, <1>3, <1>4, <1>5, <2>2
  <2>4. (q - 1) * c \in Int /\ q * c \in Int
    BY <1>1, <1>5
  <2> QED
    BY <1>1, <1>5, <2>1, <2>3, <2>4
<1> QED
  BY <1>2, <1>5, <1>6 DEF c

\* The flag of the k-th packet says whether it is the first and whether it is the last.
LEMMA FlagFacts ==
  ASSUME total_chunks \in Nat, NEW k \in Nat, k < total_chunks
  PROVE  /\ FlagOf(k) \in Flag
         /\ FlagOf(k) \in {"FIRST", "FIRSTLAST"} <=> k = 0
         /\ FlagOf(k) \in {"LAST", "FIRSTLAST"} <=> k = total_chunks - 1
<1>1. CASE k = 0 /\ total_chunks = 1
  BY <1>1 DEF FlagOf, Flag
<1>2. CASE k = 0 /\ total_chunks > 1
  BY <1>2 DEF FlagOf, Flag
<1>3. CASE k > 0 /\ k < total_chunks - 1
  BY <1>3 DEF FlagOf, Flag
<1>4. CASE k > 0 /\ k = total_chunks - 1
  BY <1>4 DEF FlagOf, Flag
<1> QED
  BY <1>1, <1>2, <1>3, <1>4

\* Every packet but the last carries a full chunk; with the last, which never carries
\* more, the buffer ends exactly there or a full chunk short of it.
LEMMA ChunkSizeFacts ==
  ASSUME size \in 0..SIZE_MOD-1, NEW k \in Nat, k < total_chunks
  PROVE  /\ ChunkSize(k) \in 0..data_chunk_size
         /\ k * data_chunk_size + ChunkSize(k) <= size
         /\ k < total_chunks - 1 =>
              k * data_chunk_size + ChunkSize(k) = (k + 1) * data_chunk_size
         /\ k = total_chunks - 1 => k * data_chunk_size + ChunkSize(k) = SentSize
<1> DEFINE c == data_chunk_size
           n == total_chunks
<1>1. /\ c \in Nat /\ c > 0 /\ size \in Nat
  BY DataAssumption, ModAssumption DEF data_chunk_size
<1>2. /\ n \in Nat /\ n > 0
      /\ (n - 1) * c < size /\ size <= (n - 1) * c + c
  BY ChunksFacts DEF total_chunks
<1>3. CASE k < n - 1
  <2>1. ChunkSize(k) = c
    BY <1>2, <1>3 DEF ChunkSize
  <2>2. k * c + c = (k + 1) * c
    BY <1>1
  <2>3. (k + 1) * c <= (n - 1) * c
    <3> HIDE DEF c, n
    <3>1. PICK e \in Nat : n - 1 = k + 1 + e
      BY <1>2, <1>3
    <3>2. (n - 1) * c = (k + 1) * c + e * c /\ e * c >= 0
      BY <3>1, <1>1
    <3> QED
      BY <3>2, <1>1
  <2>4. (k + 1) * c \in Nat /\ (n - 1) * c \in Int
    BY <1>1, <1>2
  <2>5. (k + 1) * c <= size
    <3> HIDE DEF c, n
    <3> QED
      BY <1>1, <1>2, <2>3, <2>4
  <2> QED
    BY <1>1, <1>2, <1>3, <2>1, <2>2, <2>5
<1>4. CASE k = n - 1
  <2>1. CASE n = 1
    <3>1. ChunkSize(k) = size /\ k = 0
      BY <1>2, <1>4, <2>1 DEF ChunkSize
    <3>2. k * c = 0 /\ size <= c
      BY <1>1, <1>2, <2>1, <3>1
    <3>3. SentSize = size
      BY <1>1, <3>2 DEF SentSize, SentOf
    <3> QED
      BY <1>1, <1>4, <3>1, <3>2, <3>3
  <2>2. CASE n > 1
    <3>1. ChunkSize(k) = size % c
      BY <1>2, <1>4, <2>2 DEF ChunkSize
    <3> DEFINE r == size - k * c
    <3>2. r \in Nat /\ r > 0 /\ r <= c /\ size = k * c + r /\ k * c \in Nat
      BY <1>1, <1>2, <1>4
    <3> HIDE DEF r, c
    <3>3. k * c >= c
      <4>1. PICK e \in Nat : k = e + 1
        BY <1>2, <1>4, <2>2
      <4>2. k * c = e * c + c /\ e * c >= 0
        BY <4>1, <1>1
      <4> QED
        BY <4>2, <1>1
    <3>4. size > c
      BY <1>1, <3>2, <3>3
    <3>5. CASE r < c
      <4>1. size % c = r
        BY <1>1, <3>2, <3>5, ModUnique
      <4>2. SentSize = size
        BY <3>2, <4>1 DEF SentSize, SentOf, c
      <4>3. ChunkSize(k) = r
        BY <3>1, <4>1
      <4>4. ChunkSize(k) \in 0..c /\ k * c + ChunkSize(k) = SentSize /\ SentSize <= size
        BY <1>1, <3>2, <4>2, <4>3
      <4>5. ~(k < n - 1)
        BY <1>2, <1>4
      <4> QED
        BY <4>4, <4>5 DEF c
    <3>6. CASE r = c
      <4>1. size = (k + 1) * c + 0 /\ k + 1 \in Nat
        BY <1>1, <3>2, <3>6
      <4>2. size % c = 0
        BY <1>1, <4>1, ModUnique
      <4>3. SentSize = size - c
        BY <3>4, <4>2 DEF SentSize, SentOf, c
      <4>4. k * c + 0 = size - c
        BY <1>1, <3>2, <3>6
      <4>5. ChunkSize(k) \in 0..c /\ k * c + ChunkSize(k) = SentSize /\ SentSize <= size
        BY <1>1, <3>1, <4>2, <4>3, <4>4
      <4>6. ~(k < n - 1)
        BY <1>2, <1>4
      <4> QED
        BY <4>5, <4>6 DEF c
    <3> QED
      BY <1>1, <3>2, <3>5, <3>6
  <2> QED
    BY <1>2, <2>1, <2>2
<1>5. k < n - 1 \/ k = n - 1
  BY <1>2
<1> QED
  BY <1>3, <1>4, <1>5

-----------------------------------------------------------------------------
(* The inductive invariant. *)

\* What the locals of a send() in progress say about the packets handed over.
LoopConsistent ==
  pc = "loop" =>
    /\ Len(packets) = i
    /\ i <= total_chunks
    /\ i < total_chunks => buffer_offset = i * data_chunk_size
    /\ i = total_chunks /\ i > 0 => buffer_offset = SentSize
    /\ return_status = ~refused

Inv ==
  /\ TypeOK /\ ReadsInBounds /\ Contiguous /\ FlagProtocol
  /\ TrueMeansAccepted /\ FullLastChunkIsEmpty /\ LoopConsistent

\* Nothing is being sent at first.
LEMMA InitInv == Init => Inv
<1> SUFFICES ASSUME Init PROVE Inv
  OBVIOUS
<1>1. TypeOK
  <2>1. 0 \in 0..SIZE_MOD-1 /\ <<>> \in Seq(Packet)
    BY ModAssumption, DataAssumption
  <2> QED
    BY <2>1 DEF Init, TypeOK
<1>2. ReadsInBounds /\ Contiguous /\ FlagProtocol
  BY DEF Init, ReadsInBounds, Contiguous, FlagProtocol
<1>3. TrueMeansAccepted /\ FullLastChunkIsEmpty /\ LoopConsistent
  BY DEF Init, TrueMeansAccepted, FullLastChunkIsEmpty, LoopConsistent
<1> QED
  BY <1>1, <1>2, <1>3 DEF Inv

\* A call of send() starts with nothing sent.
LEMMA SendInv ==
  ASSUME Inv, NEW n \in Size, send(n)
  PROVE  Inv'
<1>1. /\ pc' = "loop" /\ size' = n /\ i' = 0 /\ buffer_offset' = 0 /\ return_status' = TRUE
      /\ packets' = <<>> /\ refused' = FALSE /\ tx_handler' = tx_handler
  BY DEF send
<1>2. n \in 0..SIZE_MOD-1 /\ n \in Nat
  BY SendSizeAssumption, ModAssumption
<1>3. TypeOK'
  <2>1. <<>> \in Seq(Packet)
    OBVIOUS
  <2> QED
    BY <1>1, <1>2, <2>1 DEF Inv, TypeOK
<1>4. total_chunks' = Chunks(n) /\ Chunks(n) \in Nat
  BY <1>1, <1>2, ChunksFacts DEF total_chunks
<1>5. ReadsInBounds' /\ Contiguous' /\ FlagProtocol'
  BY <1>1, <1>2 DEF ReadsInBounds, Contiguous, FlagProtocol, Handed
<1>6. TrueMeansAccepted' /\ FullLastChunkIsEmpty'
  BY <1>1 DEF TrueMeansAccepted, FullLastChunkIsEmpty
<1>7. LoopConsistent'
  <2>1. 0 * data_chunk_size = 0
    BY DataAssumption DEF data_chunk_size
  <2>2. /\ Len(packets') = i' /\ i' <= total_chunks' /\ ~(i' > 0)
        /\ buffer_offset' = i' * data_chunk_size
    BY <1>1, <1>4, <2>1
  <2> QED
    BY <1>1, <2>2 DEF LoopConsistent
<1> QED
  BY <1>3, <1>5, <1>6, <1>7 DEF Inv

\* An iteration that hands a packet over.
LEMMA TransmitInv ==
  ASSUME Inv, NEW ok \in BOOLEAN, TransmitPacket(ok)
  PROVE  Inv'
<1> DEFINE p == build_packet
           c == data_chunk_size
<1>1. /\ pc = "loop" /\ i < total_chunks
      /\ packets' = Append(packets, p)
      /\ buffer_offset' = buffer_offset + ChunkSize(i)
      /\ return_status' = (return_status /\ ok)
      /\ refused' = (refused \/ ~ok)
      /\ i' = i + 1
      /\ UNCHANGED <<pc, size, tx_handler>>
  BY DEF TransmitPacket, InLoop, NextOffset, StatusAfter
<1>2. /\ size \in 0..SIZE_MOD-1 /\ i \in Nat /\ buffer_offset \in Nat
      /\ packets \in Seq(Packet) /\ refused \in BOOLEAN /\ return_status \in BOOLEAN
      /\ Len(packets) = i /\ buffer_offset = i * c /\ return_status = ~refused
      /\ total_chunks \in Nat /\ total_chunks' = total_chunks /\ SentSize' = SentSize
  BY <1>1, ChunksFacts DEF Inv, TypeOK, LoopConsistent, total_chunks, SentSize, SentOf
<1>3. /\ ChunkSize(i) \in 0..c
      /\ buffer_offset + ChunkSize(i) <= size
      /\ i < total_chunks - 1 => buffer_offset + ChunkSize(i) = (i + 1) * c
      /\ i = total_chunks - 1 => buffer_offset + ChunkSize(i) = SentSize
  BY <1>1, <1>2, ChunkSizeFacts
<1>4. /\ FlagOf(i) \in Flag
      /\ FlagOf(i) \in {"FIRST", "FIRSTLAST"} <=> i = 0
      /\ FlagOf(i) \in {"LAST", "FIRSTLAST"} <=> i = total_chunks - 1
  BY <1>1, <1>2, FlagFacts
<1>5. /\ p.offset = buffer_offset /\ p.size = ChunkSize(i) /\ p.flag = FlagOf(i)
      /\ p \in Packet
  <2>1. i % SEQ_MOD \in 0..SEQ_MOD-1
    BY <1>2, ModAssumption
  <2>2. ChunkSize(i) \in 0..DATA_MAX
    BY <1>3, DataAssumption DEF data_chunk_size
  <2> QED
    BY <1>2, <1>4, <2>1, <2>2 DEF build_packet, Packet
<1> HIDE DEF p
<1>6. /\ packets' \in Seq(Packet) /\ Len(packets') = i + 1
      /\ packets'[i + 1] = p
      /\ \A k \in 1..i : packets'[k] = packets[k]
  BY <1>1, <1>2, <1>5
<1>7. TypeOK'
  <2>1. buffer_offset' \in Nat /\ i' \in Nat
    BY <1>1, <1>2, <1>3, DataAssumption DEF data_chunk_size
  <2>2. return_status' \in BOOLEAN /\ refused' \in BOOLEAN
    BY <1>1
  <2> QED
    BY <1>1, <1>6, <2>1, <2>2 DEF Inv, TypeOK
<1>8. ReadsInBounds'
  BY <1>1, <1>3 DEF ReadsInBounds
<1>9. Contiguous'
  <2>1. buffer_offset = IF i = 0 THEN 0 ELSE packets[i].offset + packets[i].size
    <3>1. CASE i = 0
      <4>1. packets = <<>>
        BY <1>2, <3>1
      <4> QED
        BY <1>1, <3>1, <4>1 DEF Inv, Contiguous, Handed
    <3>2. CASE i # 0
      <4>1. packets # <<>>
        BY <1>2, <3>2
      <4> QED
        BY <1>1, <1>2, <3>2, <4>1 DEF Inv, Contiguous, Handed
    <3> QED
      BY <3>1, <3>2
  <2>2. ASSUME NEW k \in 1..i+1
        PROVE  packets'[k].offset = IF k = 1 THEN 0 ELSE packets'[k-1].offset + packets'[k-1].size
    <3>1. CASE k = i + 1
      <4>1. k = 1 <=> i = 0
        BY <1>2, <3>1
      <4>2. k # 1 => k - 1 = i /\ i \in 1..i
        BY <1>2, <3>1
      <4> QED
        BY <1>5, <1>6, <2>1, <3>1, <4>1, <4>2
    <3>2. CASE k # i + 1
      <4>1. k \in 1..Len(packets) /\ k \in 1..i /\ (k # 1 => k - 1 \in 1..i)
        BY <1>2, <3>2
      <4> QED
        BY <1>6, <4>1 DEF Inv, Contiguous
    <3> QED
      BY <3>1, <3>2
  <2>3. buffer_offset' = Handed'
    <3>1. packets' # <<>>
      BY <1>2, <1>6
    <3> QED
      BY <1>1, <1>5, <1>6, <3>1 DEF Handed
  <2> QED
    BY <1>6, <2>2, <2>3 DEF Contiguous
<1>10. FlagProtocol'
  <2>1. ASSUME NEW k \in 1..i+1
        PROVE  /\ packets'[k].flag \in {"FIRST", "FIRSTLAST"} <=> k = 1
               /\ packets'[k].flag \in {"LAST", "FIRSTLAST"} <=> k = total_chunks
    <3>1. CASE k = i + 1
      <4>1. (k = 1 <=> i = 0) /\ (k = total_chunks <=> i = total_chunks - 1)
        BY <1>2, <3>1
      <4> QED
        BY <1>4, <1>5, <1>6, <3>1, <4>1
    <3>2. CASE k # i + 1
      <4>1. k \in 1..Len(packets) /\ k \in 1..i
        BY <1>2, <3>2
      <4> QED
        BY <1>6, <4>1 DEF Inv, FlagProtocol
    <3> QED
      BY <3>1, <3>2
  <2> QED
    BY <1>2, <1>6, <2>1 DEF FlagProtocol
<1>11. TrueMeansAccepted' /\ FullLastChunkIsEmpty'
  BY <1>1 DEF TrueMeansAccepted, FullLastChunkIsEmpty
<1>12. LoopConsistent'
  <2>1. i' <= total_chunks'
    BY <1>1, <1>2
  <2>2. i' < total_chunks' => buffer_offset' = i' * data_chunk_size
    BY <1>1, <1>2, <1>3
  <2>3. i' = total_chunks' => buffer_offset' = SentSize'
    BY <1>1, <1>2, <1>3
  <2>4. return_status' = ~refused'
    BY <1>1, <1>2
  <2> QED
    BY <1>1, <1>6, <2>1, <2>2, <2>3, <2>4 DEF LoopConsistent
<1> QED
  BY <1>7, <1>8, <1>9, <1>10, <1>11, <1>12 DEF Inv

\* An iteration without tx_handler reads its chunk too before send() gives up.
LEMMA UndefinedInv ==
  ASSUME Inv, TxHandlerUndefined
  PROVE  Inv'
<1>1. /\ pc = "loop" /\ i < total_chunks
      /\ buffer_offset' = buffer_offset + ChunkSize(i)
      /\ return_status' = FALSE /\ pc' = "returned"
      /\ UNCHANGED <<size, i, packets, refused, tx_handler>>
  BY DEF TxHandlerUndefined, InLoop, NextOffset
<1>2. /\ size \in 0..SIZE_MOD-1 /\ i \in Nat /\ buffer_offset \in Nat
      /\ Len(packets) = i /\ buffer_offset = i * data_chunk_size
      /\ total_chunks \in Nat /\ total_chunks' = total_chunks
  BY <1>1, ChunksFacts DEF Inv, TypeOK, LoopConsistent, total_chunks
<1>3. /\ ChunkSize(i) \in 0..data_chunk_size
      /\ buffer_offset + ChunkSize(i) <= size
  BY <1>1, <1>2, ChunkSizeFacts
<1>4. TypeOK'
  <2>1. buffer_offset' \in Nat
    BY <1>1, <1>2, <1>3, DataAssumption DEF data_chunk_size
  <2> QED
    BY <1>1, <2>1 DEF Inv, TypeOK
<1>5. ReadsInBounds'
  BY <1>1, <1>3 DEF ReadsInBounds
<1>6. Contiguous' /\ FlagProtocol'
  BY <1>1, <1>2 DEF Inv, Contiguous, FlagProtocol
<1>7. TrueMeansAccepted' /\ FullLastChunkIsEmpty' /\ LoopConsistent'
  BY <1>1, <1>2 DEF TrueMeansAccepted, FullLastChunkIsEmpty, LoopConsistent
<1> QED
  BY <1>4, <1>5, <1>6, <1>7 DEF Inv

\* The loop is over.
LEMMA FinishInv ==
  ASSUME Inv, FinishSend
  PROVE  Inv'
<1>1. /\ pc = "loop" /\ i >= total_chunks /\ pc' = "returned"
      /\ UNCHANGED <<size, i, buffer_offset, return_status, packets, refused, tx_handler>>
  BY DEF FinishSend
<1>2. /\ i \in Nat /\ total_chunks \in Nat
      /\ total_chunks' = total_chunks /\ SentSize' = SentSize
  BY <1>1, ChunksFacts DEF Inv, TypeOK, total_chunks, SentSize, SentOf
<1>3. /\ i = total_chunks /\ Len(packets) = i /\ return_status = ~refused
      /\ i > 0 => buffer_offset = SentSize
  BY <1>1, <1>2 DEF Inv, LoopConsistent
<1>4. TypeOK' /\ ReadsInBounds'
  BY <1>1 DEF Inv, TypeOK, ReadsInBounds
<1>5. Contiguous' /\ FlagProtocol' /\ LoopConsistent'
  BY <1>1, <1>2 DEF Inv, Contiguous, FlagProtocol, LoopConsistent
<1>6. TrueMeansAccepted' /\ FullLastChunkIsEmpty'
  BY <1>1, <1>2, <1>3 DEF TrueMeansAccepted, FullLastChunkIsEmpty
<1> QED
  BY <1>4, <1>5, <1>6 DEF Inv

\* Exchanging tx_handler, between two iterations or outside send(), disturbs nothing.
LEMMA HandlerInv ==
  ASSUME Inv, UNCHANGED sendVars, tx_handler' \in Handler \union {NULL}
  PROVE  Inv'
<1>1. UNCHANGED <<pc, size, i, buffer_offset, return_status, packets, refused>>
  BY DEF sendVars
<1>2. total_chunks' = total_chunks /\ SentSize' = SentSize /\ Handed' = Handed
  BY <1>1 DEF total_chunks, SentSize, SentOf, Handed
<1>3. TypeOK' /\ ReadsInBounds'
  BY <1>1 DEF Inv, TypeOK, ReadsInBounds
<1>4. Contiguous' /\ FlagProtocol'
  BY <1>1, <1>2 DEF Inv, Contiguous, FlagProtocol
<1>5. TrueMeansAccepted' /\ FullLastChunkIsEmpty' /\ LoopConsistent'
  BY <1>1, <1>2 DEF Inv, TrueMeansAccepted, FullLastChunkIsEmpty, LoopConsistent
<1> QED
  BY <1>3, <1>4, <1>5 DEF Inv

\* Every step of the transmitter preserves the invariant.
LEMMA NextInv == Inv /\ [Next]_vars => Inv'
<1> SUFFICES ASSUME Inv, [Next]_vars PROVE Inv'
  OBVIOUS
<1>1. ASSUME NEW h \in Handler, register_tx_handler(h) PROVE Inv'
  BY <1>1, HandlerInv DEF register_tx_handler
<1>2. CASE clear_handlers
  BY <1>2, HandlerInv DEF clear_handlers
<1>3. CASE UNCHANGED vars
  <2>1. UNCHANGED sendVars /\ tx_handler' \in Handler \union {NULL}
    BY <1>3 DEF vars, Inv, TypeOK
  <2> QED
    BY <2>1, HandlerInv
<1> QED
  BY <1>1, <1>2, <1>3, SendInv, TransmitInv, UndefinedInv, FinishInv DEF Next, SendStep

-----------------------------------------------------------------------------
\* The invariant holds in every reachable state.
LEMMA InvHolds == Spec => []Inv
<1>1. Init => Inv
  BY InitInv
<1>2. Inv /\ [Next]_vars => Inv'
  BY NextInv
<1> QED
  BY <1>1, <1>2, PTL DEF Spec

\* No packet is ever given more data than Packet.data holds, whatever the payload's size
\* and the width of size_t.
THEOREM TxTypeCorrect == Spec => []TypeOK
<1>1. Inv => TypeOK
  BY DEF Inv
<1> QED
  BY <1>1, InvHolds, PTL

\* send() never reads behind the end of its buffer.
THEOREM TxReadsInBounds == Spec => []ReadsInBounds
<1>1. Inv => ReadsInBounds
  BY DEF Inv
<1> QED
  BY <1>1, InvHolds, PTL

\* The packets handed over are consecutive parts of the buffer from its start.
THEOREM TxContiguous == Spec => []Contiguous
<1>1. Inv => Contiguous
  BY DEF Inv
<1> QED
  BY <1>1, InvHolds, PTL

\* The flags mark the first and the last packet of each message and no other.
THEOREM TxFlagProtocol == Spec => []FlagProtocol
<1>1. Inv => FlagProtocol
  BY DEF Inv
<1> QED
  BY <1>1, InvHolds, PTL

\* A send() that returns true handed over every chunk, and each was accepted.
THEOREM TxTrueMeansAccepted == Spec => []TrueMeansAccepted
<1>1. Inv => TrueMeansAccepted
  BY DEF Inv
<1> QED
  BY <1>1, InvHolds, PTL

\* A send() that hands every chunk over transmits the whole buffer, except when its size
\* is a multiple of the chunk size: then it transmits one chunk less.
THEOREM TxSentSize == Spec => []FullLastChunkIsEmpty
<1>1. Inv => FullLastChunkIsEmpty
  BY DEF Inv
<1> QED
  BY <1>1, InvHolds, PTL
=============================================================================
