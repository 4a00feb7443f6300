-------------------------- MODULE HashStreamProofs --------------------------
(***************************************************************************)
(* The buffering of sha256_write and the padding of sha256_finalize, for   *)
(* every size of words, every message and every way to cut it into pieces; *)
(* then HMAC and the generator of RFC 6979 on top of them, for every key,  *)
(* message, length and number of draws.                                    *)
(***************************************************************************)
EXTENDS HashStream, Rfc6979, NaturalsInduction, WellFoundedInduction,
        SequenceTheorems, TLAPS

Steps == {"idle", "write", "size", "out"}

\* What sha256_write has still to take, where in the buffer it goes, and
\* which write of the client or of finalize it belongs to.
Left == IF pc = "write" THEN data ELSE << >>
Offset == IF pc = "write" THEN bufsize ELSE BufSize(hash)
Stage == IF pc = "write" THEN back ELSE pc

\* All the bytes written to the object since it was initialized.
Input ==
    IF Stage = "idle" THEN message
    ELSE IF Stage = "size" THEN message \o Pad(Len(message))
    ELSE message \o Pad(Len(message)) \o SizeDesc(Len(message))

\* The bytes that can be in a buffer.
SizeBytes == UNION {{SizeDesc(n)[i] : i \in 1 .. SizeLen} : n \in Nat}
Cell == Byte \cup {Unset, Num(0), Num(128)} \cup SizeBytes

\* Byte i of what the object, with its buffer, and the caller hold.
Held(i) ==
    IF i <= Len(hash.s) THEN hash.s[i]
    ELSE IF i <= Len(hash.s) + Offset THEN hash.buf[i - Len(hash.s)]
    ELSE Left[i - Len(hash.s) - Offset]

TypesInv ==
    /\ pc \in Steps \cup {"new", "final"}
    /\ back \in {"new", "idle", "size", "out"}
    /\ pc = "write" => back # "new"
    /\ hash \in [s : Seq(Cell), buf : [1 .. Block -> Cell], bytes : Nat]
    /\ data \in Seq(Cell)
    /\ message \in Seq(Byte)
    /\ bufsize \in Nat

BufferInv ==
    pc \in Steps =>
        /\ \E q \in Nat : Len(hash.s) = q * Block
        /\ Offset \in 0 .. Block - 1
        /\ hash.bytes = Len(Input)
        /\ Len(hash.s) + Offset + Len(Left) = Len(Input)
        /\ \A i \in 1 .. Len(Input) : Held(i) = Input[i]

SizeInv == Stage \in {"size", "out"} => sizedesc = SizeDesc(Len(message))

HInv == TypesInv /\ BufferInv /\ SizeInv

---------------------------------------------------------------------------
(* Sizes and remainders.                                                   *)

\* The sizes are natural numbers, a block is not empty.
LEMMA Sizes == Block \in Nat \ {0} /\ Out \in Nat /\ SizeLen \in Nat
BY WordAssumption DEF Block, Out, SizeLen

\* A remainder is less than a block.
LEMMA Remainder ==
    ASSUME NEW b \in Nat \ {0}, NEW q \in Nat, NEW r \in 0 .. b - 1
    PROVE  (q * b + r) % b = r
OBVIOUS

\* The next multiple of a block.
LEMMA NextMultiple ==
    ASSUME NEW b \in Nat \ {0}, NEW q \in Nat
    PROVE  q * b + b = (q + 1) * b /\ q + 1 \in Nat
OBVIOUS

\* The padding is a sequence of one byte or more.
LEMMA PadTypes ==
    ASSUME NEW n \in Nat
    PROVE  Pad(n) \in Seq(Cell)
<1>1. PadLen(n) \in Nat
  BY Sizes, SMT DEF PadLen
<1>2. QED
  BY <1>1 DEF Pad, Cell

\* The length field is a sequence of bytes.
LEMMA SizeTypes ==
    ASSUME NEW n \in Nat
    PROVE  SizeDesc(n) \in Seq(Cell) /\ Len(SizeDesc(n)) = SizeLen
<1> DEFINE
      W(w) == {Num((w \div 256 ^ (WordBytes - i)) % 256) :
                   i \in 1 .. WordBytes}
      hi == (n \div (WordSize \div 8)) % WordSize
      lo == (n * 8) % WordSize
      S == W(hi) \cup W(lo)
<1>1. Word(hi) \in [1 .. WordBytes -> S] /\ Word(lo) \in [1 .. WordBytes -> S]
  BY DEF Word
<1>2. SizeDesc(n) = Word(hi) \o Word(lo)
  BY DEF SizeDesc
<1> HIDE DEF W, hi, lo, S
<1>3. /\ Word(hi) \in Seq(S) /\ Len(Word(hi)) = WordBytes
      /\ Word(lo) \in Seq(S) /\ Len(Word(lo)) = WordBytes
  <2>1. WordBytes \in Nat
    BY WordAssumption
  <2>2. \A f \in [1 .. WordBytes -> S] : f \in Seq(S)
    BY <2>1, IsASeq
  <2>3. Word(hi) \in Seq(S) /\ Word(lo) \in Seq(S)
    BY <1>1, <2>2
  <2>4. \A f \in [1 .. WordBytes -> S] : f \in Seq(S) => Len(f) = WordBytes
    BY <2>1, LenProperties
  <2>5. QED
    BY <1>1, <2>3, <2>4
<1>6. SizeDesc(n) \in Seq(S) /\ Len(SizeDesc(n)) = SizeLen
  <2>1. Word(hi) \o Word(lo) \in Seq(S)
    BY <1>3, ConcatProperties
  <2>2. Len(Word(hi) \o Word(lo)) = WordBytes + WordBytes
    BY <1>3, ConcatProperties
  <2>3. QED
    BY <1>2, <2>1, <2>2, WordAssumption DEF SizeLen
<1>7. \A i \in 1 .. Len(SizeDesc(n)) : SizeDesc(n)[i] \in Cell
  BY <1>6 DEF Cell, SizeBytes
<1>8. QED
  BY <1>6, <1>7

---------------------------------------------------------------------------
(* The parts of the invariant are preserved.                               *)

\* What is handed to sha256_write counts as written from then on.
LEMMA EnterStep ==
    ASSUME HInv, pc \in {"idle", "size", "out"}, NEW d \in Seq(Cell),
           NEW to \in {"idle", "size", "out"}, EnterWrite(d, to),
           Input' = Input \o d, Input \in Seq(Cell)
    PROVE  /\ BufferInv'
           /\ pc' = "write" /\ back' = to
           /\ hash' \in [s : Seq(Cell), buf : [1 .. Block -> Cell], bytes : Nat]
           /\ data' \in Seq(Cell) /\ bufsize' \in Nat
<1> USE Sizes
<1>1. /\ hash' = [s |-> hash.s, buf |-> hash.buf,
                  bytes |-> hash.bytes + Len(d)]
      /\ data' = d /\ bufsize' = BufSize(hash) /\ pc' = "write" /\ back' = to
  BY DEF EnterWrite
<1>2. /\ hash \in [s : Seq(Cell), buf : [1 .. Block -> Cell], bytes : Nat]
      /\ Len(d) \in Nat /\ Len(hash.s) \in Nat /\ Len(Input) \in Nat
  BY DEF HInv, TypesInv
<1>3. hash' \in [s : Seq(Cell), buf : [1 .. Block -> Cell], bytes : Nat]
  BY <1>1, <1>2
<1>4. /\ Left = << >> /\ Offset = BufSize(hash) /\ Offset' = Offset
      /\ Left' = d /\ hash'.s = hash.s /\ hash'.buf = hash.buf
      /\ hash'.bytes = hash.bytes + Len(d)
  BY <1>1, <1>2 DEF Left, Offset
<1>5. /\ \E q \in Nat : Len(hash.s) = q * Block
      /\ Offset \in 0 .. Block - 1
      /\ hash.bytes = Len(Input)
      /\ Len(hash.s) + Offset = Len(Input)
      /\ \A i \in 1 .. Len(Input) : Held(i) = Input[i]
  <2>1. BufferInv /\ pc \in Steps
    BY DEF HInv, Steps
  <2>2. Len(Left) = 0
    BY <1>4
  <2>3. /\ \E q \in Nat : Len(hash.s) = q * Block
        /\ Offset \in 0 .. Block - 1
        /\ hash.bytes = Len(Input)
        /\ Len(hash.s) + Offset + Len(Left) = Len(Input)
        /\ \A i \in 1 .. Len(Input) : Held(i) = Input[i]
    BY <2>1 DEF BufferInv
  <2>4. Len(hash.s) + Offset = Len(Input)
    BY <2>2, <2>3, <1>2
  <2>5. QED
    BY <2>3, <2>4
<1>6. /\ Len(Input') = Len(Input) + Len(d)
      /\ \A i \in 1 .. Len(Input) + Len(d) :
            Input'[i] = IF i <= Len(Input) THEN Input[i]
                                           ELSE d[i - Len(Input)]
  BY ConcatProperties
<1>7. ASSUME NEW i \in 1 .. Len(Input')
      PROVE  Held(i)' = Input'[i]
  <2>1. CASE i <= Len(Input)
    <3>1. Held(i)' = Held(i)
      BY <2>1, <1>2, <1>4, <1>5 DEF Held
    <3>2. i \in 1 .. Len(Input)
      BY <2>1, <1>2, <1>6
    <3>3. QED
      BY <2>1, <3>1, <3>2, <1>5, <1>6
  <2>2. CASE i > Len(Input)
    BY <2>2, <1>2, <1>4, <1>5, <1>6 DEF Held
  <2>3. QED
    BY <2>1, <2>2, <1>2, <1>6
<1>8. BufferInv'
  BY <1>1, <1>2, <1>4, <1>5, <1>6, <1>7 DEF BufferInv
<1>9. QED
  BY <1>1, <1>2, <1>3, <1>5, <1>8, <1>4

\* Input is a sequence of bytes.
LEMMA InputTypes ==
    ASSUME TypesInv
    PROVE  /\ Input \in Seq(Cell) /\ message \in Seq(Cell)
           /\ Len(message) \in Nat
           /\ Pad(Len(message)) \in Seq(Cell)
           /\ SizeDesc(Len(message)) \in Seq(Cell)
<1>1. Byte \subseteq Cell
  BY DEF Cell
<1>2. message \in Seq(Byte)
  BY DEF TypesInv
<1>3. message \in Seq(Cell)
  BY <1>1, <1>2, SeqMonotonic
<1>4. Len(message) \in Nat
  BY <1>2, LenProperties
<1>5. Pad(Len(message)) \in Seq(Cell) /\ SizeDesc(Len(message)) \in Seq(Cell)
  BY <1>4, PadTypes, SizeTypes
<1>6. message \o Pad(Len(message)) \in Seq(Cell)
  BY <1>3, <1>5, ConcatProperties
<1>7. message \o Pad(Len(message)) \o SizeDesc(Len(message)) \in Seq(Cell)
  BY <1>5, <1>6, ConcatProperties
<1>8. QED
  BY <1>3, <1>4, <1>5, <1>6, <1>7 DEF Input

\* What is left of a sequence after its first k elements.
LEMMA TailProperties ==
    ASSUME NEW S, NEW d \in Seq(S), NEW k \in Nat, k <= Len(d),
           \A j \in k + 1 .. Len(d) : d[j] \in S
    PROVE  LET t == SubSeq(d, k + 1, Len(d))
           IN  /\ t \in Seq(S) /\ Len(t) = Len(d) - k
               /\ \A j \in 1 .. Len(d) - k : t[j] = d[k + j]
<1> DEFINE t == SubSeq(d, k + 1, Len(d))
<1>1. Len(d) \in Nat
  BY LenProperties
<1>2. /\ t \in Seq(S)
      /\ Len(t) = IF k + 1 <= Len(d) THEN Len(d) - (k + 1) + 1 ELSE 0
      /\ \A j \in 1 .. Len(d) - (k + 1) + 1 : t[j] = d[(k + 1) + j - 1]
  BY <1>1, SubSeqProperties
<1>3. Len(t) = Len(d) - k
  BY <1>1, <1>2
<1>4. ASSUME NEW j \in 1 .. Len(d) - k
      PROVE  t[j] = d[k + j]
  <2>1. j \in 1 .. Len(d) - (k + 1) + 1 /\ (k + 1) + j - 1 = k + j
    BY <1>1
  <2>2. QED
    BY <1>2, <2>1
<1>5. QED
  BY <1>2, <1>3, <1>4

\* Filling the buffer keeps what is held: a block moves from the buffer and
\* the data to the stream.
LEMMA FillStep ==
    ASSUME HInv, FillBlock
    PROVE  HInv'
<1> USE Sizes
<1> DEFINE chunk == Block - bufsize
           buf == Copied(hash.buf, bufsize, SubSeq(data, 1, chunk))
<1>1. /\ pc = "write" /\ bufsize + Len(data) >= Block
      /\ hash' = [s |-> hash.s \o buf, buf |-> buf, bytes |-> hash.bytes]
      /\ data' = SubSeq(data, chunk + 1, Len(data))
      /\ bufsize' = 0
      /\ UNCHANGED <<pc, back, sizedesc, message>>
  BY DEF FillBlock, Transform
<1>2. /\ hash \in [s : Seq(Cell), buf : [1 .. Block -> Cell], bytes : Nat]
      /\ data \in Seq(Cell) /\ Len(data) \in Nat /\ Len(hash.s) \in Nat
      /\ Input \in Seq(Cell) /\ Len(Input) \in Nat
  BY InputTypes DEF HInv, TypesInv
<1>3. /\ bufsize \in 0 .. Block - 1 /\ Left = data /\ Offset = bufsize
      /\ hash.bytes = Len(Input)
      /\ Len(hash.s) + bufsize + Len(data) = Len(Input)
      /\ \A i \in 1 .. Len(Input) : Held(i) = Input[i]
  BY <1>1 DEF HInv, BufferInv, Steps, Left, Offset
<1>4. PICK q \in Nat : Len(hash.s) = q * Block
  BY <1>1 DEF HInv, BufferInv, Steps
<1>5. /\ chunk \in 1 .. Block /\ chunk <= Len(data)
      /\ \A i \in 1 .. chunk : data[i] \in Cell
      /\ \A i \in chunk + 1 .. Len(data) : data[i] \in Cell
  <2>1. chunk \in 1 .. Block /\ chunk <= Len(data)
    BY <1>1, <1>2, <1>3
  <2>2. \A i \in 1 .. Len(data) : data[i] \in Cell
    BY <1>2, ElementOfSeq
  <2>3. QED
    BY <2>1, <2>2, <1>2
<1>6. /\ SubSeq(data, 1, chunk) \in Seq(Cell)
      /\ Len(SubSeq(data, 1, chunk)) = chunk
      /\ \A i \in 1 .. chunk : SubSeq(data, 1, chunk)[i] = data[i]
  BY <1>5, SubSeqProperties
<1>7. /\ data' \in Seq(Cell) /\ Len(data') = Len(data) - chunk
      /\ \A i \in 1 .. Len(data) - chunk : data'[i] = data[chunk + i]
  <2>1. chunk \in Nat /\ chunk <= Len(data)
    BY <1>5
  <2> HIDE DEF chunk
  <2>2. QED
    BY <1>1, <1>2, <1>5, <2>1, TailProperties
<1> HIDE DEF chunk
<1>8. \A i \in 1 .. Block : buf[i] = IF bufsize < i THEN data[i - bufsize]
                                                   ELSE hash.buf[i]
  BY <1>2, <1>3, <1>5, <1>6 DEF Copied, chunk
<1>9. buf \in [1 .. Block -> Cell]
  <2>1. \A i \in 1 .. Block : buf[i] \in Cell
    <3>1. ASSUME NEW i \in 1 .. Block, bufsize < i
          PROVE  i - bufsize \in 1 .. chunk
      BY <3>1, <1>3 DEF chunk
    <3>2. ASSUME NEW i \in 1 .. Block PROVE hash.buf[i] \in Cell
      BY <1>2
    <3>3. QED
      BY <1>8, <1>5, <3>1, <3>2
  <2>2. QED
    BY <2>1 DEF Copied
<1> HIDE DEF buf
<1>10. buf \in Seq(Cell) /\ Len(buf) = Block
  <2>1. buf \in Seq(Cell)
    BY <1>9, IsASeq
  <2>2. QED
    BY <1>9, <2>1, LenProperties
<1>11. /\ hash.s \o buf \in Seq(Cell)
       /\ Len(hash.s \o buf) = Len(hash.s) + Block
       /\ \A i \in 1 .. Len(hash.s) + Block :
             (hash.s \o buf)[i] = IF i <= Len(hash.s) THEN hash.s[i]
                                  ELSE buf[i - Len(hash.s)]
  BY <1>2, <1>10, ConcatProperties
<1>12. /\ hash'.s = hash.s \o buf /\ hash'.buf = buf
       /\ hash'.bytes = hash.bytes
       /\ Left' = data' /\ Offset' = 0 /\ Input' = Input
       /\ Stage' = Stage
  BY <1>1 DEF Left, Offset, Input, Stage
<1>13. ASSUME NEW i \in 1 .. Len(Input)
       PROVE  Held(i)' = Held(i)
  <2>1. CASE i <= Len(hash.s)
    BY <2>1, <1>2, <1>3, <1>11, <1>12 DEF Held
  <2>2. CASE Len(hash.s) < i /\ i <= Len(hash.s) + Block
    <3>1. Held(i)' = buf[i - Len(hash.s)]
      BY <2>2, <1>2, <1>3, <1>11, <1>12 DEF Held
    <3>2. buf[i - Len(hash.s)] =
              IF bufsize < i - Len(hash.s)
              THEN data[i - Len(hash.s) - bufsize]
              ELSE hash.buf[i - Len(hash.s)]
      BY <2>2, <1>2, <1>8
    <3>3. QED
      BY <3>1, <3>2, <2>2, <1>2, <1>3 DEF Held
  <2>3. CASE i > Len(hash.s) + Block
    <3>1. Held(i)' = data'[i - (Len(hash.s) + Block)]
      <4>1. Len(hash'.s) = Len(hash.s) + Block /\ Offset' = 0 /\ Left' = data'
        BY <1>11, <1>12
      <4>2. Held(i)' = Left'[i - Len(hash'.s) - Offset']
        BY <4>1, <2>3, <1>2 DEF Held
      <4>3. i - Len(hash'.s) - Offset' = i - (Len(hash.s) + Block)
        BY <4>1, <1>2
      <4>4. QED
        BY <4>1, <4>2, <4>3
    <3>2. data'[i - (Len(hash.s) + Block)] =
              data[chunk + (i - (Len(hash.s) + Block))]
      BY <2>3, <1>2, <1>3, <1>5, <1>7 DEF chunk
    <3>3. Held(i) = data[i - Len(hash.s) - bufsize]
      BY <2>3, <1>2, <1>3 DEF Held
    <3>4. chunk + (i - (Len(hash.s) + Block)) = i - Len(hash.s) - bufsize
      BY <1>2, <1>3 DEF chunk
    <3>5. QED
      BY <3>1, <3>2, <3>3, <3>4
  <2>4. QED
    BY <2>1, <2>2, <2>3, <1>2
<1>14. Len(hash'.s) = (q + 1) * Block /\ q + 1 \in Nat
  BY <1>4, <1>11, <1>12, NextMultiple
<1>15. Len(hash'.s) + Offset' + Len(Left') = Len(Input')
  BY <1>2, <1>3, <1>5, <1>7, <1>11, <1>12 DEF chunk
<1>16. TypesInv'
  BY <1>1, <1>2, <1>7, <1>9, <1>11 DEF HInv, TypesInv
<1>17. BufferInv'
  <2>1. \E n \in Nat : Len(hash'.s) = n * Block
    BY <1>14
  <2>2. Offset' \in 0 .. Block - 1
    BY <1>12
  <2>3. hash'.bytes = Len(Input')
    BY <1>3, <1>12
  <2>4. \A i \in 1 .. Len(Input') : Held(i)' = Input'[i]
    BY <1>3, <1>12, <1>13
  <2>5. QED
    BY <1>15, <2>1, <2>2, <2>3, <2>4 DEF BufferInv
<1>18. SizeInv'
  BY <1>1, <1>12 DEF HInv, SizeInv
<1>19. QED
  BY <1>16, <1>17, <1>18 DEF HInv

\* Keeping the rest moves data to the buffer; its new offset is the number
\* of bytes written modulo the size of a block.
LEMMA KeepStep ==
    ASSUME HInv, KeepRest
    PROVE  HInv'
<1> USE Sizes
<1> DEFINE buf == Copied(hash.buf, bufsize, data)
<1>1. /\ pc = "write" /\ bufsize + Len(data) < Block
      /\ hash' = [s |-> hash.s, buf |-> buf, bytes |-> hash.bytes]
      /\ data' = << >> /\ pc' = back
      /\ UNCHANGED <<bufsize, back, sizedesc, message>>
  BY DEF KeepRest
<1>2. /\ hash \in [s : Seq(Cell), buf : [1 .. Block -> Cell], bytes : Nat]
      /\ data \in Seq(Cell) /\ Len(data) \in Nat /\ Len(hash.s) \in Nat
      /\ Input \in Seq(Cell) /\ Len(Input) \in Nat
      /\ back \in {"idle", "size", "out"}
  BY <1>1, InputTypes DEF HInv, TypesInv
<1>3. /\ bufsize \in 0 .. Block - 1 /\ Left = data /\ Offset = bufsize
      /\ hash.bytes = Len(Input)
      /\ Len(hash.s) + bufsize + Len(data) = Len(Input)
      /\ \A i \in 1 .. Len(Input) : Held(i) = Input[i]
  BY <1>1 DEF HInv, BufferInv, Steps, Left, Offset
<1>4. PICK q \in Nat : Len(hash.s) = q * Block
  BY <1>1 DEF HInv, BufferInv, Steps
<1>5. \A i \in 1 .. Block :
          buf[i] = IF bufsize < i /\ i <= bufsize + Len(data)
                   THEN data[i - bufsize] ELSE hash.buf[i]
  BY DEF Copied
<1>6. buf \in [1 .. Block -> Cell]
  <2>1. ASSUME NEW i \in 1 .. Block, bufsize < i, i <= bufsize + Len(data)
        PROVE  data[i - bufsize] \in Cell
    <3>1. i - bufsize \in 1 .. Len(data)
      BY <2>1, <1>2, <1>3
    <3>2. QED
      BY <3>1, <1>2, ElementOfSeq
  <2>2. ASSUME NEW i \in 1 .. Block PROVE hash.buf[i] \in Cell
    BY <1>2
  <2>3. QED
    BY <2>1, <2>2 DEF Copied
<1> HIDE DEF buf
<1>7. /\ hash'.s = hash.s /\ hash'.buf = buf /\ hash'.bytes = hash.bytes
      /\ Stage' = Stage /\ Input' = Input /\ Left' = << >>
      /\ Offset' = BufSize(hash)' /\ pc' \in Steps
  BY <1>1, <1>2 DEF Left, Offset, Input, Stage, Steps
<1>8. Offset' = bufsize + Len(data)
  <2>1. bufsize + Len(data) \in 0 .. Block - 1
    BY <1>1, <1>2, <1>3
  <2>2. hash'.bytes = q * Block + (bufsize + Len(data))
    BY <1>2, <1>3, <1>4, <1>7
  <2>3. QED
    BY <2>1, <2>2, <1>7, Remainder DEF BufSize
<1>9. Len(Left') = 0
  BY <1>7
<1>10. ASSUME NEW i \in 1 .. Len(Input)
       PROVE  Held(i)' = Held(i)
  <2>1. CASE i <= Len(hash.s)
    BY <2>1, <1>2, <1>3, <1>7 DEF Held
  <2>2. CASE i > Len(hash.s)
    <3>1. Held(i)' = buf[i - Len(hash.s)]
      BY <2>2, <1>2, <1>3, <1>7, <1>8 DEF Held
    <3>2. i - Len(hash.s) \in 1 .. Block
      BY <2>2, <1>1, <1>2, <1>3
    <3>3. CASE i <= Len(hash.s) + bufsize
      <4>1. Held(i) = hash.buf[i - Len(hash.s)]
        BY <3>3, <2>2, <1>2, <1>3 DEF Held
      <4>2. ~(bufsize < i - Len(hash.s))
        BY <3>3, <1>2, <1>3
      <4>3. QED
        BY <4>1, <4>2, <3>1, <3>2, <1>5
    <3>4. CASE i > Len(hash.s) + bufsize
      <4>1. Held(i) = data[i - Len(hash.s) - bufsize]
        BY <3>4, <2>2, <1>2, <1>3 DEF Held
      <4>2. /\ bufsize < i - Len(hash.s)
            /\ i - Len(hash.s) <= bufsize + Len(data)
        BY <3>4, <1>2, <1>3
      <4>3. QED
        BY <4>1, <4>2, <3>1, <3>2, <1>5
    <3>5. QED
      BY <3>3, <3>4, <1>2, <1>3
  <2>3. QED
    BY <2>1, <2>2, <1>2
<1>11. TypesInv'
  BY <1>1, <1>2, <1>6 DEF HInv, TypesInv, Steps
<1>12. BufferInv'
  <2>1. \E n \in Nat : Len(hash'.s) = n * Block
    BY <1>4, <1>7
  <2>2. Offset' \in 0 .. Block - 1
    BY <1>1, <1>2, <1>3, <1>8
  <2>3. hash'.bytes = Len(Input')
    BY <1>3, <1>7
  <2>4. Len(hash'.s) + Offset' + Len(Left') = Len(Input')
    BY <1>2, <1>3, <1>7, <1>8, <1>9
  <2>5. \A i \in 1 .. Len(Input') : Held(i)' = Input'[i]
    BY <1>3, <1>7, <1>10
  <2>6. QED
    BY <2>1, <2>2, <2>3, <2>4, <2>5 DEF BufferInv
<1>13. SizeInv'
  BY <1>1, <1>7 DEF HInv, SizeInv
<1>14. QED
  BY <1>11, <1>12, <1>13 DEF HInv

\* A fresh object holds nothing.
LEMMA InitializeStep ==
    ASSUME HInv, Initialize
    PROVE  HInv'
<1> USE Sizes
<1>1. /\ hash' = Initialized /\ message' = << >> /\ pc' = "idle"
      /\ back' = "idle" /\ data' = << >> /\ bufsize' = 0
  BY DEF Initialize
<1>2. /\ hash'.s = << >> /\ hash'.bytes = 0
      /\ hash' \in [s : Seq(Cell), buf : [1 .. Block -> Cell], bytes : Nat]
  BY <1>1 DEF Initialized, Cell
<1>3. /\ Len(hash'.s) = 0 /\ Stage' = "idle" /\ Input' = << >>
      /\ Left' = << >> /\ Len(Left') = 0 /\ Len(Input') = 0
  BY <1>1, <1>2 DEF Stage, Input, Left
<1>4. Offset' = 0
  <2>1. Offset' = hash'.bytes % Block
    BY <1>1 DEF Offset, BufSize
  <2>2. (0 * Block + 0) % Block = 0
    BY Remainder
  <2>3. QED
    BY <2>1, <2>2, <1>2
<1>5. \E q \in Nat : Len(hash'.s) = q * Block
  <2>1. Len(hash'.s) = 0 * Block
    BY <1>3
  <2>2. QED
    BY <2>1
<1>6. BufferInv'
  BY <1>2, <1>3, <1>4, <1>5 DEF BufferInv
<1>7. TypesInv'
  BY <1>1, <1>2 DEF TypesInv, Steps
<1>8. QED
  BY <1>3, <1>6, <1>7 DEF HInv, SizeInv

\* Nothing has been written yet.
LEMMA InitInv == Init => HInv
<1> SUFFICES ASSUME Init PROVE HInv
  OBVIOUS
<1>1. pc = "new" /\ back = "new" /\ hash = Initialized
  BY DEF Init
<1>2. hash \in [s : Seq(Cell), buf : [1 .. Block -> Cell], bytes : Nat]
  BY <1>1 DEF Initialized, Cell
<1>3. TypesInv
  BY <1>1, <1>2 DEF Init, TypesInv
<1>4. BufferInv /\ SizeInv
  BY <1>1 DEF BufferInv, SizeInv, Steps, Stage
<1>5. QED
  BY <1>3, <1>4 DEF HInv

\* Every step of the hash and of its client keeps the invariant.
LEMMA NextInv == HInv /\ [Next]_vars => HInv'
<1> SUFFICES ASSUME HInv, [Next]_vars PROVE HInv'
  OBVIOUS
<1>1. TypesInv /\ BufferInv /\ SizeInv
  BY DEF HInv
<1>2. ASSUME NEW n \in 0 .. Len(Source) - Len(message), Write(n)
      PROVE  HInv'
  <2> DEFINE d == SubSeq(Source, Len(message) + 1, Len(message) + n)
  <2>1. /\ pc = "idle" /\ EnterWrite(d, "idle")
        /\ message' = message \o d
        /\ UNCHANGED sizedesc
    BY <1>2 DEF Write
  <2>2. /\ Len(message) \in Nat /\ Len(Source) \in Nat
        /\ message \in Seq(Byte) /\ message \in Seq(Cell)
        /\ Byte \subseteq Cell
    BY <1>1, InputTypes, SourceAssumption DEF TypesInv, Cell
  <2>3. \A i \in Len(message) + 1 .. Len(message) + n : Source[i] \in Byte
    BY <2>2, SourceAssumption, ElementOfSeq
  <2>4. d \in Seq(Byte)
    BY <2>2, <2>3, SubSeqProperties
  <2> HIDE DEF d
  <2>5. d \in Seq(Cell) /\ message' \in Seq(Byte)
    <3>1. d \in Seq(Cell)
      BY <2>2, <2>4, SeqMonotonic
    <3>2. message \o d \in Seq(Byte)
      BY <2>2, <2>4, ConcatProperties
    <3>3. QED
      BY <2>1, <3>1, <3>2
  <2>6. pc' = "write" /\ back' = "idle"
    BY <2>1 DEF EnterWrite
  <2>7. Input' = Input \o d /\ Stage' = "idle"
    BY <2>1, <2>6 DEF Input, Stage
  <2>8. /\ BufferInv'
        /\ hash' \in [s : Seq(Cell), buf : [1 .. Block -> Cell], bytes : Nat]
        /\ data' \in Seq(Cell) /\ bufsize' \in Nat
    BY <1>1, <2>1, <2>5, <2>7, EnterStep, InputTypes
  <2>9. TypesInv'
    BY <2>5, <2>6, <2>8 DEF TypesInv, Steps
  <2>10. QED
    BY <2>7, <2>8, <2>9 DEF HInv, SizeInv
<1>3. ASSUME Finalize PROVE HInv'
  <2>1. /\ pc = "idle" /\ sizedesc' = SizeDesc(hash.bytes)
        /\ EnterWrite(Pad(hash.bytes), "size") /\ message' = message
    BY <1>3 DEF Finalize
  <2>2. pc' = "write" /\ back' = "size" /\ Stage' = "size"
    BY <2>1 DEF EnterWrite, Stage
  <2>3. Input = message /\ hash.bytes = Len(message)
    BY <1>1, <2>1 DEF BufferInv, Steps, Input, Stage
  <2>4. Input' = Input \o Pad(hash.bytes)
    BY <2>1, <2>2, <2>3 DEF Input
  <2>5. /\ BufferInv'
        /\ hash' \in [s : Seq(Cell), buf : [1 .. Block -> Cell], bytes : Nat]
        /\ data' \in Seq(Cell) /\ bufsize' \in Nat
    BY <1>1, <2>1, <2>3, <2>4, EnterStep, InputTypes
  <2>6. TypesInv'
    BY <1>1, <2>1, <2>2, <2>5 DEF TypesInv, Steps
  <2>7. QED
    BY <2>1, <2>3, <2>5, <2>6 DEF HInv, SizeInv
<1>4. ASSUME WriteSize PROVE HInv'
  <2>1. /\ pc = "size" /\ UNCHANGED <<sizedesc, message>>
        /\ EnterWrite(sizedesc, "out")
    BY <1>4 DEF WriteSize
  <2>2. pc' = "write" /\ back' = "out" /\ Stage' = "out" /\ Stage = "size"
    BY <2>1 DEF EnterWrite, Stage
  <2>3. sizedesc = SizeDesc(Len(message))
    BY <1>1, <2>2 DEF SizeInv
  <2>4. Input' = Input \o sizedesc
    BY <2>1, <2>2, <2>3 DEF Input
  <2>5. /\ BufferInv'
        /\ hash' \in [s : Seq(Cell), buf : [1 .. Block -> Cell], bytes : Nat]
        /\ data' \in Seq(Cell) /\ bufsize' \in Nat
    BY <1>1, <2>1, <2>3, <2>4, EnterStep, InputTypes
  <2>6. TypesInv'
    BY <1>1, <2>1, <2>2, <2>5 DEF TypesInv, Steps
  <2>7. QED
    BY <2>1, <2>3, <2>5, <2>6 DEF HInv, SizeInv
<1>5. ASSUME Output PROVE HInv'
  <2>1. /\ hash' = [s |-> << >>, buf |-> hash.buf, bytes |-> hash.bytes]
        /\ pc' = "final" /\ UNCHANGED <<data, bufsize, back, message>>
    BY <1>5 DEF Output
  <2>2. TypesInv'
    BY <1>1, <2>1 DEF TypesInv
  <2>3. BufferInv' /\ SizeInv'
    BY <2>1 DEF BufferInv, SizeInv, Steps, Stage
  <2>4. QED
    BY <2>2, <2>3 DEF HInv
<1>6. ASSUME UNCHANGED vars PROVE HInv'
  BY <1>6 DEF vars, HInv, TypesInv, BufferInv, SizeInv, Held, Left, Offset,
              Stage, Input, BufSize
<1>7. QED
  BY <1>2, <1>3, <1>4, <1>5, <1>6, InitializeStep, FillStep, KeepStep DEF Next

\* It holds in every reachable state.
LEMMA Invariance == Spec => []HInv
BY InitInv, NextInv, PTL DEF Spec

---------------------------------------------------------------------------
\* Between two writes, the compressed stream and the counted part of the
\* buffer are the message, whatever pieces it came in (sha256_write).
THEOREM StreamIsMessage == Spec => []Streamed
<1>1. HInv => Streamed
  <2> SUFFICES ASSUME HInv, pc = "idle"
               PROVE  hash.s \o SubSeq(hash.buf, 1, BufSize(hash)) = message
    BY DEF Streamed
  <2> DEFINE n == BufSize(hash)
             kept == SubSeq(hash.buf, 1, n)
  <2>1. /\ Input = message /\ Left = << >> /\ Offset = n /\ Len(Left) = 0
    BY DEF Input, Left, Offset, Stage
  <2>2. /\ hash.s \in Seq(Cell) /\ hash.buf \in [1 .. Block -> Cell]
        /\ Len(hash.s) \in Nat /\ Len(message) \in Nat
        /\ message \in Seq(Cell) /\ Block \in Nat
    BY InputTypes, Sizes DEF HInv, TypesInv
  <2>3. /\ n \in 0 .. Block - 1
        /\ Len(hash.s) + n = Len(message)
        /\ \A i \in 1 .. Len(message) : Held(i) = message[i]
    <3>1. /\ Offset \in 0 .. Block - 1
          /\ Len(hash.s) + Offset + Len(Left) = Len(Input)
          /\ \A i \in 1 .. Len(Input) : Held(i) = Input[i]
      BY DEF HInv, BufferInv, Steps
    <3>2. QED
      BY <3>1, <2>1, <2>2
  <2> HIDE DEF n
  <2>4. /\ kept \in Seq(Cell) /\ Len(kept) = n
        /\ \A i \in 1 .. n : kept[i] = hash.buf[i]
    <3>1. \A i \in 1 .. n : hash.buf[i] \in Cell
      BY <2>2, <2>3
    <3>2. QED
      BY <3>1, <2>3, SubSeqProperties
  <2> HIDE DEF kept
  <2>5. /\ hash.s \o kept \in Seq(Cell)
        /\ Len(hash.s \o kept) = Len(hash.s) + n
        /\ \A i \in 1 .. Len(hash.s) + n :
              (hash.s \o kept)[i] = IF i <= Len(hash.s) THEN hash.s[i]
                                    ELSE kept[i - Len(hash.s)]
    BY <2>2, <2>4, ConcatProperties
  <2>6. \A i \in 1 .. Len(message) : (hash.s \o kept)[i] = message[i]
    <3> SUFFICES ASSUME NEW i \in 1 .. Len(message)
                 PROVE  (hash.s \o kept)[i] = Held(i)
      BY <2>3
    <3>1. CASE i <= Len(hash.s)
      <4>1. Held(i) = hash.s[i]
        BY <3>1 DEF Held
      <4>2. i \in 1 .. Len(hash.s) + n
        BY <2>3
      <4>3. QED
        BY <3>1, <4>1, <4>2, <2>5
    <3>2. CASE i > Len(hash.s)
      <4>1. i - Len(hash.s) \in 1 .. n
        BY <3>2, <2>2, <2>3
      <4>2. (hash.s \o kept)[i] = hash.buf[i - Len(hash.s)]
        BY <4>1, <3>2, <2>2, <2>3, <2>4, <2>5
      <4>3. Held(i) = hash.buf[i - Len(hash.s)]
        BY <4>1, <3>2, <2>1, <2>2, <2>3 DEF Held
      <4>4. QED
        BY <4>2, <4>3
    <3>3. i <= Len(hash.s) \/ i > Len(hash.s)
      BY <2>2
    <3>4. QED
      BY <3>1, <3>2, <3>3
  <2>7. hash.s \o kept = message
    BY <2>2, <2>3, <2>5, <2>6, SeqEqual
  <2>8. QED
    BY <2>7 DEF kept, n
<1>2. QED
  BY <1>1, Invariance, PTL

\* The padding and the length complete a block.
LEMMA PadFits ==
    ASSUME NEW n \in Nat
    PROVE  /\ Len(Pad(n)) = PadLen(n) /\ PadLen(n) \in Nat
           /\ \E q \in Nat : n + PadLen(n) + SizeLen = q * Block
<1> USE Sizes
<1>1. PICK q \in Nat, r \in 0 .. Block - 1 : n = q * Block + r
  <2>1. n % Block \in 0 .. Block - 1 /\ n \div Block \in Nat
    BY SMT
  <2>2. n = (n \div Block) * Block + (n % Block)
    BY SMT
  <2>3. QED
    BY <2>1, <2>2
<1>2. n % Block = r
  BY <1>1, Remainder
<1>3. 1 + SizeLen < Block /\ Block \in Nat /\ SizeLen \in Nat
  BY WordAssumption DEF Block, SizeLen
<1> DEFINE x == 2 * Block - 1 - SizeLen - r
<1>4. x \in Nat /\ x < 2 * Block /\ PadLen(n) = 1 + (x % Block)
  BY <1>1, <1>2, <1>3 DEF PadLen
<1>5. /\ q * Block + Block = (q + 1) * Block
      /\ q * Block + Block + Block = (q + 1 + 1) * Block
      /\ q + 1 \in Nat /\ q + 1 + 1 \in Nat
  BY NextMultiple
<1>6. CASE x < Block
  <2>1. x % Block = x
    BY <1>4, <1>6, SMT
  <2>2. PadLen(n) = 1 + x
    BY <1>4, <2>1
  <2>3. n + PadLen(n) + SizeLen = q * Block + Block + Block
    BY <1>1, <1>3, <2>2
  <2>4. PadLen(n) \in Nat
    BY <1>4, <2>2
  <2>5. Len(Pad(n)) = PadLen(n)
    BY <2>4 DEF Pad
  <2>6. QED
    BY <1>5, <2>3, <2>4, <2>5
<1>7. CASE x >= Block
  <2>1. (1 * Block + (x - Block)) % Block = x - Block
    <3>1. x - Block \in 0 .. Block - 1
      BY <1>3, <1>4, <1>7
    <3>2. QED
      BY <3>1, Remainder
  <2>2. 1 * Block + (x - Block) = x
    BY <1>3, <1>4
  <2>3. PadLen(n) = 1 + (x - Block)
    BY <1>4, <2>1, <2>2
  <2>4. n + PadLen(n) + SizeLen = q * Block + Block
    BY <1>1, <1>3, <2>3
  <2>5. PadLen(n) \in Nat
    BY <1>3, <1>4, <1>7, <2>3
  <2>6. Len(Pad(n)) = PadLen(n)
    BY <2>5 DEF Pad
  <2>7. QED
    BY <1>5, <2>4, <2>5, <2>6
<1>8. QED
  BY <1>3, <1>4, <1>6, <1>7

\* A block is complete when the digest is taken.
LEMMA CompleteWhenOut == HInv => AllCompressed
<1> SUFFICES ASSUME HInv, pc = "out" PROVE BufSize(hash) = 0
  BY DEF AllCompressed
<1> USE Sizes
<1> DEFINE m == Len(message)
           padded == message \o Pad(m)
<1>1. /\ Input = padded \o SizeDesc(m) /\ Offset = BufSize(hash)
      /\ Left = << >>
  BY DEF Input, Stage, Offset, Left
<1>2. /\ message \in Seq(Cell) /\ m \in Nat /\ Pad(m) \in Seq(Cell)
      /\ SizeDesc(m) \in Seq(Cell) /\ Len(SizeDesc(m)) = SizeLen
  BY InputTypes, SizeTypes DEF HInv
<1>3. padded \in Seq(Cell) /\ Len(padded) = m + PadLen(m)
  <2>1. Len(Pad(m)) = PadLen(m)
    BY <1>2, PadFits
  <2>2. padded \in Seq(Cell) /\ Len(padded) = Len(message) + Len(Pad(m))
    BY <1>2, ConcatProperties
  <2>3. QED
    BY <2>1, <2>2
<1> HIDE DEF padded
<1>4. Len(Input) = m + PadLen(m) + SizeLen
  BY <1>1, <1>2, <1>3, ConcatProperties
<1>5. hash.bytes = Len(Input)
  BY DEF HInv, BufferInv, Steps
<1>6. PICK q \in Nat : m + PadLen(m) + SizeLen = q * Block
  BY <1>2, PadFits
<1>7. (q * Block + 0) % Block = 0
  BY Remainder
<1>8. hash.bytes = q * Block + 0
  BY <1>4, <1>5, <1>6
<1>9. QED
  BY <1>7, <1>8 DEF BufSize

\* The digest is taken of whole blocks, for every length of the message and
\* every size of words (sha256_finalize).
THEOREM DigestIsComplete == Spec => []AllCompressed
BY CompleteWhenOut, Invariance, PTL

---------------------------------------------------------------------------
(* What the digest is of.                                                  *)

\* The message, the padding and the length.
DigestOfInput ==
    pc = "final" =>
        out = message \o Pad(Len(message)) \o SizeDesc(Len(message))

\* With nothing left in the buffer the stream is all that was written.
LEMMA StreamWhenOut == HInv /\ pc = "out" => hash.s = Input
<1> SUFFICES ASSUME HInv, pc = "out" PROVE hash.s = Input
  OBVIOUS
<1>1. BufSize(hash) = 0
  BY CompleteWhenOut DEF AllCompressed
<1>2. Left = << >> /\ Offset = 0
  BY <1>1 DEF Left, Offset
<1>3. /\ Input \in Seq(Cell) /\ hash.s \in Seq(Cell)
      /\ Len(hash.s) \in Nat /\ Len(Input) \in Nat
  BY InputTypes DEF HInv, TypesInv
<1>4. /\ Len(hash.s) + Offset + Len(Left) = Len(Input)
      /\ \A i \in 1 .. Len(Input) : Held(i) = Input[i]
  BY DEF HInv, BufferInv, Steps
<1>5. Len(hash.s) = Len(Input)
  BY <1>2, <1>3, <1>4
<1>6. \A i \in 1 .. Len(Input) : hash.s[i] = Input[i]
  BY <1>3, <1>4, <1>5 DEF Held
<1>7. QED
  BY <1>3, <1>5, <1>6, SeqEqual

\* Only Output sets the digest, to what has been compressed by then.
LEMMA DigestOfInputNext == HInv /\ DigestOfInput /\ [Next]_vars => DigestOfInput'
<1> SUFFICES ASSUME HInv, DigestOfInput, [Next]_vars, pc' = "final"
             PROVE  out' = message' \o Pad(Len(message')) \o SizeDesc(Len(message'))
  BY DEF DigestOfInput
<1>1. CASE Output
  <2>1. hash.s = Input
    BY <1>1, StreamWhenOut DEF Output
  <2>2. Input = message \o Pad(Len(message)) \o SizeDesc(Len(message))
    BY <1>1 DEF Output, Input, Stage
  <2>3. QED
    BY <1>1, <2>1, <2>2 DEF Output
<1>2. CASE UNCHANGED vars
  BY <1>2 DEF vars, DigestOfInput
<1>3. CASE KeepRest
  <2>1. pc' = back /\ back # "final"
    BY <1>3 DEF KeepRest, HInv, TypesInv
  <2>2. QED
    BY <2>1
<1>4. CASE FillBlock
  BY <1>4 DEF FillBlock
<1>5. ASSUME Initialize \/ Finalize \/ WriteSize
             \/ \E n \in 0 .. Len(Source) - Len(message) : Write(n)
      PROVE  FALSE
  BY <1>5 DEF Initialize, Finalize, WriteSize, Write, EnterWrite
<1>6. QED
  BY <1>1, <1>2, <1>3, <1>4, <1>5 DEF Next

\* The digest is that of the message, the padding and the length of the
\* message in bits as finalize takes it down before it writes either, for
\* every message and every size of words (sha256_finalize).
THEOREM DigestOfMessage == Spec => []DigestOfInput
<1>1. Init => DigestOfInput
  BY DEF Init, DigestOfInput
<1>2. QED
  BY <1>1, DigestOfInputNext, Invariance, PTL DEF Spec

\* The padding fills up the last block, with less than a block of zeros.
LEMMA PadLeast ==
    ASSUME NEW n \in Nat
    PROVE  /\ PadLen(n) - 1 \in 0 .. Block - 1 /\ PadLen(n) = (PadLen(n) - 1) + 1
           /\ (n + 1 + (PadLen(n) - 1) + SizeLen) % Block = 0
<1> USE Sizes
<1> DEFINE z == PadLen(n) - 1
<1>1. z \in 0 .. Block - 1 /\ PadLen(n) = z + 1
  <2>1. Block > 0 /\ Block \in Nat /\ SizeLen \in Nat /\ 2 * Block - 1 - SizeLen - (n % Block) \in Int
    BY SMT
  <2>2. (2 * Block - 1 - SizeLen - (n % Block)) % Block \in 0 .. Block - 1
    BY <2>1, SMT
  <2>3. QED
    BY <2>2 DEF PadLen
<1>2. (n + 1 + z + SizeLen) % Block = 0
  <2>1. PICK q \in Nat : n + PadLen(n) + SizeLen = q * Block
    BY PadFits
  <2>2. n + 1 + z + SizeLen = q * Block + 0
    BY <1>1, <2>1
  <2>3. (q * Block + 0) % Block = 0
    BY Remainder
  <2>4. QED
    BY <2>2, <2>3
<1>3. QED
  BY <1>1, <1>2

\* The zeros of the padding are the least number that completes a block.
LEMMA PadIsLeast ==
    ASSUME NEW n \in Nat
    PROVE  LET k == CHOOSE k \in 0 .. Block - 1 :
                        (n + 1 + k + SizeLen) % Block = 0
           IN  Pad(n) = <<Num(128)>> \o Zeros(k)
<1> USE Sizes
<1> DEFINE Fits(k) == (n + 1 + k + SizeLen) % Block = 0
           least == CHOOSE k \in 0 .. Block - 1 : Fits(k)
           z == PadLen(n) - 1
<1>1. z \in 0 .. Block - 1 /\ PadLen(n) = z + 1
  BY PadLeast
<1>2. Fits(z)
  BY PadLeast
<1> HIDE DEF z
<1>3. ASSUME NEW k \in 0 .. Block - 1, Fits(k) PROVE k = z
  <2>1. PICK p \in Nat : n + 1 + k + SizeLen = p * Block
    <3>1. n + 1 + k + SizeLen \in Nat
      BY <1>3
    <3>2. \A x \in Nat : x % Block = 0 => \E p \in Nat : x = p * Block
      <4> SUFFICES ASSUME NEW x \in Nat, x % Block = 0
                   PROVE  \E p \in Nat : x = p * Block
        OBVIOUS
      <4>1. x \div Block \in Nat /\ x = (x \div Block) * Block + (x % Block)
        BY SMT
      <4>2. QED
        BY <4>1
    <3>3. QED
      BY <1>3, <3>1, <3>2
  <2>2. PICK q \in Nat : n + 1 + z + SizeLen = q * Block
    <3>1. PICK q \in Nat : n + PadLen(n) + SizeLen = q * Block
      BY PadFits
    <3>2. QED
      BY <1>1, <3>1
  <2>3. k - z = p * Block - q * Block /\ k - z < Block /\ z - k < Block
    BY <1>1, <1>3, <2>1, <2>2
  <2>4. p = q
    <3>1. ASSUME p > q PROVE FALSE
      <4>1. p * Block >= (q + 1) * Block
        BY <3>1, SMT
      <4>2. (q + 1) * Block = q * Block + Block
        BY NextMultiple
      <4>3. QED
        BY <2>3, <4>1, <4>2, SMT
    <3>2. ASSUME q > p PROVE FALSE
      <4>1. q * Block >= (p + 1) * Block
        BY <3>2, SMT
      <4>2. (p + 1) * Block = p * Block + Block
        BY NextMultiple
      <4> DEFINE X == p * Block
                 Y == q * Block
      <4>3. X \in Nat /\ Y \in Nat /\ Block \in Nat /\ Y >= X + Block
        BY <4>1, <4>2
      <4>4. /\ n + 1 + k + SizeLen = X
            /\ n + 1 + z + SizeLen = Y
        BY <2>1, <2>2
      <4> HIDE DEF X, Y
      <4>5. k \in Nat /\ z \in Nat /\ z < Block /\ SizeLen \in Nat
        BY <1>1
      <4>6. Y = X + (z - k)
        BY <4>3, <4>4, <4>5
      <4>7. QED
        BY <4>3, <4>5, <4>6
    <3>3. QED
      BY <3>1, <3>2
  <2>5. QED
    BY <1>1, <1>3, <2>3, <2>4
<1>4. least = z
  BY <1>1, <1>2, <1>3
<1>5. Pad(n) = <<Num(128)>> \o Zeros(z)
  <2> DEFINE S == {Num(0), Num(128)}
  <2>1. Zeros(z) \in Seq(S) /\ Len(Zeros(z)) = z /\ \A i \in 1 .. z : Zeros(z)[i] = Num(0)
    BY <1>1 DEF Zeros
  <2>2. <<Num(128)>> \in Seq(S) /\ Len(<<Num(128)>>) = 1 /\ <<Num(128)>>[1] = Num(128)
    OBVIOUS
  <2>3. Pad(n) \in Seq(S) /\ Len(Pad(n)) = z + 1
        /\ \A i \in 1 .. z + 1 : Pad(n)[i] = IF i = 1 THEN Num(128) ELSE Num(0)
    BY <1>1 DEF Pad
  <2>4. /\ <<Num(128)>> \o Zeros(z) \in Seq(S)
        /\ Len(<<Num(128)>> \o Zeros(z)) = 1 + z
        /\ \A i \in 1 .. 1 + z : (<<Num(128)>> \o Zeros(z))[i] =
               IF i <= 1 THEN <<Num(128)>>[i] ELSE Zeros(z)[i - 1]
    BY <2>1, <2>2, ConcatProperties
  <2> HIDE DEF S
  <2>5. \A i \in 1 .. z + 1 : Pad(n)[i] = (<<Num(128)>> \o Zeros(z))[i]
    BY <1>1, <2>1, <2>2, <2>3, <2>4
  <2>6. QED
    BY <1>1, <2>3, <2>4, <2>5, SeqEqual
<1>6. QED
  BY <1>4, <1>5

---------------------------------------------------------------------------
(* Induction, recursion and division.                                      *)

\* A set of natural numbers has a least one.
LEMMA LeastNumber ==
    ASSUME NEW S \in SUBSET Nat, S # {}
    PROVE  \E n \in S : \A m \in S : n <= m
<1>1. \E n \in S : \A m \in S : ~ (<<m, n>> \in OpToRel(<, Nat))
  BY NatLessThanWellFounded, WFMin
<1>2. OpToRel(<, Nat) = {ss \in Nat \X Nat : ss[1] < ss[2]}
  BY Zenon DEF OpToRel
<1>3. PICK n \in S : \A m \in S : ~ (<<m, n>> \in {ss \in Nat \X Nat : ss[1] < ss[2]})
  BY <1>1, <1>2, Zenon
<1>4. \A m \in S : m \in Nat /\ n \in Nat /\ ~(m < n)
  BY <1>3
<1>5. QED
  BY <1>4

\* Induction, over the members of a set.
LEMMA Induction ==
    ASSUME NEW S, 0 \in S, \A n \in Nat : n \in S => n + 1 \in S
    PROVE  \A n \in Nat : n \in S
<1> DEFINE T == {n \in Nat : n \notin S}
<1> SUFFICES ASSUME T # {} PROVE FALSE
  OBVIOUS
<1>1. PICK n \in T : \A m \in T : n <= m
  BY LeastNumber
<1>2. n \in Nat /\ n # 0 /\ n - 1 \in Nat /\ ~(n <= n - 1) /\ (n - 1) + 1 = n
  BY <1>1
<1>3. n - 1 \in S
  BY <1>1, <1>2
<1>4. QED
  BY <1>1, <1>2, <1>3

\* g iterates f from b, n times.
Iterates(g, n, A, b, f) ==
    /\ g \in [0 .. n -> A] /\ g[0] = b
    /\ \A i \in 0 .. n - 1 : g[i + 1] = f[i][g[i]]

\* What iterates f exists: recursive functions are defined.
LEMMA Recursion ==
    ASSUME NEW A, NEW b, b \in A, NEW f, f \in [Nat -> [A -> A]],
           NEW n, n \in Nat
    PROVE  \E g : Iterates(g, n, A, b, f)
<1> DEFINE S == {m \in Nat : \E g : Iterates(g, m, A, b, f)}
<1>1. 0 \in S
  <2> DEFINE g == [i \in 0 .. 0 |-> b]
  <2>1. g \in [0 .. 0 -> A] /\ g[0] = b /\ \A i \in 0 .. 0 - 1 : g[i + 1] = f[i][g[i]]
    OBVIOUS
  <2> HIDE DEF g
  <2>2. Iterates(g, 0, A, b, f)
    BY <2>1 DEF Iterates
  <2>3. QED
    BY <2>2
<1>2. ASSUME NEW m \in Nat, m \in S PROVE m + 1 \in S
  <2>1. PICK g : Iterates(g, m, A, b, f)
    BY <1>2
  <2> DEFINE h == [i \in 0 .. m + 1 |-> IF i = m + 1 THEN f[m][g[m]] ELSE g[i]]
  <2>2. g \in [0 .. m -> A] /\ f[m][g[m]] \in A
    BY <1>2, <2>1 DEF Iterates
  <2>3. h \in [0 .. m + 1 -> A] /\ h[0] = b
    BY <1>2, <2>1, <2>2 DEF Iterates
  <2>4. ASSUME NEW i \in 0 .. (m + 1) - 1 PROVE h[i + 1] = f[i][h[i]]
    <3>1. h[i] = g[i]
      BY <1>2, <2>4
    <3>2. CASE i = m
      BY <1>2, <3>1, <3>2
    <3>3. CASE i \in 0 .. m - 1
      <4>1. h[i + 1] = g[i + 1]
        BY <1>2, <3>3
      <4>2. QED
        BY <2>1, <3>1, <3>3, <4>1 DEF Iterates
    <3>4. QED
      BY <1>2, <3>2, <3>3
  <2> HIDE DEF h
  <2>5. Iterates(h, m + 1, A, b, f)
    BY <2>3, <2>4 DEF Iterates
  <2>6. QED
    BY <1>2, <2>5
<1> HIDE DEF S
<1>3. \A m \in Nat : m \in S
  BY <1>1, <1>2, Induction
<1>4. QED
  BY <1>3 DEF S

\* Quotient and remainder are unique.
LEMMA DivUnique ==
    ASSUME NEW m \in Nat, m > 0, NEW q \in Int, NEW rest \in 0 .. m - 1
    PROVE  (q * m + rest) \div m = q /\ (q * m + rest) % m = rest
<1>1. PICK a \in Int : a = q * m + rest
  BY SMT
<1>2. PICK d \in Int, e \in 0 .. m - 1 : d = a \div m /\ e = a % m /\ a = d * m + e
  <2>1. a % m \in 0 .. m - 1
    BY SMT
  <2>2. a \div m \in Int /\ a = (a \div m) * m + (a % m)
    BY SMT
  <2>3. QED
    BY <2>1, <2>2
<1>3. (d - q) * m = rest - e
  BY <1>1, <1>2, SMT
<1>4. d - q \in Int /\ rest - e \in Int /\ rest - e < m /\ rest - e > -m
  BY <1>2
<1>5. ASSUME NEW k \in Int, NEW x \in Int, k * m = x, x < m, x > -m PROVE k = 0
  <2>1. CASE k >= 1
    <3>1. k * m >= m
      BY <2>1, SMT
    <3>2. QED
      BY <1>5, <3>1
  <2>2. CASE k <= -1
    <3>1. k * m <= -m
      BY <2>2, SMT
    <3>2. QED
      BY <1>5, <3>1
  <2>3. QED
    BY <2>1, <2>2
<1>6. d - q = 0
  BY <1>3, <1>4, <1>5
<1>7. d = q
  BY <1>6
<1>8. e = rest
  BY <1>1, <1>2, <1>7
<1>9. QED
  BY <1>1, <1>2, <1>7, <1>8

\* A quotient and a remainder are the ones found by division.
LEMMA Division ==
    ASSUME NEW m \in Nat, m > 0, NEW a \in Int
    PROVE  /\ a \div m \in Int /\ a % m \in 0 .. m - 1
           /\ a = (a \div m) * m + (a % m)
           /\ a \in Nat => a \div m \in Nat /\ a \div m <= a
<1>1. a % m \in 0 .. m - 1
  BY SMT
<1>2. a \div m \in Int /\ a = (a \div m) * m + (a % m)
  BY SMT
<1>3. PICK q \in Int, rest \in 0 .. m - 1 : q = a \div m /\ rest = a % m /\ a = q * m + rest
  BY <1>1, <1>2
<1>4. ASSUME a \in Nat PROVE q \in Nat /\ q <= a
  <2>1. ASSUME q <= -1 PROVE FALSE
    <3>1. q * m <= -m
      BY <2>1, SMT
    <3>2. QED
      BY <1>3, <1>4, <3>1
  <2>2. q \in Nat
    BY <2>1
  <2>3. q * m >= q
    BY <2>2, SMT
  <2>4. QED
    BY <1>3, <2>2, <2>3
<1>5. QED
  BY <1>1, <1>2, <1>3, <1>4

\* Dividing twice.
LEMMA DivisionTwice ==
    ASSUME NEW m \in Nat, m > 0, NEW n \in Nat, n > 0, NEW a \in Nat
    PROVE  (a \div m) \div n = a \div (m * n)
<1>1. PICK q \in Nat, rest \in 0 .. m - 1 : q = a \div m /\ a = q * m + rest
  BY Division
<1>2. PICK t \in Nat, u \in 0 .. n - 1 : t = q \div n /\ q = t * n + u
  BY Division
<1>3. PICK k \in Nat : k = m * n /\ k > 0
  BY SMT
<1>4. PICK v \in Nat : v = u * m + rest
  BY SMT
<1>5. a = t * k + v
  <2>1. (t * n + u) * m = t * (m * n) + u * m
    BY SMT
  <2>2. QED
    BY <1>1, <1>2, <1>3, <1>4, <2>1
<1>6. v < k
  <2>1. u * m <= (n - 1) * m
    BY SMT
  <2>2. (n - 1) * m = k - m
    BY <1>3, SMT
  <2>3. u * m \in Nat
    BY SMT
  <2>4. QED
    BY <1>3, <1>4, <2>1, <2>2, <2>3
<1>7. a \div k = t
  BY <1>3, <1>5, <1>6, DivUnique
<1>8. QED
  BY <1>1, <1>2, <1>3, <1>7

---------------------------------------------------------------------------
(* The length field.                                                       *)

\* The powers of 256 that the length field needs.
LEMMA Power ==
    ASSUME NEW n \in 0 .. SizeLen
    PROVE  256^n \in Nat /\ 256^n >= 1
<1> DEFINE S == {i \in Nat : i <= SizeLen => 256^i \in Nat /\ 256^i >= 1}
<1>1. SizeLen \in Nat
  BY Sizes
<1>2. 0 \in S
  BY PowersAssumption
<1>3. ASSUME NEW i \in Nat, i \in S PROVE i + 1 \in S
  <2>1. SUFFICES ASSUME i + 1 <= SizeLen
                 PROVE  256^(i + 1) \in Nat /\ 256^(i + 1) >= 1
    BY <1>3
  <2>2. i \in 0 .. SizeLen - 1
    BY <1>1, <2>1
  <2>3. 256^(i + 1) = 256 * 256^i /\ 256^i \in Nat /\ 256^i >= 1
    BY <1>1, <1>3, <2>2, PowersAssumption
  <2>4. QED
    BY <2>3
<1> HIDE DEF S
<1>4. \A i \in Nat : i \in S
  BY <1>2, <1>3, Induction
<1>5. QED
  BY <1>1, <1>4 DEF S

\* The exponents of a product add up.
LEMMA PowerSum ==
    ASSUME NEW m \in Nat, NEW n \in Nat, m + n <= SizeLen
    PROVE  256^(m + n) = 256^m * 256^n
<1> DEFINE S == {i \in Nat : m + i <= SizeLen => 256^(m + i) = 256^m * 256^i}
<1>1. SizeLen \in Nat
  BY Sizes
<1>2. 0 \in S
  <2>1. ASSUME m + 0 <= SizeLen PROVE 256^(m + 0) = 256^m * 256^0
    <3>1. m + 0 = m /\ 256^m \in Nat /\ 256^0 = 1
      BY <1>1, <2>1, Power, PowersAssumption
    <3>2. QED
      BY <3>1
  <2>2. QED
    BY <2>1
<1>3. ASSUME NEW i \in Nat, i \in S PROVE i + 1 \in S
  <2>1. SUFFICES ASSUME m + (i + 1) <= SizeLen
                 PROVE  256^(m + (i + 1)) = 256^m * 256^(i + 1)
    BY <1>3
  <2>2. i \in 0 .. SizeLen - 1 /\ m + i \in 0 .. SizeLen - 1 /\ m \in 0 .. SizeLen
        /\ i \in 0 .. SizeLen /\ m + (i + 1) = (m + i) + 1
    BY <1>1, <2>1
  <2>3. 256^((m + i) + 1) = 256 * 256^(m + i) /\ 256^(i + 1) = 256 * 256^i
    BY <2>2, PowersAssumption
  <2>4. 256^(m + i) = 256^m * 256^i
    BY <1>1, <1>3, <2>2
  <2>5. PICK a \in Nat, b \in Nat : a = 256^m /\ b = 256^i
    BY <2>2, Power
  <2>6. 256 * (a * b) = a * (256 * b)
    BY SMT
  <2>7. QED
    BY <2>2, <2>3, <2>4, <2>5, <2>6
<1> HIDE DEF S
<1>4. \A i \in Nat : i \in S
  BY <1>2, <1>3, Induction
<1>5. QED
  BY <1>4 DEF S

\* A digit below the top of a word is the digit of the whole number.
LEMMA DigitOfWord ==
    ASSUME NEW x \in Nat, NEW i \in 1 .. WordBytes
    PROVE  ((x % WordSize) \div 256^(WordBytes - i)) % 256
               = (x \div 256^(WordBytes - i)) % 256
<1>1. /\ WordBytes \in Nat /\ WordBytes <= SizeLen /\ WordBytes - i \in 0 .. SizeLen
      /\ i - 1 \in 0 .. SizeLen /\ 1 \in 0 .. SizeLen
      /\ WordBytes = (WordBytes - i) + i /\ i = 1 + (i - 1) /\ i \in Nat
      /\ WordBytes - i \in Nat /\ i <= SizeLen /\ i - 1 \in Nat
  BY WordAssumption DEF SizeLen
<1>2. PICK a \in Nat, b \in Nat : a = 256^(WordBytes - i) /\ b = 256^(i - 1) /\ a >= 1 /\ b >= 1
  BY <1>1, Power
<1>3. 256^i = 256 * b
  <2>1. i - 1 \in 0 .. SizeLen - 1 /\ (i - 1) + 1 = i
    BY <1>1, WordAssumption DEF SizeLen
  <2>2. 256^((i - 1) + 1) = 256 * 256^(i - 1)
    BY <2>1, PowersAssumption
  <2>3. QED
    BY <1>2, <2>1, <2>2
<1>4. WordSize = a * (256 * b)
  <2>1. 256^((WordBytes - i) + i) = 256^(WordBytes - i) * 256^i
    BY <1>1, PowerSum
  <2>2. QED
    BY <1>1, <1>2, <1>3, <2>1 DEF WordSize
<1>5. PICK w \in Nat : w = WordSize /\ w >= 1
  <2>1. 256^WordBytes \in Nat /\ 256^WordBytes >= 1
    BY <1>1, Power
  <2>2. QED
    BY <2>1 DEF WordSize
<1>6. PICK y \in Nat, z \in 0 .. w - 1 : z = x % w /\ x = y * w + z
  <2>1. w > 0 /\ x \in Int
    BY <1>5
  <2>2. x \div w \in Nat /\ x % w \in 0 .. w - 1 /\ x = (x \div w) * w + (x % w)
    BY <2>1, Division
  <2>3. QED
    BY <2>2
<1>7. PICK q \in Nat, e \in 0 .. a - 1 : q = z \div a /\ z = q * a + e
  <2>1. a > 0 /\ z \in Int /\ z \in Nat
    BY <1>2, <1>5
  <2>2. z \div a \in Nat /\ z % a \in 0 .. a - 1 /\ z = (z \div a) * a + (z % a)
    BY <2>1, Division
  <2>3. QED
    BY <2>2
<1>8. PICK k \in Nat : k = y * b
  BY SMT
<1>9. x = (k * 256 + q) * a + e
  <2>1. y * (a * (256 * b)) = ((y * b) * 256) * a
    BY SMT
  <2>2. (k * 256 + q) * a = (k * 256) * a + q * a
    BY SMT
  <2>3. QED
    BY <1>4, <1>5, <1>6, <1>7, <1>8, <2>1, <2>2
<1>10. x \div a = k * 256 + q
  <2>1. PICK v \in Int : v = k * 256 + q
    OBVIOUS
  <2>2. x = v * a + e /\ a > 0
    BY <1>2, <1>9, <2>1
  <2>3. x \div a = v
    BY <2>2, DivUnique
  <2>4. QED
    BY <2>1, <2>3
<1>11. PICK d \in Nat, g \in 0 .. 255 : g = q % 256 /\ q = d * 256 + g
  BY SMT
<1>12. (k * 256 + q) % 256 = g
  BY <1>11, SMT
<1>13. QED
  BY <1>2, <1>5, <1>6, <1>7, <1>10, <1>11, <1>12

\* The two words, of n >> 29 and n << 3, are the length in bits.
LEMMA SizeIsLength ==
    ASSUME NEW n \in Nat
    PROVE  SizeDesc(n) = BitLength(n)
<1> DEFINE S == {Num(v) : v \in Int}
           hi == (n \div (WordSize \div 8)) % WordSize
           lo == (n * 8) % WordSize
<1>1. /\ WordBytes \in Nat /\ WordBytes >= 1 /\ SizeLen = 2 * WordBytes
      /\ WordBytes - 1 \in 0 .. SizeLen - 1 /\ (WordBytes - 1) + 1 = WordBytes
      /\ WordBytes \in 0 .. SizeLen /\ WordBytes - 1 \in 0 .. SizeLen
  BY WordAssumption DEF SizeLen
<1>2. PICK p \in Nat : p = 256^(WordBytes - 1) /\ p >= 1
  BY <1>1, Power
<1>3. PICK w \in Nat : w = WordSize /\ w = 256 * p /\ w >= 1
  <2>1. 256^((WordBytes - 1) + 1) = 256 * 256^(WordBytes - 1)
    BY <1>1, PowersAssumption
  <2>2. QED
    BY <1>1, <1>2, <2>1 DEF WordSize
<1>4. n \div (w \div 8) = (n * 8) \div w
  <2>1. w \div 8 = 32 * p
    BY <1>2, <1>3, SMT
  <2>2. PICK q \in Nat, e \in 0 .. 32 * p - 1 : q = n \div (32 * p) /\ n = q * (32 * p) + e
    <3>1. 32 * p \in Nat /\ 32 * p > 0
      BY <1>2
    <3>2. QED
      BY <3>1, Division
  <2>3. n * 8 = q * w + 8 * e
    <3>1. (q * (32 * p)) * 8 = q * (256 * p)
      BY SMT
    <3>2. q * (32 * p) \in Nat
      BY SMT
    <3>3. (q * (32 * p) + e) * 8 = (q * (32 * p)) * 8 + 8 * e
      BY <3>2
    <3>4. QED
      BY <1>3, <2>2, <3>1, <3>3
  <2>4. 8 * e \in 0 .. w - 1
    BY <1>2, <1>3, <2>2
  <2>5. (n * 8) \div w = q
    BY <1>3, <2>3, <2>4, DivUnique
  <2>6. QED
    BY <2>1, <2>2, <2>5
<1>5. PICK x \in Nat : x = n * 8 /\ x = 8 * n
  OBVIOUS
<1>6. PICK h \in Nat : h = x \div w
  BY <1>3, Division
<1>7. hi = h % WordSize /\ lo = x % WordSize
  BY <1>3, <1>4, <1>5, <1>6
<1>8. ASSUME NEW i \in 1 .. WordBytes
      PROVE  /\ Word(hi)[i] = BitLength(n)[i]
             /\ Word(lo)[i] = BitLength(n)[WordBytes + i]
  <2>1. /\ Word(hi)[i] = Num((h \div 256^(WordBytes - i)) % 256)
        /\ Word(lo)[i] = Num((x \div 256^(WordBytes - i)) % 256)
    <3>1. Word(hi)[i] = Num((hi \div 256^(WordBytes - i)) % 256)
          /\ Word(lo)[i] = Num((lo \div 256^(WordBytes - i)) % 256)
      BY DEF Word
    <3> HIDE DEF hi, lo
    <3>2. /\ (hi \div 256^(WordBytes - i)) % 256 = (h \div 256^(WordBytes - i)) % 256
          /\ (lo \div 256^(WordBytes - i)) % 256 = (x \div 256^(WordBytes - i)) % 256
      BY <1>7, DigitOfWord
    <3>3. QED
      BY <3>1, <3>2
  <2>2. h \div 256^(WordBytes - i) = x \div 256^(SizeLen - i)
    <3>1. WordBytes - i \in 0 .. SizeLen /\ WordBytes - i \in Nat
          /\ WordBytes + (WordBytes - i) <= SizeLen
          /\ WordBytes + (WordBytes - i) = SizeLen - i
      BY <1>1
    <3>2. PICK a \in Nat : a = 256^(WordBytes - i) /\ a >= 1
      BY <3>1, Power
    <3>3. (x \div w) \div a = x \div (w * a)
      BY <1>3, <3>2, DivisionTwice
    <3>4. 256^(WordBytes + (WordBytes - i)) = 256^WordBytes * 256^(WordBytes - i)
      BY <1>1, <3>1, PowerSum
    <3>5. w * a = 256^(SizeLen - i)
      BY <1>3, <3>1, <3>2, <3>4 DEF WordSize
    <3>6. QED
      BY <1>6, <3>2, <3>3, <3>5
  <2>3. /\ BitLength(n)[i] = Num((x \div 256^(SizeLen - i)) % 256)
        /\ BitLength(n)[WordBytes + i] = Num((x \div 256^(SizeLen - (WordBytes + i))) % 256)
    <3>1. i \in 1 .. SizeLen /\ WordBytes + i \in 1 .. SizeLen
      BY <1>1
    <3>2. QED
      BY <1>5, <3>1 DEF BitLength
  <2>4. SizeLen - (WordBytes + i) = WordBytes - i
    BY <1>1
  <2>5. QED
    BY <2>1, <2>2, <2>3, <2>4
<1>9. /\ SizeDesc(n) = Word(hi) \o Word(lo)
  BY DEF SizeDesc
<1> HIDE DEF hi, lo
<1>10. PICK a, b, t : a = Word(hi) /\ b = Word(lo) /\ t = BitLength(n)
  OBVIOUS
<1> DEFINE T == {a[i] : i \in 1 .. WordBytes} \cup {b[i] : i \in 1 .. WordBytes}
                \cup {t[i] : i \in 1 .. SizeLen}
<1>11. /\ a \in Seq(T) /\ Len(a) = WordBytes /\ b \in Seq(T) /\ Len(b) = WordBytes
       /\ t \in Seq(T) /\ Len(t) = SizeLen
  <2>1. /\ a = [i \in 1 .. WordBytes |-> a[i]] /\ b = [i \in 1 .. WordBytes |-> b[i]]
        /\ t = [i \in 1 .. SizeLen |-> t[i]]
    BY <1>10 DEF Word, BitLength
  <2>2. a \in [1 .. WordBytes -> T] /\ b \in [1 .. WordBytes -> T] /\ t \in [1 .. SizeLen -> T]
    BY <2>1
  <2> HIDE DEF T
  <2>3. SizeLen \in Nat
    BY <1>1
  <2>4. QED
    BY <1>1, <2>2, <2>3, IsASeq, LenProperties
<1> HIDE DEF T
<1>13. /\ a \o b \in Seq(T) /\ Len(a \o b) = SizeLen
       /\ \A i \in 1 .. SizeLen : (a \o b)[i] = IF i <= WordBytes THEN a[i] ELSE b[i - WordBytes]
  <2>1. /\ a \o b \in Seq(T) /\ Len(a \o b) = WordBytes + WordBytes
        /\ \A i \in 1 .. WordBytes + WordBytes :
               (a \o b)[i] = IF i <= WordBytes THEN a[i] ELSE b[i - WordBytes]
    <3>1. /\ a \o b \in Seq(T) /\ Len(a \o b) = Len(a) + Len(b)
          /\ \A i \in 1 .. Len(a) + Len(b) :
                 (a \o b)[i] = IF i <= Len(a) THEN a[i] ELSE b[i - Len(a)]
      BY <1>11, ConcatProperties
    <3>2. QED
      BY <1>11, <3>1
  <2>2. WordBytes + WordBytes = SizeLen
    BY <1>1
  <2>3. QED
    BY <2>1, <2>2
<1>14. \A i \in 1 .. SizeLen : (a \o b)[i] = t[i]
  <2> SUFFICES ASSUME NEW i \in 1 .. SizeLen PROVE (a \o b)[i] = t[i]
    OBVIOUS
  <2>1. CASE i <= WordBytes
    <3>1. i \in 1 .. WordBytes /\ (a \o b)[i] = a[i]
      BY <1>1, <1>13, <2>1
    <3>2. a[i] = t[i]
      BY <1>8, <1>10, <3>1
    <3>3. QED
      BY <3>1, <3>2
  <2>2. CASE i > WordBytes
    <3>1. i - WordBytes \in 1 .. WordBytes /\ WordBytes + (i - WordBytes) = i
      BY <1>1, <2>2
    <3>2. b[i - WordBytes] = t[WordBytes + (i - WordBytes)]
      BY <1>8, <1>10, <3>1
    <3>3. (a \o b)[i] = b[i - WordBytes]
      BY <1>1, <1>13, <2>2
    <3>4. QED
      BY <3>1, <3>2, <3>3
  <2>3. i <= WordBytes \/ i > WordBytes
    BY <1>1
  <2>4. QED
    BY <2>1, <2>2, <2>3
<1>15. a \o b = t
  BY <1>11, <1>13, <1>14, SeqEqual
<1>16. QED
  BY <1>9, <1>10, <1>15
\* The digest against the definition of SHA-256 (sha256_finalize): it is of
\* the message with a one bit, the least number of zeros and the length in bits,
\* for every word size, message and division into pieces.
THEOREM DigestIsPadded == Spec => []DigestOfPadded
<1>1. HInv /\ DigestOfInput => DigestOfPadded
  <2> SUFFICES ASSUME HInv, DigestOfInput, pc = "final" PROVE out = Padded(message)
    BY DEF DigestOfPadded
  <2> DEFINE n == Len(message)
             k == CHOOSE k \in 0 .. Block - 1 : (n + 1 + k + SizeLen) % Block = 0
  <2>1. n \in Nat /\ message \in Seq(Cell) /\ Pad(n) \in Seq(Cell)
    BY InputTypes DEF HInv
  <2>2. Pad(n) = <<Num(128)>> \o Zeros(k)
    BY <2>1, PadIsLeast
  <2>3. out = message \o (<<Num(128)>> \o Zeros(k)) \o BitLength(n)
    BY <2>1, <2>2, SizeIsLength DEF DigestOfInput
  <2>4. Padded(message) = message \o <<Num(128)>> \o Zeros(k) \o BitLength(n)
    BY DEF Padded
  <2> HIDE DEF n, k
  <2>5. QED
    BY <2>3, <2>4
<1>2. QED
  BY <1>1, DigestOfMessage, Invariance, PTL

---------------------------------------------------------------------------
(* Sequences.                                                              *)

\* What a part of a sequence consists of.
LEMMA SubSeqOf ==
    ASSUME NEW S, NEW t \in Seq(S), NEW m \in Nat, NEW n \in Nat,
           m >= 1, n <= Len(t), m <= n + 1
    PROVE  /\ SubSeq(t, m, n) \in Seq(S) /\ Len(SubSeq(t, m, n)) = n - m + 1
           /\ \A i \in 1 .. n - m + 1 : SubSeq(t, m, n)[i] = t[m + i - 1]
<1>1. Len(t) \in Nat
  BY LenProperties
<1>2. \A i \in m .. n : t[i] \in S
  <2> SUFFICES ASSUME NEW i \in m .. n PROVE t[i] \in S
    OBVIOUS
  <2>1. i \in 1 .. Len(t)
    BY <1>1
  <2>2. QED
    BY <2>1, ElementOfSeq
<1>3. QED
  BY <1>1, <1>2, SubSeqProperties

\* What a concatenation consists of.
LEMMA ConcatOf ==
    ASSUME NEW S, NEW a \in Seq(S), NEW b \in Seq(S)
    PROVE  /\ a \o b \in Seq(S) /\ Len(a \o b) = Len(a) + Len(b)
           /\ \A i \in 1 .. Len(a) : (a \o b)[i] = a[i]
           /\ \A i \in 1 .. Len(b) : (a \o b)[Len(a) + i] = b[i]
<1>1. /\ a \o b \in Seq(S) /\ Len(a \o b) = Len(a) + Len(b)
      /\ \A i \in 1 .. Len(a) + Len(b) :
             (a \o b)[i] = IF i <= Len(a) THEN a[i] ELSE b[i - Len(a)]
  BY ConcatProperties
<1>2. Len(a) \in Nat /\ Len(b) \in Nat
  BY LenProperties
<1>3. \A i \in 1 .. Len(a) : (a \o b)[i] = a[i]
  BY <1>1, <1>2
<1>4. ASSUME NEW i \in 1 .. Len(b) PROVE (a \o b)[Len(a) + i] = b[i]
  <2>1. /\ Len(a) + i \in 1 .. Len(a) + Len(b) /\ ~(Len(a) + i <= Len(a))
        /\ (Len(a) + i) - Len(a) = i
    BY <1>2
  <2>2. QED
    BY <1>1, <2>1
<1>5. QED
  BY <1>1, <1>3, <1>4

\* Concatenation is associative.
LEMMA ConcatAssoc ==
    ASSUME NEW S, NEW a \in Seq(S), NEW b \in Seq(S), NEW c \in Seq(S)
    PROVE  (a \o b) \o c = a \o (b \o c)
OBVIOUS

\* A sequence is its beginning and its end.
LEMMA SplitAt ==
    ASSUME NEW S, NEW t \in Seq(S), NEW n \in Nat, n <= Len(t)
    PROVE  SubSeq(t, 1, n) \o SubSeq(t, n + 1, Len(t)) = t
<1>1. Len(t) \in Nat /\ n + 1 \in Nat
  BY LenProperties
<1>2. PICK a, b : a = SubSeq(t, 1, n) /\ b = SubSeq(t, n + 1, Len(t))
  OBVIOUS
<1>3. a \in Seq(S) /\ Len(a) = n /\ \A i \in 1 .. n : a[i] = t[i]
  <2>1. /\ a \in Seq(S) /\ Len(a) = n - 1 + 1
        /\ \A i \in 1 .. n - 1 + 1 : a[i] = t[1 + i - 1]
    BY <1>1, <1>2, SubSeqOf
  <2>2. QED
    BY <2>1
<1>4. b \in Seq(S) /\ Len(b) = Len(t) - n /\ \A i \in 1 .. Len(t) - n : b[i] = t[n + i]
  <2>1. /\ b \in Seq(S) /\ Len(b) = Len(t) - (n + 1) + 1
        /\ \A i \in 1 .. Len(t) - (n + 1) + 1 : b[i] = t[(n + 1) + i - 1]
    BY <1>1, <1>2, SubSeqOf
  <2>2. QED
    BY <1>1, <2>1
<1>5. a \o b \in Seq(S) /\ Len(a \o b) = Len(t)
  <2>1. a \o b \in Seq(S) /\ Len(a \o b) = Len(a) + Len(b)
    BY <1>3, <1>4, ConcatOf
  <2>2. QED
    BY <1>1, <1>3, <1>4, <2>1
<1>6. ASSUME NEW i \in 1 .. Len(t) PROVE (a \o b)[i] = t[i]
  <2>1. CASE i <= n
    BY <1>1, <1>3, <1>4, <2>1, ConcatOf
  <2>2. CASE i > n
    <3>1. i - n \in 1 .. Len(b) /\ n + (i - n) = i
      BY <1>1, <1>4, <2>2
    <3>2. (a \o b)[Len(a) + (i - n)] = b[i - n]
      BY <1>3, <1>4, <3>1, ConcatOf
    <3>3. b[i - n] = t[n + (i - n)]
      BY <1>4, <3>1
    <3>4. QED
      BY <1>3, <3>1, <3>2, <3>3
  <2>3. i <= n \/ i > n
    BY <1>1
  <2>4. QED
    BY <2>1, <2>2, <2>3
<1>7. QED
  BY <1>2, <1>5, <1>6, SeqEqual

\* Equal sequences whose first parts are of one length have equal parts.
LEMMA ConcatEqual ==
    ASSUME NEW S, NEW a \in Seq(S), NEW b \in Seq(S), NEW c \in Seq(S), NEW d \in Seq(S),
           a \o b = c \o d, Len(a) = Len(c)
    PROVE  a = c /\ b = d
<1>1. Len(a) \in Nat /\ Len(b) \in Nat /\ Len(d) \in Nat
  BY LenProperties
<1>2. Len(b) = Len(d)
  <2>1. Len(a \o b) = Len(a) + Len(b) /\ Len(c \o d) = Len(c) + Len(d)
    BY ConcatOf
  <2>2. QED
    BY <1>1, <2>1
<1>3. ASSUME NEW i \in 1 .. Len(a) PROVE a[i] = c[i]
  <2>1. (a \o b)[i] = a[i] /\ (c \o d)[i] = c[i]
    BY ConcatOf
  <2>2. QED
    BY <2>1
<1>4. ASSUME NEW i \in 1 .. Len(b) PROVE b[i] = d[i]
  <2>1. \A j \in 1 .. Len(b) : (a \o b)[Len(a) + j] = b[j]
    BY ConcatOf
  <2>2. i \in 1 .. Len(d)
    BY <1>2
  <2>3. \A j \in 1 .. Len(d) : (c \o d)[Len(c) + j] = d[j]
    BY ConcatOf
  <2>4. QED
    BY <2>1, <2>2, <2>3
<1>5. QED
  BY <1>2, <1>3, <1>4, SeqEqual

---------------------------------------------------------------------------
(* What a hash object holds, as a whole.                                   *)

Names == {"a"} \cup UNION {{a.key, a.msg, a.data, a.algo} : a \in NonceArgs}
Plain ==
    Cell \cup {Num(v) : v \in Nat} \cup {<<x, i, {}>> : x \in Names, i \in Nat}
         \cup {<<"digest", <<n, i>>, {}>> : n \in Nat, i \in Nat}
Cells == Plain \cup {Mask(b, m) : b \in Plain, m \in SUBSET {"5c", "36"}}

Holds(h, msg) ==
    /\ msg \in Seq(Cells)
    /\ h \in [s : Seq(Cells), buf : [1 .. Block -> Cells], bytes : Nat]
    /\ h.bytes = Len(msg)
    /\ \E q \in Nat : Len(h.s) = q * Block
    /\ h.s \o SubSeq(h.buf, 1, BufSize(h)) = msg

\* The bytes of a buffer are among those of messages and keys.
LEMMA CellsAbove == Cell \subseteq Plain /\ Plain \subseteq Cells
BY DEF Plain, Cells

\* The bytes in a buffer are less than a block.
LEMMA BufferSize ==
    ASSUME NEW h, h.bytes \in Nat
    PROVE  BufSize(h) \in 0 .. Block - 1
<1>1. Block \in Nat /\ Block > 0
  BY Sizes
<1>2. h.bytes % Block \in 0 .. Block - 1
  BY <1>1, Division
<1>3. QED
  BY <1>2 DEF BufSize

\* A buffer is a sequence.
LEMMA BufferSeq ==
    ASSUME NEW f \in [1 .. Block -> Cells]
    PROVE  f \in Seq(Cells) /\ Len(f) = Block
<1>1. Block \in Nat
  BY Sizes
<1>2. QED
  BY <1>1, IsASeq, LenProperties

\* A block of bytes fills a buffer.
LEMMA SeqIsBuffer ==
    ASSUME NEW t \in Seq(Cells), Len(t) = Block
    PROVE  t \in [1 .. Block -> Cells]
BY LenProperties

\* memcpy to the start of a buffer.
LEMMA CopiedToStart ==
    ASSUME NEW f \in [1 .. Block -> Cells], NEW d \in Seq(Cells), Len(d) <= Block
    PROVE  /\ Copied(f, 0, d) \in [1 .. Block -> Cells]
           /\ SubSeq(Copied(f, 0, d), 1, Len(d)) = d
<1>1. PICK g : g = Copied(f, 0, d)
  OBVIOUS
<1>2. Len(d) \in Nat /\ \A i \in 1 .. Len(d) : d[i] \in Cells
  BY LenProperties, ElementOfSeq
<1>3. g = [i \in 1 .. Block |-> IF i <= Len(d) THEN d[i] ELSE f[i]]
  <2>1. \A i \in 1 .. Block : 0 < i /\ i <= 0 + Len(d) <=> i <= Len(d)
    BY <1>2, Sizes
  <2>2. \A i \in 1 .. Block : i - 0 = i
    BY Sizes
  <2>3. QED
    BY <1>1, <2>1, <2>2 DEF Copied
<1>4. g \in [1 .. Block -> Cells] /\ \A i \in 1 .. Len(d) : g[i] = d[i]
  <2>1. \A i \in 1 .. Block : i <= Len(d) => i \in 1 .. Len(d)
    BY <1>2, Sizes
  <2>2. \A i \in 1 .. Block : g[i] \in Cells
    BY <1>2, <1>3, <2>1
  <2>3. \A i \in 1 .. Len(d) : i \in 1 .. Block /\ i <= Len(d)
    BY <1>2, Sizes
  <2>4. QED
    BY <1>3, <2>2, <2>3
<1>5. g \in Seq(Cells) /\ Len(g) = Block
  BY <1>4, BufferSeq
<1>6. /\ SubSeq(g, 1, Len(d)) \in Seq(Cells) /\ Len(SubSeq(g, 1, Len(d))) = Len(d) - 1 + 1
      /\ \A i \in 1 .. Len(d) - 1 + 1 : SubSeq(g, 1, Len(d))[i] = g[1 + i - 1]
  <2>1. 1 \in Nat /\ Len(d) <= Len(g) /\ 1 <= Len(d) + 1
    BY <1>2, <1>5
  <2>2. QED
    BY <1>2, <1>5, <2>1, SubSeqOf
<1>7. Len(d) - 1 + 1 = Len(d) /\ \A i \in 1 .. Len(d) : 1 + i - 1 = i
  BY <1>2
<1>8. \A i \in 1 .. Len(d) : SubSeq(g, 1, Len(d))[i] = d[i]
  BY <1>4, <1>6, <1>7
<1>9. SubSeq(g, 1, Len(d)) = d
  BY <1>6, <1>7, <1>8, SeqEqual
<1>10. QED
  BY <1>1, <1>4, <1>9

\* A fresh object holds nothing.
LEMMA InitializedHolds == Holds(Initialized, << >>)
<1>1. PICK f : f = [i \in 1 .. Block |-> Unset]
  OBVIOUS
<1>2. f \in [1 .. Block -> Cells]
  BY <1>1, CellsAbove DEF Cell
<1>3. Initialized = [s |-> << >>, buf |-> f, bytes |-> 0]
  BY <1>1 DEF Initialized
<1>4. << >> \in Seq(Cells) /\ Len(<< >>) = 0
  OBVIOUS
<1>5. BufSize(Initialized) = 0
  <2>1. Initialized.bytes = 0
    BY <1>3
  <2>2. 0 % Block = 0
    BY Sizes, SMT
  <2>3. QED
    BY <2>1, <2>2 DEF BufSize
<1>6. SubSeq(f, 1, 0) = << >>
  OBVIOUS
<1>7. Len(<< >>) = 0 * Block
  BY Sizes
<1>8. QED
  BY <1>2, <1>3, <1>4, <1>5, <1>6, <1>7 DEF Holds

\* Written appends (sha256_write).
LEMMA WrittenHolds ==
    ASSUME NEW h, NEW msg, Holds(h, msg), NEW d \in Seq(Cells)
    PROVE  Holds(Written(h, d), msg \o d)
<1>1. /\ msg \in Seq(Cells) /\ h.s \in Seq(Cells) /\ h.buf \in [1 .. Block -> Cells]
      /\ h.bytes \in Nat /\ h.bytes = Len(msg)
      /\ h.s \o SubSeq(h.buf, 1, BufSize(h)) = msg
  BY DEF Holds
<1>2. PICK q \in Nat : Len(h.s) = q * Block
  BY DEF Holds
<1>3. PICK b \in Nat : b = Block /\ b > 0
  BY Sizes
<1>4. PICK r \in 0 .. b - 1 : r = BufSize(h)
  BY <1>1, <1>3, BufferSize
<1>5. PICK k : k = SubSeq(h.buf, 1, r)
  OBVIOUS
<1>6. k \in Seq(Cells) /\ Len(k) = r
  <2>1. h.buf \in Seq(Cells) /\ Len(h.buf) = Block
    BY <1>1, BufferSeq
  <2>2. 1 \in Nat /\ r \in Nat /\ r <= Len(h.buf) /\ 1 <= r + 1
    BY <1>3, <1>4, <2>1
  <2>3. k \in Seq(Cells) /\ Len(k) = r - 1 + 1
    BY <1>5, <2>1, <2>2, SubSeqOf
  <2>4. QED
    BY <1>4, <2>3
<1>7. PICK t : t = k \o d
  OBVIOUS
<1>8. t \in Seq(Cells) /\ Len(t) = r + Len(d) /\ Len(t) \in Nat /\ Len(d) \in Nat
  BY <1>6, <1>7, ConcatOf, LenProperties
<1>9. PICK n \in Nat, e \in 0 .. b - 1 : n = Len(t) \div b /\ Len(t) = n * b + e
  <2>1. Len(t) \div b \in Nat /\ Len(t) % b \in 0 .. b - 1
        /\ Len(t) = (Len(t) \div b) * b + (Len(t) % b)
    BY <1>3, <1>8, Division
  <2>2. QED
    BY <2>1
<1>10. PICK full \in Nat : full = n * b /\ full <= Len(t) /\ Len(t) - full = e
  <2>1. n * b \in Nat
    BY SMT
  <2>2. QED
    BY <1>8, <1>9, <2>1
<1>11. PICK rest : rest = SubSeq(t, full + 1, Len(t))
  OBVIOUS
<1>12. rest \in Seq(Cells) /\ Len(rest) = e
  <2>1. full + 1 \in Nat /\ full + 1 >= 1 /\ Len(t) <= Len(t) /\ full + 1 <= Len(t) + 1
    BY <1>8, <1>10
  <2>2. rest \in Seq(Cells) /\ Len(rest) = Len(t) - (full + 1) + 1
    BY <1>8, <1>11, <2>1, SubSeqOf
  <2>3. QED
    BY <1>8, <1>10, <2>2
<1>13. PICK first : first = SubSeq(t, 1, full)
  OBVIOUS
<1>14. first \in Seq(Cells) /\ Len(first) = full
  <2>1. 1 \in Nat /\ full <= Len(t) /\ 1 <= full + 1
    BY <1>10
  <2>2. first \in Seq(Cells) /\ Len(first) = full - 1 + 1
    BY <1>8, <1>10, <1>13, <2>1, SubSeqOf
  <2>3. QED
    BY <1>10, <2>2
<1>15. first \o rest = t
  BY <1>8, <1>10, <1>11, <1>13, SplitAt
<1>16. PICK last : last = IF full = 0 THEN h.buf ELSE SubSeq(t, full - Block + 1, full)
  OBVIOUS
<1>17. last \in [1 .. Block -> Cells]
  <2>1. CASE full = 0
    BY <1>1, <1>16, <2>1
  <2>2. CASE full # 0
    <3>1. full >= b
      <4>1. n >= 1
        <5>1. n = 0 => n * b = 0
          BY <1>3
        <5>2. QED
          BY <1>10, <2>2, <5>1
      <4>2. n * b >= b
        BY <4>1, SMT
      <4>3. QED
        BY <1>10, <4>2
    <3>2. full - b + 1 \in Nat /\ full - b + 1 >= 1 /\ full - b + 1 <= full + 1
      BY <1>3, <3>1
    <3>3. /\ SubSeq(t, full - b + 1, full) \in Seq(Cells)
          /\ Len(SubSeq(t, full - b + 1, full)) = full - (full - b + 1) + 1
      BY <1>8, <1>10, <3>2, SubSeqOf
    <3>4. last \in Seq(Cells) /\ Len(last) = Block
      BY <1>3, <1>16, <2>2, <3>3
    <3>5. QED
      BY <3>4, SeqIsBuffer
  <2>3. QED
    BY <2>1, <2>2
<1>18. PICK buf : buf = Copied(last, 0, rest)
  OBVIOUS
<1>19. buf \in [1 .. Block -> Cells] /\ SubSeq(buf, 1, e) = rest
  <2>1. Len(rest) <= Block
    BY <1>3, <1>12
  <2>2. QED
    BY <1>12, <1>17, <1>18, <2>1, CopiedToStart
<1>20. PICK w : w = Written(h, d)
  OBVIOUS
<1>21. w = [s |-> h.s \o first, buf |-> buf, bytes |-> h.bytes + Len(d)]
  BY <1>3, <1>4, <1>5, <1>7, <1>9, <1>10, <1>11, <1>13, <1>16, <1>18, <1>20 DEF Written
<1>22. h.s \o first \in Seq(Cells) /\ Len(h.s \o first) = q * b + n * b
  <2>1. h.s \o first \in Seq(Cells) /\ Len(h.s \o first) = Len(h.s) + Len(first)
    BY <1>1, <1>14, ConcatOf
  <2>2. QED
    BY <1>2, <1>3, <1>10, <1>14, <2>1
<1>23. PICK m \in Nat : m = q + n /\ m * b = q * b + n * b
  <2>1. (q + n) * b = q * b + n * b
    BY SMT
  <2>2. QED
    BY <2>1
<1>24. h.bytes = q * b + r
  <2>1. Len(h.s \o k) = Len(h.s) + Len(k)
    BY <1>1, <1>6, ConcatOf
  <2>2. QED
    BY <1>1, <1>2, <1>3, <1>4, <1>5, <1>6, <2>1
<1>25. BufSize(w) = e
  <2>1. PICK x \in Nat, y \in Nat, z \in Nat : x = q * b /\ y = n * b /\ z = m * b
    BY SMT
  <2>2. h.bytes + Len(d) = m * b + e
    <3>1. z = x + y /\ h.bytes = x + r /\ r + Len(d) = y + e
      BY <1>8, <1>9, <1>23, <1>24, <2>1
    <3>2. PICK g \in Nat, l \in Nat : g = h.bytes /\ l = Len(d)
      BY <1>1, <1>8
    <3>3. r \in Nat /\ e \in Nat /\ g = x + r /\ r + l = y + e
      BY <1>3, <1>4, <1>9, <3>1, <3>2
    <3>4. g + l = z + e
      BY <2>1, <3>1, <3>3
    <3>5. QED
      BY <2>1, <3>2, <3>4
  <2>3. (m * b + e) % b = e
    BY <1>3, DivUnique
  <2>4. w.bytes = h.bytes + Len(d)
    BY <1>21
  <2>5. QED
    BY <1>3, <2>2, <2>3, <2>4 DEF BufSize
<1>26. w.s \o SubSeq(w.buf, 1, BufSize(w)) = msg \o d
  <2>1. w.s = h.s \o first /\ w.buf = buf
    BY <1>21
  <2>2. PICK x \in Seq(Cells) : x = h.s
    BY <1>1
  <2>3. (x \o first) \o rest = x \o (first \o rest)
    BY <1>12, <1>14, ConcatAssoc
  <2>4. (x \o k) \o d = x \o (k \o d)
    BY <1>6, ConcatAssoc
  <2>5. QED
    BY <1>1, <1>4, <1>5, <1>7, <1>15, <1>19, <1>25, <2>1, <2>2, <2>3, <2>4
<1>27. msg \o d \in Seq(Cells) /\ Len(msg \o d) = Len(msg) + Len(d)
  BY <1>1, ConcatOf
<1>28. w \in [s : Seq(Cells), buf : [1 .. Block -> Cells], bytes : Nat]
  <2>1. h.bytes + Len(d) \in Nat
    BY <1>1, <1>8
  <2>2. QED
    BY <1>19, <1>21, <1>22, <2>1
<1>29. Len(w.s) = m * Block /\ w.bytes = Len(msg \o d)
  BY <1>1, <1>3, <1>21, <1>22, <1>23, <1>27
<1>30. Holds(w, msg \o d)
  BY <1>26, <1>27, <1>28, <1>29 DEF Holds
<1>31. QED
  BY <1>20, <1>30
---------------------------------------------------------------------------
(* The padding can be read back.                                           *)

\* The definition of the padding, and the two parts finalize writes.
LEMMA PaddedIs ==
    ASSUME NEW msg \in Seq(Cells), NEW n, n = Len(msg)
    PROVE  /\ n \in Nat
           /\ Padded(msg) = (msg \o Pad(n)) \o SizeDesc(n)
           /\ Pad(n) \in Seq(Cells) /\ Len(Pad(n)) = PadLen(n)
           /\ SizeDesc(n) \in Seq(Cells) /\ Len(SizeDesc(n)) = SizeLen
           /\ Padded(msg) \in Seq(Cells)
           /\ Len(Padded(msg)) = n + PadLen(n) + SizeLen
           /\ \E q \in Nat : Len(Padded(msg)) = q * Block
<1>1. n \in Nat
  BY LenProperties
<1>2. Pad(n) \in Seq(Cells) /\ SizeDesc(n) \in Seq(Cells)
  <2>1. Pad(n) \in Seq(Cell) /\ SizeDesc(n) \in Seq(Cell)
    BY <1>1, PadTypes, SizeTypes
  <2>2. Cell \subseteq Cells
    BY CellsAbove
  <2>3. QED
    BY <2>1, <2>2, SeqMonotonic
<1>3. /\ Len(Pad(n)) = PadLen(n) /\ Len(SizeDesc(n)) = SizeLen /\ PadLen(n) \in Nat
      /\ \E q \in Nat : n + PadLen(n) + SizeLen = q * Block
  BY <1>1, PadFits, SizeTypes
<1> DEFINE k == CHOOSE k \in 0 .. Block - 1 : (n + 1 + k + SizeLen) % Block = 0
<1>4. Pad(n) = <<Num(128)>> \o Zeros(k)
  BY <1>1, PadIsLeast
<1>5. Padded(msg) = ((msg \o <<Num(128)>>) \o Zeros(k)) \o BitLength(n)
  BY DEF Padded
<1>6. k \in 0 .. Block - 1
  <2>1. PadLen(n) - 1 \in 0 .. Block - 1 /\ (n + 1 + (PadLen(n) - 1) + SizeLen) % Block = 0
    BY <1>1, PadLeast
  <2> DEFINE F(j) == (n + 1 + j + SizeLen) % Block = 0
  <2>2. \E j \in 0 .. Block - 1 : F(j)
    BY <2>1
  <2>3. k = CHOOSE j \in 0 .. Block - 1 : F(j)
    OBVIOUS
  <2> HIDE DEF F, k
  <2>4. QED
    BY <2>2, <2>3
<1> HIDE DEF k
<1>7. <<Num(128)>> \in Seq(Cells) /\ Zeros(k) \in Seq(Cells)
  <2>1. Num(128) \in Cells /\ Num(0) \in Cells
    BY CellsAbove DEF Cell
  <2>2. QED
    BY <1>6, <2>1, Sizes DEF Zeros
<1>8. (msg \o <<Num(128)>>) \o Zeros(k) = msg \o Pad(n)
  <2>1. PICK o : o = <<Num(128)>>
    OBVIOUS
  <2>2. (msg \o o) \o Zeros(k) = msg \o (o \o Zeros(k))
    BY <1>7, <2>1, ConcatAssoc
  <2>3. QED
    BY <1>4, <2>1, <2>2
<1>9. Padded(msg) = (msg \o Pad(n)) \o SizeDesc(n)
  BY <1>1, <1>5, <1>8, SizeIsLength
<1>10. msg \o Pad(n) \in Seq(Cells) /\ Len(msg \o Pad(n)) = n + PadLen(n)
  <2>1. msg \o Pad(n) \in Seq(Cells) /\ Len(msg \o Pad(n)) = Len(msg) + Len(Pad(n))
    BY <1>2, ConcatOf
  <2>2. QED
    BY <1>3, <2>1
<1>11. /\ (msg \o Pad(n)) \o SizeDesc(n) \in Seq(Cells)
       /\ Len((msg \o Pad(n)) \o SizeDesc(n)) = n + PadLen(n) + SizeLen
  <2>1. PICK x \in Seq(Cells) : x = msg \o Pad(n)
    BY <1>10
  <2>2. x \o SizeDesc(n) \in Seq(Cells) /\ Len(x \o SizeDesc(n)) = Len(x) + Len(SizeDesc(n))
    BY <1>2, ConcatOf
  <2>3. QED
    BY <1>3, <1>10, <2>1, <2>2
<1>12. QED
  BY <1>1, <1>2, <1>3, <1>9, <1>11

\* finalize hashes the padded message (sha256_finalize).
LEMMA FinalizedPadded ==
    ASSUME NEW h, NEW msg, Holds(h, msg)
    PROVE  Finalized(h) = Padded(msg)
<1>1. msg \in Seq(Cells) /\ h.bytes = Len(msg)
  BY DEF Holds
<1>2. PICK n : n = Len(msg)
  OBVIOUS
<1>3. /\ n \in Nat /\ Padded(msg) = (msg \o Pad(n)) \o SizeDesc(n)
      /\ Pad(n) \in Seq(Cells) /\ SizeDesc(n) \in Seq(Cells)
      /\ Padded(msg) \in Seq(Cells)
      /\ \E q \in Nat : Len(Padded(msg)) = q * Block
  BY <1>1, <1>2, PaddedIs
<1>4. PICK g : g = Written(Written(h, Pad(n)), SizeDesc(n))
  OBVIOUS
<1>5. Finalized(h) = g.s
  BY <1>1, <1>2, <1>4 DEF Finalized
<1>6. Holds(g, Padded(msg))
  <2>1. Holds(Written(h, Pad(n)), msg \o Pad(n))
    BY <1>3, WrittenHolds
  <2>2. QED
    BY <1>3, <1>4, <2>1, WrittenHolds
<1>7. BufSize(g) = 0
  <2>1. PICK q \in Nat : Len(Padded(msg)) = q * Block
    BY <1>3
  <2>2. g.bytes = q * Block
    BY <1>6, <2>1 DEF Holds
  <2>3. (q * Block + 0) % Block = 0
    BY Sizes, Remainder
  <2>4. q * Block + 0 = q * Block
    BY Sizes
  <2>5. QED
    BY <2>2, <2>3, <2>4 DEF BufSize
<1>8. g.s \in Seq(Cells) /\ g.s \o SubSeq(g.buf, 1, 0) = Padded(msg)
  BY <1>6, <1>7 DEF Holds
<1>9. SubSeq(g.buf, 1, 0) = << >>
  OBVIOUS
<1>10. PICK x \in Seq(Cells) : x = g.s
  BY <1>8
<1>11. x \o << >> = x
  OBVIOUS
<1>12. QED
  BY <1>5, <1>8, <1>9, <1>10, <1>11

\* The first byte of the padding is where the last one that is not zero is.
LEMMA PadMarker ==
    ASSUME NEW n \in Nat
    PROVE  /\ PadLen(n) \in Nat /\ PadLen(n) >= 1
           /\ Pad(n)[1] = Num(128) /\ \A i \in 2 .. PadLen(n) : Pad(n)[i] = Num(0)
<1>1. PadLen(n) - 1 \in 0 .. Block - 1 /\ PadLen(n) \in Nat
  BY PadLeast, PadFits
<1>2. PadLen(n) >= 1 /\ 1 \in 1 .. PadLen(n)
  BY <1>1
<1>3. \A i \in 2 .. PadLen(n) : i \in 1 .. PadLen(n) /\ i # 1
  BY <1>1
<1>4. QED
  BY <1>1, <1>2, <1>3 DEF Pad

\* A padded message begins with the message, then the padding.
LEMMA PaddedParts ==
    ASSUME NEW msg \in Seq(Cells), NEW n, n = Len(msg)
    PROVE  /\ \A i \in 1 .. n : Padded(msg)[i] = msg[i]
           /\ \A i \in 1 .. PadLen(n) : Padded(msg)[n + i] = Pad(n)[i]
<1>1. /\ n \in Nat /\ Padded(msg) = (msg \o Pad(n)) \o SizeDesc(n)
      /\ Pad(n) \in Seq(Cells) /\ Len(Pad(n)) = PadLen(n) /\ SizeDesc(n) \in Seq(Cells)
  BY PaddedIs
<1>2. PICK a : a = msg \o Pad(n)
  OBVIOUS
<1>3. /\ a \in Seq(Cells) /\ Len(a) = n + PadLen(n)
      /\ \A i \in 1 .. n : a[i] = msg[i]
      /\ \A i \in 1 .. PadLen(n) : a[n + i] = Pad(n)[i]
  BY <1>1, <1>2, ConcatOf
<1>4. \A i \in 1 .. n + PadLen(n) : Padded(msg)[i] = a[i]
  BY <1>1, <1>2, <1>3, ConcatOf
<1>5. PadLen(n) \in Nat
  BY <1>1, PadFits
<1>6. /\ \A i \in 1 .. n : i \in 1 .. n + PadLen(n)
      /\ \A i \in 1 .. PadLen(n) : n + i \in 1 .. n + PadLen(n)
  BY <1>1, <1>5
<1>7. QED
  BY <1>3, <1>4, <1>6

\* Padded alike, neither of two messages is shorter.
LEMMA PaddedNotShorter ==
    ASSUME NEW a \in Seq(Cells), NEW b \in Seq(Cells), Padded(a) = Padded(b)
    PROVE  ~(Len(a) < Len(b))
<1>1. PICK n, m : n = Len(a) /\ m = Len(b)
  OBVIOUS
<1>2. n \in Nat /\ m \in Nat /\ SizeLen \in Nat
  BY <1>1, LenProperties, Sizes
<1>3. n + PadLen(n) + SizeLen = m + PadLen(m) + SizeLen
  BY <1>1, PaddedIs
<1>4. PadLen(n) \in Nat /\ PadLen(m) \in Nat /\ PadLen(m) >= 1
  BY <1>2, PadMarker
<1>5. SUFFICES ASSUME n < m PROVE FALSE
  BY <1>1
<1>6. /\ m + 1 - n \in 2 .. PadLen(n) /\ m + 1 - n \in 1 .. PadLen(n)
      /\ n + (m + 1 - n) = m + 1 /\ 1 \in 1 .. PadLen(m)
  BY <1>2, <1>3, <1>4, <1>5
<1>7. Padded(a)[n + (m + 1 - n)] = Num(0)
  <2>1. Padded(a)[n + (m + 1 - n)] = Pad(n)[m + 1 - n]
    <3>1. \A i \in 1 .. PadLen(n) : Padded(a)[n + i] = Pad(n)[i]
      BY <1>1, PaddedParts
    <3>2. QED
      BY <1>6, <3>1
  <2>2. Pad(n)[m + 1 - n] = Num(0)
    BY <1>2, <1>6, PadMarker
  <2>3. QED
    BY <2>1, <2>2
<1>8. Padded(b)[m + 1] = Num(128)
  <2>1. Padded(b)[m + 1] = Pad(m)[1]
    <3>1. \A i \in 1 .. PadLen(m) : Padded(b)[m + i] = Pad(m)[i]
      BY <1>1, PaddedParts
    <3>2. QED
      BY <1>6, <3>1
  <2>2. QED
    BY <1>2, <2>1, PadMarker
<1>9. Num(0) # Num(128)
  BY DEF Num
<1>10. QED
  BY <1>6, <1>7, <1>8, <1>9

\* Messages that differ have paddings that differ.
LEMMA PaddedApart ==
    ASSUME NEW a \in Seq(Cells), NEW b \in Seq(Cells), Padded(a) = Padded(b)
    PROVE  a = b
<1>1. ~(Len(a) < Len(b)) /\ ~(Len(b) < Len(a))
  BY PaddedNotShorter
<1>2. Len(a) = Len(b)
  BY <1>1, LenProperties
<1>3. ASSUME NEW i \in 1 .. Len(a) PROVE a[i] = b[i]
  <2>1. Padded(a)[i] = a[i] /\ Padded(b)[i] = b[i]
    BY <1>2, PaddedParts
  <2>2. QED
    BY <2>1
<1>4. QED
  BY <1>2, <1>3, SeqEqual

---------------------------------------------------------------------------
(* Sequences of sequences.                                                 *)

\* f[i] is the first i sequences of p in one.
Partials(f, p, S) ==
    /\ f \in [0 .. Len(p) -> Seq(S)] /\ f[0] = << >>
    /\ \A i \in 1 .. Len(p) : f[i] = f[i - 1] \o p[i]

\* The beginnings of a sequence of sequences determine what it is in one.
LEMMA PartialsUnique ==
    ASSUME NEW p, Len(p) \in Nat, NEW S, NEW f, NEW g, Partials(f, p, S), Partials(g, p, S)
    PROVE  f[Len(p)] = g[Len(p)]
<1> DEFINE T == {i \in Nat : i <= Len(p) => f[i] = g[i]}
<1>1. 0 \in T
  BY DEF Partials
<1>2. ASSUME NEW i \in Nat, i \in T PROVE i + 1 \in T
  <2> SUFFICES ASSUME i + 1 <= Len(p) PROVE f[i + 1] = g[i + 1]
    BY <1>2
  <2>1. i + 1 \in 1 .. Len(p) /\ (i + 1) - 1 = i /\ f[i] = g[i]
    BY <1>2
  <2>2. f[i + 1] = f[(i + 1) - 1] \o p[i + 1] /\ g[i + 1] = g[(i + 1) - 1] \o p[i + 1]
    BY <2>1 DEF Partials
  <2>3. QED
    BY <2>1, <2>2
<1> HIDE DEF T
<1>3. \A i \in Nat : i \in T
  BY <1>1, <1>2, Induction
<1>4. QED
  BY <1>3 DEF T

\* FlattenSeq is built from those beginnings.
LEMMA FlattenPartials ==
    ASSUME NEW S, NEW p \in Seq(Seq(S))
    PROVE  \E f : Partials(f, p, S) /\ FlattenSeq(p) = f[Len(p)]
<1> DEFINE A == Seq(S)
           h == [i \in Nat |-> [x \in A |-> IF i + 1 \in 1 .. Len(p) THEN x \o p[i + 1] ELSE x]]
<1>1. Len(p) \in Nat /\ \A i \in 1 .. Len(p) : p[i] \in A
  BY LenProperties, ElementOfSeq
<1>2. h \in [Nat -> [A -> A]]
  <2> SUFFICES ASSUME NEW i \in Nat, NEW x \in A, i + 1 \in 1 .. Len(p)
               PROVE  x \o p[i + 1] \in A
    OBVIOUS
  <2>1. p[i + 1] \in A
    BY <1>1
  <2>2. QED
    BY <2>1, ConcatProperties
<1>3. << >> \in A
  OBVIOUS
<1>4. PICK f : Iterates(f, Len(p), A, << >>, h)
  <2> HIDE DEF h, A
  <2>1. QED
    BY <1>1, <1>2, <1>3, Recursion
<1>5. Partials(f, p, S)
  <2>1. f \in [0 .. Len(p) -> A] /\ f[0] = << >>
    BY <1>4 DEF Iterates
  <2>2. ASSUME NEW i \in 1 .. Len(p) PROVE f[i] = f[i - 1] \o p[i]
    <3>1. i - 1 \in 0 .. Len(p) - 1 /\ i - 1 \in Nat /\ (i - 1) + 1 = i /\ i - 1 \in 0 .. Len(p)
      BY <1>1, <2>2
    <3>2. f[(i - 1) + 1] = h[i - 1][f[i - 1]] /\ f[i - 1] \in A
      BY <1>4, <2>1, <3>1 DEF Iterates
    <3>3. QED
      BY <2>2, <3>1, <3>2
  <2>3. QED
    BY <2>1, <2>2 DEF Partials
<1> HIDE DEF h
<1>6. CASE Len(p) = 0
  <2>1. p = << >>
    BY <1>6, EmptySeq
  <2>2. FlattenSeq(p) = p
    BY <1>6 DEF FlattenSeq
  <2>3. QED
    BY <1>5, <1>6, <2>1, <2>2 DEF Partials
<1>7. CASE Len(p) # 0
  <2> DEFINE n == Len(p)
             F == CHOOSE d : d = [i \in 1 .. n |-> IF i = 1 THEN p[i] ELSE d[i - 1] \o p[i]]
             g == [i \in 1 .. n |-> f[i]]
  <2>1. g = [i \in 1 .. n |-> IF i = 1 THEN p[i] ELSE g[i - 1] \o p[i]]
    <3>1. ASSUME NEW i \in 1 .. n
          PROVE  f[i] = IF i = 1 THEN p[i] ELSE g[i - 1] \o p[i]
      <4>1. f[i] = f[i - 1] \o p[i]
        BY <1>5, <3>1 DEF Partials
      <4>2. CASE i = 1
        <5>1. f[0] = << >> /\ p[1] \in Seq(S) /\ i - 1 = 0
          BY <1>1, <1>5, <3>1, <4>2 DEF Partials
        <5>2. << >> \o p[1] = p[1]
          BY <5>1
        <5>3. QED
          BY <4>1, <4>2, <5>1, <5>2
      <4>3. CASE i # 1
        <5>1. i - 1 \in 1 .. n
          BY <1>1, <3>1, <4>3
        <5>2. g[i - 1] = f[i - 1]
          BY <5>1
        <5>3. QED
          BY <4>1, <4>3, <5>2
      <4>4. QED
        BY <4>2, <4>3
    <3>2. QED
      BY <3>1
  <2>2. F = [i \in 1 .. n |-> IF i = 1 THEN p[i] ELSE F[i - 1] \o p[i]]
    <3> HIDE DEF g
    <3>1. QED
      BY <2>1
  <2>3. FlattenSeq(p) = F[n]
    BY <1>7 DEF FlattenSeq
  <2> HIDE DEF F
  <2> DEFINE e == [i \in 0 .. n |-> IF i = 0 THEN << >> ELSE F[i]]
             T == {i \in Nat : i + 1 <= n => F[i + 1] = f[i + 1]}
  <2>4. 0 \in T
    <3>1. ASSUME 0 + 1 <= n PROVE F[0 + 1] = f[0 + 1]
      <4>1. 1 \in 1 .. n /\ 0 + 1 = 1
        BY <1>1, <3>1
      <4>2. F[1] = p[1] /\ g[1] = p[1] /\ g[1] = f[1]
        <5>1. F[1] = p[1]
          BY <2>2, <4>1
        <5>2. g[1] = f[1]
          BY <4>1
        <5> HIDE DEF g
        <5>3. g[1] = p[1]
          BY <2>1, <4>1
        <5>4. QED
          BY <5>1, <5>2, <5>3
      <4>3. QED
        BY <4>1, <4>2
    <3>2. QED
      BY <3>1
  <2>5. ASSUME NEW i \in Nat, i \in T PROVE i + 1 \in T
    <3> SUFFICES ASSUME (i + 1) + 1 <= n PROVE F[(i + 1) + 1] = f[(i + 1) + 1]
      BY <2>5
    <3>1. /\ (i + 1) + 1 \in 1 .. n /\ (i + 1) + 1 # 1 /\ ((i + 1) + 1) - 1 = i + 1
          /\ F[i + 1] = f[i + 1]
      BY <1>1, <2>5
    <3>2. F[(i + 1) + 1] = F[((i + 1) + 1) - 1] \o p[(i + 1) + 1]
      BY <2>2, <3>1
    <3>3. f[(i + 1) + 1] = f[((i + 1) + 1) - 1] \o p[(i + 1) + 1]
      BY <1>5, <3>1 DEF Partials
    <3>4. QED
      BY <3>1, <3>2, <3>3
  <2> HIDE DEF T
  <2>6. \A i \in Nat : i \in T
    BY <2>4, <2>5, Induction
  <2>7. F[n] = f[n]
    <3>1. n - 1 \in Nat /\ (n - 1) + 1 = n /\ (n - 1) + 1 <= n
      BY <1>1, <1>7
    <3>2. F[(n - 1) + 1] = f[(n - 1) + 1]
      BY <2>6, <3>1 DEF T
    <3>3. QED
      BY <3>1, <3>2
  <2>8. QED
    BY <1>5, <2>3, <2>7
<1>8. QED
  BY <1>6, <1>7

\* One sequence in one, ...
LEMMA FlattenOne ==
    ASSUME NEW S, NEW a \in Seq(S)
    PROVE  FlattenSeq(<<a>>) = a
<1>1. PICK p : p = <<a>>
  OBVIOUS
<1>2. p \in Seq(Seq(S)) /\ Len(p) = 1 /\ p[1] = a
  BY <1>1
<1>3. PICK f : Partials(f, p, S) /\ FlattenSeq(p) = f[1]
  BY <1>2, FlattenPartials
<1>4. f[0] = << >> /\ f[1] = f[1 - 1] \o p[1]
  BY <1>2, <1>3 DEF Partials
<1>5. 1 - 1 = 0 /\ << >> \o a = a
  OBVIOUS
<1>6. QED
  BY <1>1, <1>2, <1>3, <1>4, <1>5

\* ... two, ...
LEMMA FlattenTwo ==
    ASSUME NEW S, NEW a \in Seq(S), NEW b \in Seq(S)
    PROVE  FlattenSeq(<<a, b>>) = a \o b
<1>1. PICK p : p = <<a, b>>
  OBVIOUS
<1>2. p \in Seq(Seq(S)) /\ Len(p) = 2 /\ p[1] = a /\ p[2] = b
  BY <1>1
<1>3. PICK f : Partials(f, p, S) /\ FlattenSeq(p) = f[2]
  BY <1>2, FlattenPartials
<1>4. f[0] = << >> /\ f[1] = f[1 - 1] \o p[1] /\ f[2] = f[2 - 1] \o p[2]
  BY <1>2, <1>3 DEF Partials
<1>5. 1 - 1 = 0 /\ 2 - 1 = 1 /\ << >> \o a = a
  OBVIOUS
<1>6. QED
  BY <1>1, <1>2, <1>3, <1>4, <1>5

\* ... and three.
LEMMA FlattenThree ==
    ASSUME NEW S, NEW p \in Seq(Seq(S)), Len(p) = 3
    PROVE  FlattenSeq(p) = (p[1] \o p[2]) \o p[3]
<1>1. p[1] \in Seq(S) /\ p[2] \in Seq(S) /\ p[3] \in Seq(S)
  BY ElementOfSeq
<1>2. PICK f : Partials(f, p, S) /\ FlattenSeq(p) = f[3]
  BY FlattenPartials
<1>3. f[0] = << >> /\ \A i \in 1 .. 3 : f[i] = f[i - 1] \o p[i]
  BY <1>2 DEF Partials
<1>4. f[1] = f[1 - 1] \o p[1] /\ f[2] = f[2 - 1] \o p[2] /\ f[3] = f[3 - 1] \o p[3]
  <2>1. 1 \in 1 .. 3 /\ 2 \in 1 .. 3 /\ 3 \in 1 .. 3
    OBVIOUS
  <2>2. QED
    BY <1>3, <2>1
<1>5. 1 - 1 = 0 /\ 2 - 1 = 1 /\ 3 - 1 = 2
  OBVIOUS
<1>6. << >> \o p[1] = p[1]
  BY <1>1
<1>7. QED
  BY <1>2, <1>3, <1>4, <1>5, <1>6

---------------------------------------------------------------------------
(* The table of digests.                                                   *)

\* No stream is listed twice.
Table(t) ==
    /\ t \in Seq(Seq(Cells))
    /\ \A i, j \in DOMAIN t : t[i] = t[j] => i = j
Grown(t, u) == DOMAIN t \subseteq DOMAIN u /\ \A i \in DOMAIN t : u[i] = t[i]

\* d is the digest of msg.
Is(t, msg, d) == \E n \in DOMAIN t : t[n] = Padded(msg) /\ d = DigestOf(n)

\* A digest is Out bytes.
LEMMA DigestType ==
    ASSUME NEW n \in Nat
    PROVE  DigestOf(n) \in Seq(Plain) /\ Len(DigestOf(n)) = Out
<1>1. Out \in Nat
  BY Sizes
<1>2. \A i \in 1 .. Out : <<"digest", <<n, i>>, {}>> \in Plain
  BY <1>1 DEF Plain
<1>3. DigestOf(n) \in [1 .. Out -> Plain]
  BY <1>2 DEF DigestOf
<1>4. QED
  BY <1>1, <1>3, IsASeq, LenProperties

\* Digests with different numbers differ.
LEMMA DigestApart ==
    ASSUME NEW n \in Nat, NEW m \in Nat, DigestOf(n) = DigestOf(m)
    PROVE  n = m
<1>1. 1 \in 1 .. Out
  BY WordAssumption DEF Out
<1>2. DigestOf(n)[1] = <<"digest", <<n, 1>>, {}>> /\ DigestOf(m)[1] = <<"digest", <<m, 1>>, {}>>
  BY <1>1 DEF DigestOf
<1>3. <<n, 1>> = <<m, 1>>
  BY <1>2
<1>4. QED
  BY <1>3

\* A table extends itself.
LEMMA GrownRefl == ASSUME NEW t PROVE Grown(t, t)
BY DEF Grown

\* What extends an extension is one.
LEMMA GrownTrans ==
    ASSUME NEW t, NEW u, NEW v, Grown(t, u), Grown(u, v)
    PROVE  Grown(t, v)
BY DEF Grown

\* A longer table has the same digests.
LEMMA IsGrown ==
    ASSUME NEW t, NEW u, NEW m, NEW d, Is(t, m, d), Grown(t, u)
    PROVE  Is(u, m, d)
BY DEF Is, Grown

\* A message has one digest, and a digest one message.
LEMMA IsUnique ==
    ASSUME NEW t, Table(t), NEW m \in Seq(Cells), NEW d, Is(t, m, d),
           NEW n \in Seq(Cells), NEW e, Is(t, n, e)
    PROVE  m = n <=> d = e
<1>1. PICK i \in DOMAIN t : t[i] = Padded(m) /\ d = DigestOf(i)
  BY DEF Is
<1>2. PICK j \in DOMAIN t : t[j] = Padded(n) /\ e = DigestOf(j)
  BY DEF Is
<1>3. i \in Nat /\ j \in Nat
  BY DEF Table
<1>4. ASSUME m = n PROVE d = e
  BY <1>1, <1>2, <1>4 DEF Table
<1>5. ASSUME d = e PROVE m = n
  <2>1. i = j
    BY <1>1, <1>2, <1>3, <1>5, DigestApart
  <2>2. QED
    BY <1>1, <1>2, <2>1, PaddedApart
<1>6. QED
  BY <1>4, <1>5

\* A digest in a table is Out bytes.
LEMMA IsType ==
    ASSUME NEW t, Table(t), NEW m, NEW d, Is(t, m, d)
    PROVE  d \in Seq(Plain) /\ d \in Seq(Cells) /\ Len(d) = Out
<1>1. PICK i \in DOMAIN t : d = DigestOf(i)
  BY DEF Is
<1>2. i \in Nat
  BY DEF Table
<1>3. d \in Seq(Plain) /\ Len(d) = Out
  BY <1>1, <1>2, DigestType
<1>4. QED
  BY <1>3, CellsAbove, SeqMonotonic

\* Taking a stream down keeps the table one without repetitions.
LEMMA NotedIs ==
    ASSUME NEW t, Table(t), NEW s \in Seq(Cells)
    PROVE  /\ Table(Noted(t, s)) /\ Grown(t, Noted(t, s))
           /\ \E n \in DOMAIN Noted(t, s) : Noted(t, s)[n] = s
           /\ Number(Noted(t, s), s) \in DOMAIN Noted(t, s)
           /\ Noted(t, s)[Number(Noted(t, s), s)] = s
<1>1. PICK u : u = Noted(t, s)
  OBVIOUS
<1>2. t \in Seq(Seq(Cells)) /\ Len(t) \in Nat
  BY DEF Table
<1>3. Table(u) /\ Grown(t, u) /\ \E n \in DOMAIN u : u[n] = s
  <2>1. CASE \E n \in DOMAIN t : t[n] = s
    BY <1>1, <2>1, GrownRefl DEF Noted
  <2>2. CASE ~\E n \in DOMAIN t : t[n] = s
    <3>1. u = Append(t, s)
      BY <1>1, <2>2 DEF Noted
    <3>2. /\ u \in Seq(Seq(Cells)) /\ DOMAIN u = 1 .. Len(t) + 1 /\ u[Len(t) + 1] = s
          /\ \A i \in 1 .. Len(t) : u[i] = t[i]
      BY <1>2, <3>1, AppendProperties, LenProperties
    <3>3. DOMAIN t = 1 .. Len(t)
      BY <1>2, LenProperties
    <3>4. Grown(t, u)
      BY <1>2, <3>2, <3>3 DEF Grown
    <3>5. Len(t) + 1 \in DOMAIN u
      BY <1>2, <3>2
    <3>6. ASSUME NEW i \in DOMAIN u, NEW j \in DOMAIN u, u[i] = u[j] PROVE i = j
      <4>1. i \in 1 .. Len(t) \/ i = Len(t) + 1
        BY <1>2, <3>2
      <4>2. j \in 1 .. Len(t) \/ j = Len(t) + 1
        BY <1>2, <3>2
      <4>3. CASE i \in 1 .. Len(t) /\ j \in 1 .. Len(t)
        BY <3>2, <3>3, <3>6, <4>3 DEF Table
      <4>4. CASE i \in 1 .. Len(t) /\ j = Len(t) + 1
        BY <2>2, <3>2, <3>3, <3>6, <4>4
      <4>5. CASE i = Len(t) + 1 /\ j \in 1 .. Len(t)
        BY <2>2, <3>2, <3>3, <3>6, <4>5
      <4>6. QED
        BY <4>1, <4>2, <4>3, <4>4, <4>5
    <3>7. QED
      BY <3>2, <3>4, <3>5, <3>6 DEF Table
  <2>3. QED
    BY <2>1, <2>2
<1>4. Number(u, s) \in DOMAIN u /\ u[Number(u, s)] = s
  BY <1>3 DEF Number
<1>5. QED
  BY <1>1, <1>3, <1>4

\* sha256_finalize returns the digest of what the object holds.
LEMMA DigestedIs ==
    ASSUME NEW t, Table(t), NEW h, NEW msg, Holds(h, msg),
           NEW d, d = Digested(t, h)
    PROVE  Table(d.table) /\ Grown(t, d.table) /\ Is(d.table, msg, d.out)
<1>1. msg \in Seq(Cells)
  BY DEF Holds
<1>2. PICK s : s = Padded(msg)
  OBVIOUS
<1>3. s \in Seq(Cells)
  BY <1>1, <1>2, PaddedIs
<1>4. Finalized(h) = s
  BY <1>2, FinalizedPadded
<1>5. d.table = Noted(t, s) /\ d.out = DigestOf(Number(Noted(t, s), s))
  BY <1>4 DEF Digested, DigestStream, DigestIn
<1>6. PICK u : u = Noted(t, s)
  OBVIOUS
<1>7. Table(u) /\ Grown(t, u) /\ Number(u, s) \in DOMAIN u /\ u[Number(u, s)] = s
  BY <1>3, <1>6, NotedIs
<1>8. Is(u, msg, DigestOf(Number(u, s)))
  BY <1>2, <1>7 DEF Is
<1>9. QED
  BY <1>5, <1>6, <1>7, <1>8

---------------------------------------------------------------------------
(* HMAC.                                                                   *)

\* k is the block of a key, d the code of a message.
IsKey(t, key, k) ==
    \E d : /\ IF Len(key) <= Block THEN d = key ELSE Is(t, key, d)
           /\ k = d \o Zeros(Block - Len(d))
IsMac(t, key, msg, d) ==
    \E k, i : /\ IsKey(t, key, k)
              /\ Is(t, Masked(k, {"36"}) \o msg, i)
              /\ Is(t, Masked(k, {"5c"}) \o i, d)

\* A key not longer than a block is filled up with zeros.
LEMMA ZeroFill ==
    ASSUME NEW d \in Seq(Plain), Len(d) <= Block
    PROVE  /\ d \o Zeros(Block - Len(d)) \in Seq(Plain)
           /\ Len(d \o Zeros(Block - Len(d))) = Block
           /\ \A i \in 1 .. Len(d) : (d \o Zeros(Block - Len(d)))[i] = d[i]
<1>1. PICK n \in Nat : n = Block - Len(d)
  BY Sizes, LenProperties
<1>2. Zeros(n) \in Seq(Plain) /\ Len(Zeros(n)) = n
  <2>1. Num(0) \in Plain
    BY DEF Plain
  <2>2. Zeros(n) \in [1 .. n -> Plain]
    BY <2>1 DEF Zeros
  <2>3. QED
    BY <2>2, IsASeq, LenProperties
<1>3. PICK z \in Seq(Plain) : z = Zeros(n) /\ Len(z) = n
  BY <1>2
<1>4. /\ d \o z \in Seq(Plain) /\ Len(d \o z) = Len(d) + Len(z)
      /\ \A i \in 1 .. Len(d) : (d \o z)[i] = d[i]
  BY ConcatOf
<1>5. Len(d) + n = Block
  BY <1>1, Sizes, LenProperties
<1>6. QED
  BY <1>1, <1>3, <1>4, <1>5

\* The key of a code is a block of bytes.
LEMMA KeyType ==
    ASSUME NEW t, Table(t), NEW key \in Seq(Plain), NEW k, IsKey(t, key, k)
    PROVE  k \in Seq(Plain) /\ Len(k) = Block
<1>1. PICK d : /\ IF Len(key) <= Block THEN d = key ELSE Is(t, key, d)
               /\ k = d \o Zeros(Block - Len(d))
  BY DEF IsKey
<1>2. d \in Seq(Plain) /\ Len(d) <= Block
  <2>1. Out <= Block
    BY WordAssumption DEF Out, Block
  <2>2. QED
    BY <1>1, <2>1, IsType
<1>3. QED
  BY <1>1, <1>2, ZeroFill

\* A key masked byte by byte (rkey[n] ^= 0x5c).
LEMMA MaskedOf ==
    ASSUME NEW k \in Seq(Plain), NEW m \in SUBSET {"5c", "36"}
    PROVE  /\ Masked(k, m) \in Seq(Cells) /\ Len(Masked(k, m)) = Len(k)
           /\ \A i \in 1 .. Len(k) : Masked(k, m)[i] = Mask(k[i], m)
<1>1. Len(k) \in Nat /\ DOMAIN k = 1 .. Len(k) /\ \A i \in 1 .. Len(k) : k[i] \in Plain
  BY LenProperties, ElementOfSeq
<1>2. \A i \in 1 .. Len(k) : Mask(k[i], m) \in Cells
  BY <1>1 DEF Cells
<1>3. Masked(k, m) = [i \in 1 .. Len(k) |-> Mask(k[i], m)]
  BY <1>1 DEF Masked
<1>4. Masked(k, m) \in [1 .. Len(k) -> Cells]
  BY <1>2, <1>3
<1>5. QED
  BY <1>1, <1>3, <1>4, IsASeq, LenProperties

\* A mask over a mask is the one for the inner hash.
LEMMA MaskedTwice ==
    ASSUME NEW k \in Seq(Plain)
    PROVE  Masked(Masked(k, {"5c"}), {"5c", "36"}) = Masked(k, {"36"})
<1>1. Len(k) \in Nat /\ DOMAIN k = 1 .. Len(k)
  BY LenProperties
<1>2. PICK a : a = Masked(k, {"5c"})
  OBVIOUS
<1>3. a = [i \in 1 .. Len(k) |-> Mask(k[i], {"5c"})]
  BY <1>1, <1>2 DEF Masked
<1>4. Masked(a, {"5c", "36"}) = [i \in 1 .. Len(k) |-> Mask(a[i], {"5c", "36"})]
  BY <1>3 DEF Masked
<1>5. Masked(k, {"36"}) = [i \in 1 .. Len(k) |-> Mask(k[i], {"36"})]
  BY <1>1 DEF Masked
<1>6. ASSUME NEW b PROVE Mask(Mask(b, {"5c"}), {"5c", "36"}) = Mask(b, {"36"})
  <2>1. ASSUME NEW x
        PROVE  (((x \ {"5c"}) \cup ({"5c"} \ x)) \ {"5c", "36"})
                   \cup ({"5c", "36"} \ ((x \ {"5c"}) \cup ({"5c"} \ x)))
               = (x \ {"36"}) \cup ({"36"} \ x)
    <3>1. "5c" # "36"
      OBVIOUS
    <3>2. QED
      BY <3>1
  <2>2. QED
    BY <2>1 DEF Mask
<1>7. \A i \in 1 .. Len(k) : Mask(a[i], {"5c", "36"}) = Mask(k[i], {"36"})
  BY <1>3, <1>6
<1>8. QED
  BY <1>2, <1>4, <1>5, <1>7

\* hmac_sha256_initialize: the two objects hold the block of the key under
\* its two masks.
LEMMA InitializeHolds ==
    ASSUME NEW t, Table(t), NEW key \in Seq(Plain),
           NEW m, m = HmacInitialize(t, key)
    PROVE  /\ Table(m.table) /\ Grown(t, m.table)
           /\ \E k : /\ IsKey(m.table, key, k) /\ k \in Seq(Plain)
                     /\ Holds(m.outer, Masked(k, {"5c"}))
                     /\ Holds(m.inner, Masked(k, {"36"}))
<1>1. PICK r : r = KeyBlock(t, key)
  OBVIOUS
<1>2. /\ m.table = r.table
      /\ m.outer = Written(Initialized, Masked(r.block, {"5c"}))
      /\ m.inner = Written(Initialized, Masked(Masked(r.block, {"5c"}), {"5c", "36"}))
  BY <1>1 DEF HmacInitialize, Keyed
<1>3. /\ Table(r.table) /\ Grown(t, r.table) /\ IsKey(r.table, key, r.block)
  <2>1. CASE Len(key) <= Block
    <3>1. r = [block |-> key \o Zeros(Block - Len(key)), table |-> t]
      BY <1>1, <2>1 DEF KeyBlock, ZeroFilled
    <3>2. r.table = t /\ r.block = key \o Zeros(Block - Len(key))
      BY <3>1
    <3>3. QED
      BY <2>1, <3>2, GrownRefl DEF IsKey
  <2>2. CASE ~(Len(key) <= Block)
    <3>1. PICK d : d = Digested(t, Written(Initialized, key))
      OBVIOUS
    <3>2. key \in Seq(Cells) /\ << >> \o key = key
      BY CellsAbove, SeqMonotonic
    <3>3. Holds(Written(Initialized, key), key)
      BY <3>2, InitializedHolds, WrittenHolds
    <3>4. Table(d.table) /\ Grown(t, d.table) /\ Is(d.table, key, d.out)
      BY <3>1, <3>3, DigestedIs
    <3>5. r.table = d.table /\ r.block = d.out \o Zeros(Block - Len(d.out))
      BY <1>1, <2>2, <3>1 DEF KeyBlock, ZeroFilled
    <3>6. IsKey(d.table, key, r.block)
      BY <2>2, <3>4, <3>5 DEF IsKey
    <3>7. QED
      BY <3>4, <3>5, <3>6
  <2>3. QED
    BY <2>1, <2>2
<1>4. PICK k : k = r.block
  OBVIOUS
<1>5. k \in Seq(Plain)
  BY <1>3, <1>4, KeyType
<1>6. PICK a, b : a = Masked(k, {"5c"}) /\ b = Masked(k, {"36"})
  OBVIOUS
<1>7. a \in Seq(Cells) /\ b \in Seq(Cells) /\ << >> \o a = a /\ << >> \o b = b
  <2>1. {"5c"} \in SUBSET {"5c", "36"} /\ {"36"} \in SUBSET {"5c", "36"}
    OBVIOUS
  <2>2. a \in Seq(Cells) /\ b \in Seq(Cells)
    BY <1>5, <1>6, <2>1, MaskedOf
  <2>3. QED
    BY <2>2
<1>8. Holds(m.outer, a) /\ Holds(m.inner, b)
  <2>1. m.outer = Written(Initialized, a) /\ m.inner = Written(Initialized, b)
    BY <1>2, <1>4, <1>5, <1>6, MaskedTwice
  <2>2. Holds(Written(Initialized, a), << >> \o a) /\ Holds(Written(Initialized, b), << >> \o b)
    BY <1>7, InitializedHolds, WrittenHolds
  <2>3. QED
    BY <1>7, <2>1, <2>2
<1>9. QED
  BY <1>2, <1>3, <1>4, <1>5, <1>6, <1>8

\* Writing pieces is writing them in one (hmac_sha256_write).
LEMMA WritePieces ==
    ASSUME NEW m, NEW msg, Holds(m.inner, msg), NEW p \in Seq(Seq(Cells))
    PROVE  FlattenSeq(p) \in Seq(Cells) /\ Holds(HmacWrite(m, p), msg \o FlattenSeq(p))
<1> DEFINE n == Len(p)
           A == {h \in [s : Seq(Cells), buf : [1 .. Block -> Cells], bytes : Nat] :
                     \E y \in Seq(Cells) : Holds(h, y)}
           f == [i \in Nat |-> [x \in A |-> IF i + 1 \in 1 .. n THEN Written(x, p[i + 1]) ELSE x]]
<1>1. n \in Nat /\ \A i \in 1 .. n : p[i] \in Seq(Cells)
  BY LenProperties, ElementOfSeq
<1>2. \A h, y : Holds(h, y) => h \in A
  BY DEF Holds
<1>3. f \in [Nat -> [A -> A]]
  <2> SUFFICES ASSUME NEW i \in Nat, NEW x \in A, i + 1 \in 1 .. n
               PROVE  Written(x, p[i + 1]) \in A
    OBVIOUS
  <2>1. PICK y : Holds(x, y)
    OBVIOUS
  <2>2. p[i + 1] \in Seq(Cells)
    BY <1>1
  <2> HIDE DEF A
  <2>3. Holds(Written(x, p[i + 1]), y \o p[i + 1])
    BY <2>1, <2>2, WrittenHolds
  <2>4. QED
    BY <1>2, <2>3
<1> HIDE DEF A
<1>4. m.inner \in A
  BY <1>2
<1>5. PICK g : Iterates(g, n, A, m.inner, f)
  <2> HIDE DEF f
  <2>1. QED
    BY <1>1, <1>3, <1>4, Recursion
<1>6. g \in [0 .. n -> A] /\ g[0] = m.inner /\ \A i \in 0 .. n - 1 : g[i + 1] = f[i][g[i]]
  BY <1>5 DEF Iterates
<1>7. g = [i \in 0 .. n |-> IF i = 0 THEN m.inner ELSE Written(g[i - 1], p[i])]
  <2>1. ASSUME NEW i \in 0 .. n, i # 0 PROVE g[i] = Written(g[i - 1], p[i])
    <3>1. i - 1 \in 0 .. n - 1 /\ i - 1 \in Nat /\ (i - 1) + 1 = i /\ i - 1 \in 0 .. n /\ i \in 1 .. n
      BY <1>1, <2>1
    <3>2. g[i - 1] \in A
      BY <1>6, <3>1
    <3>3. g[(i - 1) + 1] = f[i - 1][g[i - 1]]
      BY <1>6, <3>1
    <3>4. f[i - 1][g[i - 1]] = Written(g[i - 1], p[i])
      BY <3>1, <3>2
    <3>5. QED
      BY <3>1, <3>3, <3>4
  <2>2. QED
    BY <1>6, <2>1
<1> HIDE DEF f
<1> DEFINE D == CHOOSE d : d = [i \in 0 .. n |-> IF i = 0 THEN m.inner ELSE Written(d[i - 1], p[i])]
<1>8. D = [i \in 0 .. n |-> IF i = 0 THEN m.inner ELSE Written(D[i - 1], p[i])]
  BY <1>7
<1>9. HmacWrite(m, p) = D[n]
  BY DEF HmacWrite
<1> HIDE DEF D
<1>10. PICK s : Partials(s, p, Cells) /\ FlattenSeq(p) = s[n]
  BY FlattenPartials
<1>11. /\ s \in [0 .. n -> Seq(Cells)] /\ s[0] = << >>
       /\ \A i \in 1 .. n : s[i] = s[i - 1] \o p[i]
  BY <1>10 DEF Partials
<1>12. PICK x \in Seq(Cells) : x = msg
  BY DEF Holds
<1> DEFINE T == {i \in Nat : i <= n => Holds(D[i], x \o s[i])}
<1>13. 0 \in T
  <2>1. D[0] = m.inner
    BY <1>1, <1>8
  <2>2. x \o << >> = x
    OBVIOUS
  <2>3. Holds(D[0], x \o s[0])
    BY <1>11, <1>12, <2>1, <2>2
  <2>4. QED
    BY <2>3
<1>14. ASSUME NEW i \in Nat, i \in T PROVE i + 1 \in T
  <2> SUFFICES ASSUME i + 1 <= n PROVE Holds(D[i + 1], x \o s[i + 1])
    BY <1>14
  <2>1. i + 1 \in 1 .. n /\ i + 1 \in 0 .. n /\ i + 1 # 0 /\ (i + 1) - 1 = i /\ i \in 0 .. n
        /\ Holds(D[i], x \o s[i])
    BY <1>1, <1>14
  <2>2. D[i + 1] = Written(D[(i + 1) - 1], p[i + 1])
    BY <1>8, <2>1
  <2>3. s[i + 1] = s[(i + 1) - 1] \o p[i + 1] /\ s[i] \in Seq(Cells) /\ p[i + 1] \in Seq(Cells)
    BY <1>1, <1>11, <2>1
  <2>4. Holds(Written(D[i], p[i + 1]), (x \o s[i]) \o p[i + 1])
    BY <2>1, <2>3, WrittenHolds
  <2>5. PICK a \in Seq(Cells), b \in Seq(Cells) : a = s[i] /\ b = p[i + 1]
    BY <2>3
  <2>6. (x \o a) \o b = x \o (a \o b)
    BY ConcatAssoc
  <2>7. QED
    BY <2>1, <2>2, <2>3, <2>4, <2>5, <2>6
<1> HIDE DEF T
<1>15. \A i \in Nat : i \in T
  BY <1>13, <1>14, Induction
<1>16. Holds(D[n], x \o s[n])
  BY <1>1, <1>15 DEF T
<1>17. s[n] \in Seq(Cells)
  <2>1. n \in 0 .. n
    BY <1>1
  <2>2. QED
    BY <1>11, <2>1
<1>18. QED
  BY <1>9, <1>10, <1>12, <1>16, <1>17

\* A longer table has the same keys ...
LEMMA KeyGrown ==
    ASSUME NEW t, NEW u, Grown(t, u), NEW key, NEW k, IsKey(t, key, k)
    PROVE  IsKey(u, key, k)
<1>1. PICK d : /\ IF Len(key) <= Block THEN d = key ELSE Is(t, key, d)
               /\ k = d \o Zeros(Block - Len(d))
  BY DEF IsKey
<1>2. IF Len(key) <= Block THEN d = key ELSE Is(u, key, d)
  BY <1>1, IsGrown
<1>3. QED
  BY <1>1, <1>2 DEF IsKey

\* ... and the same codes.
LEMMA MacGrown ==
    ASSUME NEW t, NEW u, Grown(t, u), NEW key, NEW msg, NEW d, IsMac(t, key, msg, d)
    PROVE  IsMac(u, key, msg, d)
<1>1. PICK k, i : /\ IsKey(t, key, k)
                  /\ Is(t, Masked(k, {"36"}) \o msg, i)
                  /\ Is(t, Masked(k, {"5c"}) \o i, d)
  BY DEF IsMac
<1>2. IsKey(u, key, k)
  BY <1>1, KeyGrown
<1>3. Is(u, Masked(k, {"36"}) \o msg, i) /\ Is(u, Masked(k, {"5c"}) \o i, d)
  BY <1>1, IsGrown
<1>4. QED
  BY <1>2, <1>3 DEF IsMac

\* The code computed is that of RFC 2104 (hmac_sha256_*).
LEMMA HmacIs ==
    ASSUME NEW t, Table(t), NEW key \in Seq(Plain), NEW p \in Seq(Seq(Cells)),
           NEW d, d = Hmac(t, key, p)
    PROVE  /\ Table(d.table) /\ Grown(t, d.table)
           /\ IsMac(d.table, key, FlattenSeq(p), d.out)
<1>1. PICK m : m = HmacInitialize(t, key)
  OBVIOUS
<1>2. Table(m.table) /\ Grown(t, m.table)
  BY <1>1, InitializeHolds
<1>3. PICK k : /\ IsKey(m.table, key, k) /\ k \in Seq(Plain)
               /\ Holds(m.outer, Masked(k, {"5c"})) /\ Holds(m.inner, Masked(k, {"36"}))
  BY <1>1, InitializeHolds
<1>4. PICK a, b, q : a = Masked(k, {"5c"}) /\ b = Masked(k, {"36"}) /\ q = FlattenSeq(p)
  OBVIOUS
<1>5. PICK w : w = HmacWrite(m, p)
  OBVIOUS
<1>6. Holds(w, b \o q)
  BY <1>3, <1>4, <1>5, WritePieces
<1>7. PICK x : x = Digested(m.table, w)
  OBVIOUS
<1>8. Table(x.table) /\ Grown(m.table, x.table) /\ Is(x.table, b \o q, x.out)
  BY <1>2, <1>6, <1>7, DigestedIs
<1>9. x.out \in Seq(Cells)
  BY <1>8, IsType
<1>10. PICK o : o = Written(m.outer, x.out)
  OBVIOUS
<1>11. Holds(o, a \o x.out)
  BY <1>3, <1>4, <1>9, <1>10, WrittenHolds
<1>12. d = Digested(x.table, o)
  BY <1>1, <1>5, <1>7, <1>10 DEF Hmac, HmacOf, HmacFinalize, DigestOuter
<1>13. Table(d.table) /\ Grown(x.table, d.table) /\ Is(d.table, a \o x.out, d.out)
  BY <1>8, <1>11, <1>12, DigestedIs
<1>14. Grown(t, d.table) /\ Grown(m.table, d.table)
  BY <1>2, <1>8, <1>13, GrownTrans
<1>15. IsKey(d.table, key, k)
  BY <1>3, <1>14, KeyGrown
<1>16. Is(d.table, b \o q, x.out)
  BY <1>8, <1>13, IsGrown
<1>17. IsMac(d.table, key, q, d.out)
  BY <1>4, <1>13, <1>15, <1>16 DEF IsMac
<1>18. QED
  BY <1>4, <1>13, <1>14, <1>17

\* What the standard calls the digest and the code is what they are by the
\* table.
LEMMA StdDigestIs ==
    ASSUME Table(table), NEW msg \in Seq(Cells), NEW d, Is(table, msg, d)
    PROVE  StdDigest(msg) = d
<1>1. PICK n \in DOMAIN table : table[n] = Padded(msg) /\ d = DigestOf(n)
  BY DEF Is
<1>2. \A i \in DOMAIN table : table[i] = Padded(msg) => i = n
  BY <1>1 DEF Table
<1>3. Number(table, Padded(msg)) = n
  BY <1>1, <1>2 DEF Number
<1>4. QED
  BY <1>1, <1>3 DEF StdDigest

\* What the table says of a code is what RFC 2104 says.
LEMMA StdHmacIs ==
    ASSUME Table(table), NEW key \in Seq(Plain), NEW msg \in Seq(Cells),
           NEW d, IsMac(table, key, msg, d)
    PROVE  StdHmac(key, msg) = d
<1>1. PICK k, i : /\ IsKey(table, key, k)
                  /\ Is(table, Masked(k, {"36"}) \o msg, i)
                  /\ Is(table, Masked(k, {"5c"}) \o i, d)
  BY DEF IsMac
<1>2. PICK e : /\ IF Len(key) <= Block THEN e = key ELSE Is(table, key, e)
               /\ k = e \o Zeros(Block - Len(e))
  BY <1>1 DEF IsKey
<1>3. k \in Seq(Plain)
  BY <1>1, KeyType
<1>4. PICK a, b : a = Masked(k, {"36"}) /\ b = Masked(k, {"5c"})
  OBVIOUS
<1>5. a \in Seq(Cells) /\ b \in Seq(Cells)
  <2>1. {"5c"} \in SUBSET {"5c", "36"} /\ {"36"} \in SUBSET {"5c", "36"}
    OBVIOUS
  <2>2. QED
    BY <1>3, <1>4, <2>1, MaskedOf
<1>6. i \in Seq(Cells)
  BY <1>1, IsType
<1>7. a \o msg \in Seq(Cells) /\ b \o i \in Seq(Cells)
  BY <1>5, <1>6, ConcatOf
<1>8. StdDigest(a \o msg) = i /\ StdDigest(b \o i) = d
  BY <1>1, <1>4, <1>7, StdDigestIs
<1>9. (IF Len(key) > Block THEN StdDigest(key) ELSE key) = e
  <2>1. Len(key) > Block <=> ~(Len(key) <= Block)
    BY Sizes, LenProperties
  <2>2. key \in Seq(Cells)
    BY CellsAbove, SeqMonotonic
  <2>3. CASE Len(key) <= Block
    BY <1>2, <2>1, <2>3
  <2>4. CASE ~(Len(key) <= Block)
    BY <1>2, <2>1, <2>2, <2>4, StdDigestIs
  <2>5. QED
    BY <2>3, <2>4
<1>10. QED
  BY <1>2, <1>4, <1>8, <1>9 DEF StdHmac

\* Short sequences of sequences.
LEMMA Tuples ==
    ASSUME NEW S, NEW a \in S, NEW b \in S
    PROVE  <<a>> \in Seq(S) /\ <<a, b>> \in Seq(S)
OBVIOUS

\* Two sequences one after the other.
LEMMA TupleTwo ==
    ASSUME NEW S, NEW a \in S, NEW b \in S
    PROVE  <<a>> \o <<b>> = <<a, b>>
<1>1. PICK p, q, r : p = <<a>> /\ q = <<b>> /\ r = <<a, b>>
  OBVIOUS
<1>2. /\ Len(p) = 1 /\ p[1] = a /\ Len(q) = 1 /\ q[1] = b
      /\ r \in Seq(S) /\ Len(r) = 2 /\ r[1] = a /\ r[2] = b
  BY <1>1
<1>3. p \in Seq(S) /\ q \in Seq(S)
  BY <1>1
<1>4. /\ p \o q \in Seq(S) /\ Len(p \o q) = Len(p) + Len(q)
      /\ \A i \in 1 .. Len(p) : (p \o q)[i] = p[i]
      /\ \A i \in 1 .. Len(q) : (p \o q)[Len(p) + i] = q[i]
  BY <1>3, ConcatOf
<1>5. Len(p \o q) = 2 /\ (p \o q)[1] = p[1] /\ (p \o q)[1 + 1] = q[1]
  BY <1>2, <1>4
<1>6. \A i \in 1 .. 2 : (p \o q)[i] = r[i]
  <2>1. \A i \in 1 .. 2 : i = 1 \/ i = 2
    OBVIOUS
  <2>2. 1 + 1 = 2
    OBVIOUS
  <2>3. QED
    BY <1>2, <1>5, <2>1, <2>2
<1>7. p \o q = r
  BY <1>2, <1>4, <1>5, <1>6, SeqEqual
<1>8. QED
  BY <1>1, <1>7

\* Three sequences one after the other.
LEMMA TupleThree ==
    ASSUME NEW S, NEW a \in S, NEW b \in S, NEW c \in S
    PROVE  <<a>> \o <<b, c>> = <<a, b, c>>
<1>1. PICK p, q, r : p = <<a>> /\ q = <<b, c>> /\ r = <<a, b, c>>
  OBVIOUS
<1>2. /\ Len(p) = 1 /\ p[1] = a /\ Len(q) = 2 /\ q[1] = b /\ q[2] = c
      /\ r \in Seq(S) /\ Len(r) = 3 /\ r[1] = a /\ r[2] = b /\ r[3] = c
  BY <1>1
<1>3. p \in Seq(S) /\ q \in Seq(S)
  BY <1>1
<1>4. /\ p \o q \in Seq(S) /\ Len(p \o q) = Len(p) + Len(q)
      /\ \A i \in 1 .. Len(p) : (p \o q)[i] = p[i]
      /\ \A i \in 1 .. Len(q) : (p \o q)[Len(p) + i] = q[i]
  BY <1>3, ConcatOf
<1>5. /\ Len(p \o q) = 3 /\ (p \o q)[1] = p[1]
      /\ (p \o q)[1 + 1] = q[1] /\ (p \o q)[1 + 2] = q[2]
  BY <1>2, <1>4
<1>6. \A i \in 1 .. 3 : (p \o q)[i] = r[i]
  <2>1. \A i \in 1 .. 3 : i = 1 \/ i = 2 \/ i = 3
    OBVIOUS
  <2>2. 1 + 1 = 2 /\ 1 + 2 = 3
    OBVIOUS
  <2>3. QED
    BY <1>2, <1>5, <2>1, <2>2
<1>7. p \o q = r
  BY <1>2, <1>4, <1>5, <1>6, SeqEqual
<1>8. QED
  BY <1>1, <1>7

---------------------------------------------------------------------------
(* The registers of the generator.                                         *)

Regs == {x \in Seq(Plain) : Len(x) = Out}
Reg(g) == g.k \in Regs /\ g.v \in Regs

\* y is what k and v are after steps d and e, or f and g, or the end of h.
IsRound(t, x, byte, key, y) ==
    /\ IsMac(t, x.k, (x.v \o <<Num(byte)>>) \o key, y.k)
    /\ IsMac(t, y.k, x.v, y.v)

\* The registers before the key data.
First == [k |-> Zeros(Out), v |-> [i \in 1 .. Out |-> Num(1)]]
IsSeeded(t, key, s) ==
    \E r : Reg(r) /\ IsRound(t, First, 0, key, r) /\ IsRound(t, r, 1, key, s)

\* A register is Out bytes.
LEMMA RegSeq ==
    ASSUME NEW x \in Regs
    PROVE  x \in Seq(Plain) /\ x \in Seq(Cells) /\ Len(x) = Out
<1>1. x \in Seq(Plain) /\ Len(x) = Out
  BY DEF Regs
<1>2. QED
  BY <1>1, CellsAbove, SeqMonotonic

\* A code is a digest.
LEMMA MacType ==
    ASSUME NEW t, Table(t), NEW key, NEW msg, NEW d, IsMac(t, key, msg, d)
    PROVE  d \in Regs /\ \E n \in Nat : d = DigestOf(n)
<1>1. PICK k, i : Is(t, Masked(k, {"5c"}) \o i, d)
  BY DEF IsMac
<1>2. d \in Seq(Plain) /\ Len(d) = Out
  BY <1>1, IsType
<1>3. PICK n \in DOMAIN t : d = DigestOf(n)
  BY <1>1 DEF Is
<1>4. n \in Nat
  BY DEF Table
<1>5. QED
  BY <1>2, <1>3, <1>4 DEF Regs

\* A longer table has the same steps ...
LEMMA RoundGrown ==
    ASSUME NEW t, NEW u, Grown(t, u), NEW x, NEW byte, NEW key, NEW y,
           IsRound(t, x, byte, key, y)
    PROVE  IsRound(u, x, byte, key, y)
BY MacGrown DEF IsRound

\* ... and the same seeds.
LEMMA SeededGrown ==
    ASSUME NEW t, NEW u, Grown(t, u), NEW key, NEW s, IsSeeded(t, key, s)
    PROVE  IsSeeded(u, key, s)
BY RoundGrown DEF IsSeeded

\* The registers of RFC 6979 3.2 b and c.
LEMMA FirstType == Reg(First)
<1>1. Out \in Nat /\ Num(0) \in Plain /\ Num(1) \in Plain
  BY Sizes DEF Plain
<1>2. Zeros(Out) \in [1 .. Out -> Plain] /\ [i \in 1 .. Out |-> Num(1)] \in [1 .. Out -> Plain]
  BY <1>1 DEF Zeros
<1>3. Zeros(Out) \in Regs /\ [i \in 1 .. Out |-> Num(1)] \in Regs
  BY <1>1, <1>2, IsASeq, LenProperties DEF Regs
<1>4. QED
  BY <1>3 DEF Reg, First

\* One HMAC with the key k over v alone.
LEMMA NextVIs ==
    ASSUME NEW g, Reg(g), Table(g.table), NEW h, h = NextV(g)
    PROVE  /\ Table(h.table) /\ Grown(g.table, h.table) /\ Reg(h)
           /\ h.k = g.k /\ h.retry = g.retry /\ IsMac(h.table, g.k, g.v, h.v)
<1>1. PICK d : d = Hmac(g.table, g.k, <<g.v>>)
  OBVIOUS
<1>2. h.k = g.k /\ h.v = d.out /\ h.retry = g.retry /\ h.table = d.table
  BY <1>1 DEF NextV
<1>3. g.k \in Seq(Plain) /\ g.v \in Seq(Cells)
  BY RegSeq DEF Reg
<1>4. PICK v \in Seq(Cells) : v = g.v
  BY <1>3
<1>5. <<v>> \in Seq(Seq(Cells)) /\ FlattenSeq(<<v>>) = v
  <2>1. <<v>> \in Seq(Seq(Cells))
    BY Tuples
  <2>2. FlattenSeq(<<v>>) = v
    BY FlattenOne
  <2>3. QED
    BY <2>1, <2>2
<1>6. Table(d.table) /\ Grown(g.table, d.table) /\ IsMac(d.table, g.k, v, d.out)
  BY <1>1, <1>3, <1>4, <1>5, HmacIs
<1>7. d.out \in Regs
  BY <1>6, MacType
<1>8. QED
  BY <1>2, <1>4, <1>6, <1>7 DEF Reg

\* A new k (rfc6979_hmac_sha256_initialize, _generate).
LEMMA NextKIs ==
    ASSUME NEW g, Reg(g), Table(g.table), NEW more \in Seq(Seq(Cells)), NEW h, h = NextK(g, more)
    PROVE  /\ Table(h.table) /\ Grown(g.table, h.table) /\ Reg(h)
           /\ h.v = g.v /\ h.retry = g.retry
           /\ IsMac(h.table, g.k, FlattenSeq(<<g.v>> \o more), h.k)
<1>1. PICK d : d = Hmac(g.table, g.k, <<g.v>> \o more)
  OBVIOUS
<1>2. h.v = g.v /\ h.k = d.out /\ h.retry = g.retry /\ h.table = d.table
  BY <1>1 DEF NextK
<1>3. g.k \in Seq(Plain) /\ g.v \in Seq(Cells)
  BY RegSeq DEF Reg
<1>4. PICK v \in Seq(Cells) : v = g.v
  BY <1>3
<1>5. <<v>> \o more \in Seq(Seq(Cells))
  BY ConcatProperties
<1>6. /\ Table(d.table) /\ Grown(g.table, d.table)
      /\ IsMac(d.table, g.k, FlattenSeq(<<v>> \o more), d.out)
  BY <1>1, <1>3, <1>4, <1>5, HmacIs
<1>7. d.out \in Regs
  BY <1>6, MacType
<1>8. QED
  BY <1>2, <1>4, <1>6, <1>7 DEF Reg

\* A new k and, with it, a new v.
LEMMA NextKVIs ==
    ASSUME NEW g, Reg(g), Table(g.table), NEW more \in Seq(Seq(Cells)),
           NEW h, h = NextKV(g, more)
    PROVE  /\ Table(h.table) /\ Grown(g.table, h.table) /\ Reg(h) /\ h.retry = g.retry
           /\ IsMac(h.table, g.k, FlattenSeq(<<g.v>> \o more), h.k)
           /\ IsMac(h.table, h.k, g.v, h.v)
<1>1. PICK x : x = NextK(g, more)
  OBVIOUS
<1>2. /\ Table(x.table) /\ Grown(g.table, x.table) /\ Reg(x)
      /\ x.v = g.v /\ x.retry = g.retry
      /\ IsMac(x.table, g.k, FlattenSeq(<<g.v>> \o more), x.k)
  BY <1>1, NextKIs
<1>3. h = NextV(x)
  BY <1>1 DEF NextKV
<1>4. /\ Table(h.table) /\ Grown(x.table, h.table) /\ Reg(h)
      /\ h.k = x.k /\ h.retry = x.retry /\ IsMac(h.table, x.k, x.v, h.v)
  BY <1>2, <1>3, NextVIs
<1>5. Grown(g.table, h.table)
  BY <1>2, <1>4, GrownTrans
<1>6. IsMac(h.table, g.k, FlattenSeq(<<g.v>> \o more), h.k)
  BY <1>2, <1>4, MacGrown
<1>7. QED
  BY <1>2, <1>4, <1>5, <1>6

\* The byte that separates v from the key data.
LEMMA NumCells == ASSUME NEW b \in Nat PROVE <<Num(b)>> \in Seq(Cells)
<1>1. Num(b) \in Cells
  BY CellsAbove DEF Plain
<1>2. QED
  BY <1>1

\* Steps a to g (rfc6979_hmac_sha256_initialize).
LEMMA SeededIs ==
    ASSUME NEW t, Table(t), NEW key \in Seq(Plain), NEW g, g = Seeded(t, key)
    PROVE  /\ Table(g.table) /\ Grown(t, g.table) /\ Reg(g) /\ g.retry = 0
           /\ IsSeeded(g.table, key, g)
<1>1. PICK b : b = Blank(t)
  OBVIOUS
<1>2. b.k = First.k /\ b.v = First.v /\ b.retry = 0 /\ b.table = t /\ Reg(b)
  BY <1>1, FirstType DEF Blank, First, Reg
<1>3. key \in Seq(Cells)
  BY CellsAbove, SeqMonotonic
<1>4. ASSUME NEW v \in Seq(Cells), NEW n \in Nat
      PROVE  /\ <<<<Num(n)>>, key>> \in Seq(Seq(Cells))
             /\ FlattenSeq(<<v>> \o <<<<Num(n)>>, key>>) = (v \o <<Num(n)>>) \o key
  <2>1. PICK o \in Seq(Cells) : o = <<Num(n)>>
    BY NumCells
  <2>2. <<v>> \o <<o, key>> = <<v, o, key>>
    BY <1>3, TupleThree
  <2>3. FlattenSeq(<<v, o, key>>) = (v \o o) \o key
    <3>1. PICK p : p = <<v, o, key>>
      OBVIOUS
    <3>2. p \in Seq(Seq(Cells)) /\ Len(p) = 3 /\ p[1] = v /\ p[2] = o /\ p[3] = key
      BY <1>3, <3>1
    <3>3. FlattenSeq(p) = (p[1] \o p[2]) \o p[3]
      BY <3>2, FlattenThree
    <3>4. QED
      BY <3>1, <3>2, <3>3
  <2>4. <<o, key>> \in Seq(Seq(Cells))
    BY <1>3, Tuples
  <2>5. QED
    BY <2>1, <2>2, <2>3, <2>4
<1>5. PICK r : r = NextKV(b, <<<<Num(0)>>, key>>)
  OBVIOUS
<1>6. /\ Table(r.table) /\ Grown(t, r.table) /\ Reg(r) /\ r.retry = 0
      /\ IsRound(r.table, b, 0, key, r)
  <2>1. b.v \in Seq(Cells)
    BY <1>2, RegSeq DEF Reg
  <2>2. /\ <<<<Num(0)>>, key>> \in Seq(Seq(Cells))
        /\ FlattenSeq(<<b.v>> \o <<<<Num(0)>>, key>>) = (b.v \o <<Num(0)>>) \o key
    BY <1>4, <2>1
  <2>3. PICK more \in Seq(Seq(Cells)) : more = <<<<Num(0)>>, key>>
    BY <2>2
  <2>4. Table(b.table) /\ Reg(b) /\ r = NextKV(b, more)
        /\ FlattenSeq(<<b.v>> \o more) = (b.v \o <<Num(0)>>) \o key
    BY <1>2, <1>5, <2>2, <2>3
  <2>5. /\ Table(r.table) /\ Grown(b.table, r.table) /\ Reg(r) /\ r.retry = b.retry
        /\ IsMac(r.table, b.k, FlattenSeq(<<b.v>> \o more), r.k)
        /\ IsMac(r.table, r.k, b.v, r.v)
    BY <2>4, NextKVIs
  <2>6. QED
    BY <1>2, <2>4, <2>5 DEF IsRound
<1>7. g = NextKV(r, <<<<Num(1)>>, key>>)
  BY <1>1, <1>5 DEF Seeded
<1>8. /\ Table(g.table) /\ Grown(r.table, g.table) /\ Reg(g) /\ g.retry = 0
      /\ IsRound(g.table, r, 1, key, g)
  <2>1. r.v \in Seq(Cells)
    BY <1>6, RegSeq DEF Reg
  <2>2. /\ <<<<Num(1)>>, key>> \in Seq(Seq(Cells))
        /\ FlattenSeq(<<r.v>> \o <<<<Num(1)>>, key>>) = (r.v \o <<Num(1)>>) \o key
    BY <1>4, <2>1
  <2>3. PICK more \in Seq(Seq(Cells)) : more = <<<<Num(1)>>, key>>
    BY <2>2
  <2>4. g = NextKV(r, more) /\ FlattenSeq(<<r.v>> \o more) = (r.v \o <<Num(1)>>) \o key
    BY <1>7, <2>2, <2>3
  <2>5. /\ Table(g.table) /\ Grown(r.table, g.table) /\ Reg(g) /\ g.retry = r.retry
        /\ IsMac(g.table, r.k, FlattenSeq(<<r.v>> \o more), g.k)
        /\ IsMac(g.table, g.k, r.v, g.v)
    BY <1>6, <2>4, NextKVIs
  <2>6. QED
    BY <1>6, <2>4, <2>5 DEF IsRound
<1>9. IsRound(g.table, First, 0, key, r)
  <2>1. IsRound(g.table, b, 0, key, r)
    BY <1>6, <1>8, RoundGrown
  <2>2. QED
    BY <1>2, <2>1 DEF IsRound
<1>10. Grown(t, g.table)
  BY <1>6, <1>8, GrownTrans
<1>11. QED
  BY <1>6, <1>8, <1>9, <1>10 DEF IsSeeded

\* The end of step h.
LEMMA ReseededIs ==
    ASSUME NEW g, Reg(g), Table(g.table), g.retry = 1, NEW h, h = Reseeded(g)
    PROVE  /\ Table(h.table) /\ Grown(g.table, h.table) /\ Reg(h)
           /\ IsRound(h.table, g, 0, << >>, h)
<1>1. h = NextKV(g, << <<Num(0)>> >>)
  BY DEF Reseeded
<1>2. PICK v \in Seq(Cells) : v = g.v
  BY RegSeq DEF Reg
<1>3. PICK o \in Seq(Cells) : o = <<Num(0)>>
  BY NumCells
<1>4. <<o>> \in Seq(Seq(Cells)) /\ <<v>> \o <<o>> = <<v, o>>
  <2>1. <<o>> \in Seq(Seq(Cells))
    BY Tuples
  <2>2. <<v>> \o <<o>> = <<v, o>>
    BY TupleTwo
  <2>3. QED
    BY <2>1, <2>2
<1>5. FlattenSeq(<<v, o>>) = v \o o
  BY FlattenTwo
<1>6. v \o o \in Seq(Cells)
  BY ConcatProperties
<1>7. (v \o o) \o << >> = v \o o
  BY <1>6
<1>8. FlattenSeq(<<g.v>> \o <<o>>) = (g.v \o <<Num(0)>>) \o << >>
  BY <1>2, <1>3, <1>4, <1>5, <1>7
<1>9. h = NextKV(g, <<o>>)
  BY <1>1, <1>3
<1>10. PICK more \in Seq(Seq(Cells)) : more = <<o>>
  BY <1>4
<1>11. /\ Table(h.table) /\ Grown(g.table, h.table) /\ Reg(h)
       /\ IsMac(h.table, g.k, FlattenSeq(<<g.v>> \o more), h.k)
       /\ IsMac(h.table, h.k, g.v, h.v)
  BY <1>9, <1>10, NextKVIs
<1>12. QED
  BY <1>8, <1>10, <1>11 DEF IsRound

---------------------------------------------------------------------------
(* Draws.                                                                  *)

\* The two registers on their own.
Pairs == [k : Regs, v : Regs]

\* b are the values of v in a draw that began with s, ...
IsBlocks(t, s, b, n) ==
    /\ b \in [0 .. n -> Regs] /\ b[0] = s.v
    /\ \A j \in 1 .. n : IsMac(t, s.k, b[j - 1], b[j])
\* ... r the registers the next draw begins with, ...
IsNext(t, s, r, n) ==
    \E b : IsBlocks(t, s, b, n) /\ IsRound(t, [k |-> s.k, v |-> b[n]], 0, << >>, r)
\* ... and s those that the first m draws began with.
IsSeeds(t, key, n, s, m) ==
    /\ s \in [1 .. m -> Pairs] /\ IsSeeded(t, key, s[1])
    /\ \A i \in 1 .. m : i # m => IsNext(t, s[i], s[i + 1], n)

Joined(b, j) == FlattenSeq([i \in 1 .. j |-> b[i]])
BlocksOf(len) == (len + Out - 1) \div Out

\* A pair of registers is one.
LEMMA PairReg == ASSUME NEW s \in Pairs PROVE Reg(s) /\ s = [k |-> s.k, v |-> s.v]
BY DEF Pairs, Reg

\* A longer table has the same blocks, ...
LEMMA BlocksGrown ==
    ASSUME NEW t, NEW u, Grown(t, u), NEW s, NEW b, NEW n, IsBlocks(t, s, b, n)
    PROVE  IsBlocks(u, s, b, n)
BY MacGrown DEF IsBlocks

\* ... the same registers after a draw, ...
LEMMA NextGrown ==
    ASSUME NEW t, NEW u, Grown(t, u), NEW s, NEW r, NEW n, IsNext(t, s, r, n)
    PROVE  IsNext(u, s, r, n)
BY BlocksGrown, RoundGrown DEF IsNext

\* ... and the same draws.
LEMMA SeedsGrown ==
    ASSUME NEW t, NEW u, Grown(t, u), NEW key, NEW n, NEW s, NEW m, IsSeeds(t, key, n, s, m)
    PROVE  IsSeeds(u, key, n, s, m)
BY NextGrown, SeededGrown DEF IsSeeds

\* Another block.
LEMMA BlocksMore ==
    ASSUME NEW t, NEW s, NEW n \in Nat, NEW b, IsBlocks(t, s, b, n),
           NEW v \in Regs, IsMac(t, s.k, b[n], v),
           NEW c, c = [i \in 0 .. n + 1 |-> IF i = n + 1 THEN v ELSE b[i]]
    PROVE  IsBlocks(t, s, c, n + 1) /\ c[n + 1] = v /\ \A i \in 0 .. n : c[i] = b[i]
<1>1. \A i \in 0 .. n : i \in 0 .. n + 1 /\ i # n + 1
  OBVIOUS
<1>2. \A i \in 0 .. n : c[i] = b[i]
  BY <1>1
<1>3. c[n + 1] = v
  OBVIOUS
<1>4. c \in [0 .. n + 1 -> Regs]
  <2>1. \A i \in 0 .. n + 1 : i = n + 1 \/ i \in 0 .. n
    OBVIOUS
  <2>2. \A i \in 0 .. n : b[i] \in Regs
    BY DEF IsBlocks
  <2>3. QED
    BY <2>1, <2>2
<1>5. ASSUME NEW j \in 1 .. n + 1 PROVE IsMac(t, s.k, c[j - 1], c[j])
  <2>1. CASE j = n + 1
    <3>1. j - 1 = n /\ n \in 0 .. n
      BY <2>1
    <3>2. QED
      BY <1>2, <1>3, <2>1, <3>1
  <2>2. CASE j # n + 1
    <3>1. j \in 1 .. n /\ j \in 0 .. n /\ j - 1 \in 0 .. n
      BY <1>5, <2>2
    <3>2. c[j - 1] = b[j - 1] /\ c[j] = b[j]
      BY <1>2, <3>1
    <3>3. QED
      BY <3>1, <3>2 DEF IsBlocks
  <2>3. QED
    BY <2>1, <2>2
<1>6. 0 \in 0 .. n
  OBVIOUS
<1>7. QED
  BY <1>2, <1>3, <1>4, <1>5, <1>6 DEF IsBlocks

\* Another draw.
LEMMA SeedsMore ==
    ASSUME NEW t, NEW key, NEW n, NEW m \in Nat \ {0}, NEW s, IsSeeds(t, key, n, s, m),
           NEW r \in Pairs, IsNext(t, s[m], r, n),
           NEW c, c = [i \in 1 .. m + 1 |-> IF i = m + 1 THEN r ELSE s[i]]
    PROVE  IsSeeds(t, key, n, c, m + 1) /\ c[m + 1] = r
<1>1. \A i \in 1 .. m : i \in 1 .. m + 1 /\ i # m + 1
  OBVIOUS
<1>2. \A i \in 1 .. m : c[i] = s[i]
  BY <1>1
<1>3. c[m + 1] = r
  OBVIOUS
<1>4. c \in [1 .. m + 1 -> Pairs]
  <2>1. \A i \in 1 .. m + 1 : i = m + 1 \/ i \in 1 .. m
    OBVIOUS
  <2>2. \A i \in 1 .. m : s[i] \in Pairs
    BY DEF IsSeeds
  <2>3. QED
    BY <2>1, <2>2
<1>5. ASSUME NEW i \in 1 .. m + 1, i # m + 1 PROVE IsNext(t, c[i], c[i + 1], n)
  <2>1. i \in 1 .. m
    BY <1>5
  <2>2. CASE i = m
    BY <1>2, <1>3, <2>1, <2>2
  <2>3. CASE i # m
    <3>1. i + 1 \in 1 .. m
      BY <2>1, <2>3
    <3>2. IsNext(t, s[i], s[i + 1], n)
      BY <2>1, <2>3 DEF IsSeeds
    <3>3. QED
      BY <1>2, <2>1, <3>1, <3>2
  <2>4. QED
    BY <2>2, <2>3
<1>6. 1 \in 1 .. m
  OBVIOUS
<1>7. IsSeeded(t, key, c[1])
  BY <1>2, <1>6 DEF IsSeeds
<1>8. QED
  BY <1>3, <1>4, <1>5, <1>7 DEF IsSeeds

\* Another sequence at the end.
LEMMA FlattenAppend ==
    ASSUME NEW S, NEW p \in Seq(Seq(S)), NEW a \in Seq(S),
           NEW q \in Seq(Seq(S)), Len(q) = Len(p) + 1,
           \A i \in 1 .. Len(p) : q[i] = p[i], q[Len(q)] = a
    PROVE  FlattenSeq(q) = FlattenSeq(p) \o a
<1>1. PICK n \in Nat : n = Len(p)
  BY LenProperties
<1>2. PICK f : Partials(f, q, S) /\ FlattenSeq(q) = f[Len(q)]
  BY FlattenPartials
<1>3. PICK g : Partials(g, p, S) /\ FlattenSeq(p) = g[Len(p)]
  BY FlattenPartials
<1>4. /\ f \in [0 .. n + 1 -> Seq(S)] /\ f[0] = << >>
      /\ \A i \in 1 .. n + 1 : f[i] = f[i - 1] \o q[i]
  BY <1>1, <1>2 DEF Partials
<1> DEFINE h == [i \in 0 .. n |-> f[i]]
<1>5. Partials(h, p, S)
  <2>1. \A i \in 0 .. n : i \in 0 .. n + 1
    OBVIOUS
  <2>2. h \in [0 .. n -> Seq(S)] /\ h[0] = << >>
    BY <1>4, <2>1
  <2>3. ASSUME NEW i \in 1 .. n PROVE h[i] = h[i - 1] \o p[i]
    <3>1. i \in 1 .. n + 1 /\ i \in 0 .. n /\ i - 1 \in 0 .. n
      OBVIOUS
    <3>2. f[i] = f[i - 1] \o q[i] /\ q[i] = p[i]
      BY <1>1, <1>4, <3>1
    <3>3. QED
      BY <3>1, <3>2
  <2>4. QED
    BY <1>1, <2>2, <2>3 DEF Partials
<1>6. h[n] = f[n]
  OBVIOUS
<1> HIDE DEF h
<1>7. h[n] = g[n]
  BY <1>1, <1>3, <1>5, PartialsUnique
<1>8. n + 1 \in 1 .. n + 1 /\ (n + 1) - 1 = n /\ Len(q) = n + 1
  BY <1>1
<1>9. f[n + 1] = f[n] \o q[n + 1]
  BY <1>4, <1>8
<1>10. QED
  BY <1>1, <1>2, <1>3, <1>6, <1>7, <1>8, <1>9

\* The blocks of a draw in one.
LEMMA JoinedIs ==
    ASSUME NEW n \in Nat, NEW b, \A i \in 1 .. n : b[i] \in Regs
    PROVE  /\ Joined(b, 0) = << >>
           /\ \A j \in 1 .. n : Joined(b, j) = Joined(b, j - 1) \o b[j]
           /\ \A j \in 0 .. n : Joined(b, j) \in Seq(Plain) /\ Len(Joined(b, j)) = j * Out
<1> DEFINE p(j) == [i \in 1 .. j |-> b[i]]
<1>1. ASSUME NEW j \in 0 .. n
      PROVE  p(j) \in Seq(Seq(Plain)) /\ Len(p(j)) = j
  <2>1. \A i \in 1 .. j : b[i] \in Seq(Plain)
    <3>1. \A i \in 1 .. j : i \in 1 .. n
      OBVIOUS
    <3>2. QED
      BY <3>1, RegSeq
  <2>2. p(j) \in [1 .. j -> Seq(Plain)] /\ j \in Nat
    BY <2>1
  <2>3. QED
    BY <2>2, IsASeq, LenProperties
<1>2. Joined(b, 0) = << >>
  <2>1. PICK q : q = p(0)
    OBVIOUS
  <2>2. 0 \in 0 .. n
    OBVIOUS
  <2>3. q \in Seq(Seq(Plain)) /\ Len(q) = 0
    BY <1>1, <2>1, <2>2
  <2>4. q = << >>
    BY <2>3, EmptySeq
  <2>5. FlattenSeq(q) = q
    BY <2>3 DEF FlattenSeq
  <2>6. QED
    BY <2>1, <2>4, <2>5 DEF Joined
<1>3. ASSUME NEW j \in 1 .. n PROVE Joined(b, j) = Joined(b, j - 1) \o b[j]
  <2>1. PICK q, r, a : q = p(j) /\ r = p(j - 1) /\ a = b[j]
    OBVIOUS
  <2>2. j \in 0 .. n /\ j - 1 \in 0 .. n /\ j \in Nat /\ (j - 1) + 1 = j /\ j \in 1 .. j
    OBVIOUS
  <2>3. /\ q \in Seq(Seq(Plain)) /\ Len(q) = j
        /\ r \in Seq(Seq(Plain)) /\ Len(r) = j - 1
    BY <1>1, <2>1, <2>2
  <2>4. a \in Seq(Plain) /\ q[j] = a
    BY <2>1, <2>2, RegSeq
  <2>5. \A i \in 1 .. j - 1 : q[i] = r[i]
    <3>1. \A i \in 1 .. j - 1 : i \in 1 .. j
      BY <2>2
    <3>2. QED
      BY <2>1, <3>1
  <2>6. FlattenSeq(q) = FlattenSeq(r) \o a
    <3>1. Len(q) = Len(r) + 1 /\ q[Len(q)] = a /\ \A i \in 1 .. Len(r) : q[i] = r[i]
      BY <2>2, <2>3, <2>4, <2>5
    <3>2. QED
      BY <2>3, <2>4, <3>1, FlattenAppend
  <2>7. QED
    BY <2>1, <2>6 DEF Joined
<1> HIDE DEF p
<1>4. Out \in Nat
  BY Sizes
<1> DEFINE T == {j \in Nat : j <= n => Joined(b, j) \in Seq(Plain) /\ Len(Joined(b, j)) = j * Out}
<1>5. 0 \in T
  <2>1. << >> \in Seq(Plain) /\ Len(<< >>) = 0 /\ 0 * Out = 0
    BY <1>4
  <2>2. QED
    BY <1>2, <2>1
<1>6. ASSUME NEW j \in Nat, j \in T PROVE j + 1 \in T
  <2> SUFFICES ASSUME j + 1 <= n
               PROVE  Joined(b, j + 1) \in Seq(Plain) /\ Len(Joined(b, j + 1)) = (j + 1) * Out
    BY <1>6
  <2>1. PICK a, c : a = Joined(b, j) /\ c = b[j + 1]
    OBVIOUS
  <2>2. j + 1 \in 1 .. n /\ (j + 1) - 1 = j
    OBVIOUS
  <2>3. a \in Seq(Plain) /\ Len(a) = j * Out
    BY <1>6, <2>1
  <2>4. c \in Seq(Plain) /\ Len(c) = Out
    BY <2>1, <2>2, RegSeq
  <2>5. Joined(b, j + 1) = a \o c
    BY <1>3, <2>1, <2>2
  <2>6. a \o c \in Seq(Plain) /\ Len(a \o c) = Len(a) + Len(c)
    BY <2>3, <2>4, ConcatOf
  <2>7. (j + 1) * Out = j * Out + Out
    BY <1>4
  <2>8. QED
    BY <2>3, <2>4, <2>5, <2>6, <2>7
<1> HIDE DEF T
<1>7. \A j \in Nat : j \in T
  BY <1>5, <1>6, Induction
<1>8. ASSUME NEW j \in 0 .. n
      PROVE  Joined(b, j) \in Seq(Plain) /\ Len(Joined(b, j)) = j * Out
  <2>1. j \in Nat /\ j <= n
    OBVIOUS
  <2>2. j \in T
    BY <1>7, <2>1
  <2>3. QED
    BY <2>1, <2>2 DEF T
<1>9. QED
  BY <1>2, <1>3, <1>8

---------------------------------------------------------------------------
(* What the standard says.                                                 *)

\* What k and v are made from is a message.
LEMMA VType ==
    ASSUME NEW v \in Regs, NEW byte \in Nat, NEW key \in Seq(Cells)
    PROVE  v \in Seq(Cells) /\ (v \o <<Num(byte)>>) \o key \in Seq(Cells)
<1>1. v \in Seq(Cells)
  BY RegSeq
<1>2. PICK o \in Seq(Cells) : o = <<Num(byte)>>
  BY NumCells
<1>3. v \o o \in Seq(Cells)
  BY <1>1, ConcatProperties
<1>4. (v \o o) \o key \in Seq(Cells)
  BY <1>3, ConcatProperties
<1>5. QED
  BY <1>1, <1>2, <1>4

\* A step of the table is one of RFC 6979 3.2 d to g.
LEMMA StdRoundIs ==
    ASSUME Table(table), NEW x, Reg(x), NEW byte \in Nat, NEW key \in Seq(Cells),
           NEW y, IsRound(table, x, byte, key, y)
    PROVE  StdRound(x, byte, key) = [k |-> y.k, v |-> y.v] /\ Reg(y)
<1>1. PICK msg : msg = (x.v \o <<Num(byte)>>) \o key
  OBVIOUS
<1>2. msg \in Seq(Cells) /\ x.v \in Seq(Cells) /\ x.k \in Seq(Plain)
  BY <1>1, VType, RegSeq DEF Reg
<1>3. IsMac(table, x.k, msg, y.k) /\ IsMac(table, y.k, x.v, y.v)
  BY <1>1 DEF IsRound
<1>4. y.k \in Regs /\ y.v \in Regs
  BY <1>3, MacType
<1>5. y.k \in Seq(Plain)
  BY <1>4, RegSeq
<1>6. StdHmac(x.k, msg) = y.k
  BY <1>2, <1>3, StdHmacIs
<1>7. StdHmac(y.k, x.v) = y.v
  BY <1>2, <1>3, <1>5, StdHmacIs
<1>8. QED
  BY <1>1, <1>4, <1>6, <1>7 DEF StdRound, Reg

\* The seed in the table is that of RFC 6979.
LEMMA StdSeededIs ==
    ASSUME Table(table), NEW key \in Seq(Cells), NEW s \in Pairs, IsSeeded(table, key, s)
    PROVE  StdSeeded(key) = s
<1>1. PICK r : Reg(r) /\ IsRound(table, First, 0, key, r) /\ IsRound(table, r, 1, key, s)
  BY DEF IsSeeded
<1>2. PICK x : x = [k |-> r.k, v |-> r.v]
  OBVIOUS
<1>3. x.k = r.k /\ x.v = r.v
  BY <1>2
<1>4. Reg(x) /\ IsRound(table, x, 1, key, s)
  BY <1>1, <1>3 DEF Reg, IsRound
<1>5. StdRound(First, 0, key) = x
  BY <1>1, <1>2, FirstType, StdRoundIs
<1>6. StdRound(x, 1, key) = s
  BY <1>4, StdRoundIs, PairReg
<1>7. QED
  BY <1>5, <1>6 DEF StdSeeded, First

\* The blocks in the table are those of RFC 6979 3.2 h.
LEMMA StdBlocksIs ==
    ASSUME Table(table), NEW s \in Pairs, NEW n \in Nat, NEW c, IsBlocks(table, s, c, n)
    PROVE  StdBlocks(s.k, s.v, n) = c
<1>1. c \in [0 .. n -> Regs] /\ c[0] = s.v /\ s.k \in Seq(Plain)
  BY PairReg, RegSeq DEF IsBlocks, Reg
<1>2. ASSUME NEW j \in 1 .. n PROVE c[j] = StdHmac(s.k, c[j - 1])
  <2>1. j - 1 \in 0 .. n
    OBVIOUS
  <2>2. c[j - 1] \in Seq(Cells)
    BY <1>1, <2>1, RegSeq
  <2>3. IsMac(table, s.k, c[j - 1], c[j])
    BY DEF IsBlocks
  <2>4. QED
    BY <1>1, <2>2, <2>3, StdHmacIs
<1>3. c = [i \in 0 .. n |-> IF i = 0 THEN s.v ELSE StdHmac(s.k, c[i - 1])]
  <2>1. \A i \in 0 .. n : i # 0 => i \in 1 .. n
    OBVIOUS
  <2>2. \A i \in 0 .. n : c[i] = IF i = 0 THEN s.v ELSE StdHmac(s.k, c[i - 1])
    BY <1>1, <1>2, <2>1
  <2>3. QED
    BY <1>1, <2>2
<1> DEFINE B == CHOOSE d : d = [i \in 0 .. n |-> IF i = 0 THEN s.v ELSE StdHmac(s.k, d[i - 1])]
<1>4. B = [i \in 0 .. n |-> IF i = 0 THEN s.v ELSE StdHmac(s.k, B[i - 1])]
  BY <1>3
<1>5. StdBlocks(s.k, s.v, n) = B
  BY DEF StdBlocks
<1> HIDE DEF B
<1> DEFINE T == {i \in Nat : i <= n => B[i] = c[i]}
<1>6. 0 \in T
  <2>1. 0 \in 0 .. n
    OBVIOUS
  <2>2. B[0] = s.v
    BY <1>4, <2>1
  <2>3. QED
    BY <1>1, <2>2
<1>7. ASSUME NEW i \in Nat, i \in T PROVE i + 1 \in T
  <2> SUFFICES ASSUME i + 1 <= n PROVE B[i + 1] = c[i + 1]
    BY <1>7
  <2>1. i + 1 \in 1 .. n /\ i + 1 \in 0 .. n /\ i + 1 # 0 /\ (i + 1) - 1 = i /\ B[i] = c[i]
    BY <1>7
  <2>2. B[i + 1] = StdHmac(s.k, B[(i + 1) - 1])
    BY <1>4, <2>1
  <2>3. c[i + 1] = StdHmac(s.k, c[(i + 1) - 1])
    BY <1>2, <2>1
  <2>4. QED
    BY <2>1, <2>2, <2>3
<1> HIDE DEF T
<1>8. \A i \in Nat : i \in T
  BY <1>6, <1>7, Induction
<1>9. ASSUME NEW i \in 0 .. n PROVE B[i] = c[i]
  <2>1. i \in T /\ i <= n
    BY <1>8
  <2>2. QED
    BY <2>1 DEF T
<1>10. DOMAIN B = 0 .. n /\ B = [i \in 0 .. n |-> B[i]]
  BY <1>4
<1>11. c = [i \in 0 .. n |-> c[i]]
  BY <1>1
<1>12. QED
  BY <1>5, <1>9, <1>10, <1>11

\* A draw from the table is one of RFC 6979 3.2 h.
LEMMA StdOutputIs ==
    ASSUME Table(table), NEW s \in Pairs, NEW len, BlocksOf(len) \in Nat,
           NEW c, IsBlocks(table, s, c, BlocksOf(len))
    PROVE  /\ StdOutput(s, len).out = SubSeq(Joined(c, BlocksOf(len)), 1, len)
           /\ \A r \in Pairs :
                  IsRound(table, [k |-> s.k, v |-> c[BlocksOf(len)]], 0, << >>, r)
                      => StdOutput(s, len).next = r
<1>1. PICK n \in Nat : n = BlocksOf(len)
  OBVIOUS
<1>2. StdBlocks(s.k, s.v, n) = c
  BY <1>1, StdBlocksIs
<1>3. /\ StdOutput(s, len).out = SubSeq(Joined(c, n), 1, len)
      /\ StdOutput(s, len).next = StdRound([k |-> s.k, v |-> c[n]], 0, << >>)
  BY <1>1, <1>2 DEF StdOutput, BlocksOf, Joined
<1>4. ASSUME NEW r \in Pairs, IsRound(table, [k |-> s.k, v |-> c[n]], 0, << >>, r)
      PROVE  StdOutput(s, len).next = r
  <2>1. PICK x : x = [k |-> s.k, v |-> c[n]]
    OBVIOUS
  <2>2. n \in 0 .. n
    OBVIOUS
  <2>3. x.k \in Regs /\ x.v \in Regs
    BY <1>1, <2>1, <2>2, PairReg DEF IsBlocks, Reg
  <2>4. << >> \in Seq(Cells) /\ IsRound(table, x, 0, << >>, r)
    BY <1>4, <2>1
  <2>5. StdRound(x, 0, << >>) = r
    BY <2>3, <2>4, StdRoundIs, PairReg DEF Reg
  <2>6. QED
    BY <1>3, <2>1, <2>5
<1>5. QED
  BY <1>1, <1>3, <1>4

\* The draws from the table are those of RFC 6979, one after the other.
LEMMA StdDrawIs ==
    ASSUME Table(table), NEW key \in Seq(Cells), NEW len, BlocksOf(len) \in Nat,
           NEW m \in Nat \ {0}, NEW s, IsSeeds(table, key, BlocksOf(len), s, m),
           NEW c, IsBlocks(table, s[m], c, BlocksOf(len))
    PROVE  StdDraw(key, len, m) = SubSeq(Joined(c, BlocksOf(len)), 1, len)
<1>1. PICK n \in Nat : n = BlocksOf(len)
  OBVIOUS
<1>2. s \in [1 .. m -> Pairs] /\ 1 \in 1 .. m /\ m \in 1 .. m
  BY DEF IsSeeds
<1>3. s[1] = StdSeeded(key)
  BY <1>2, StdSeededIs DEF IsSeeds
<1>4. ASSUME NEW i \in 1 .. m, i # 1 PROVE s[i] = StdOutput(s[i - 1], len).next
  <2>1. i - 1 \in 1 .. m /\ i - 1 # m /\ (i - 1) + 1 = i
    BY <1>4
  <2>2. IsNext(table, s[i - 1], s[i], n)
    <3>1. IsNext(table, s[i - 1], s[(i - 1) + 1], n)
      BY <1>1, <2>1 DEF IsSeeds
    <3>2. QED
      BY <2>1, <3>1
  <2>3. PICK r \in Pairs, x \in Pairs : r = s[i] /\ x = s[i - 1]
    BY <1>2, <2>1
  <2>4. PICK d : /\ IsBlocks(table, x, d, n)
                 /\ IsRound(table, [k |-> x.k, v |-> d[n]], 0, << >>, r)
    BY <2>2, <2>3 DEF IsNext
  <2>5. StdOutput(x, len).next = r
    BY <1>1, <2>4, StdOutputIs
  <2>6. QED
    BY <2>3, <2>5
<1>5. s = [i \in 1 .. m |-> IF i = 1 THEN StdSeeded(key) ELSE StdOutput(s[i - 1], len).next]
  <2>1. \A i \in 1 .. m : s[i] = IF i = 1 THEN StdSeeded(key) ELSE StdOutput(s[i - 1], len).next
    BY <1>3, <1>4
  <2>2. QED
    BY <1>2, <2>1
<1> DEFINE D == CHOOSE d : d = [i \in 1 .. m |-> IF i = 1 THEN StdSeeded(key)
                                                 ELSE StdOutput(d[i - 1], len).next]
<1>6. D = [i \in 1 .. m |-> IF i = 1 THEN StdSeeded(key) ELSE StdOutput(D[i - 1], len).next]
  BY <1>5
<1>7. StdDraw(key, len, m) = StdOutput(D[m], len).out
  BY DEF StdDraw
<1> HIDE DEF D
<1> DEFINE T == {i \in Nat : i + 1 <= m => D[i + 1] = s[i + 1]}
<1>8. 0 \in T
  <2>1. D[1] = s[1] /\ 0 + 1 = 1
    BY <1>2, <1>3, <1>6
  <2>2. QED
    BY <2>1
<1>9. ASSUME NEW i \in Nat, i \in T PROVE i + 1 \in T
  <2> SUFFICES ASSUME (i + 1) + 1 <= m PROVE D[(i + 1) + 1] = s[(i + 1) + 1]
    BY <1>9
  <2>1. PICK j : j = (i + 1) + 1
    OBVIOUS
  <2>2. j \in 1 .. m /\ j # 1 /\ j - 1 = i + 1 /\ D[i + 1] = s[i + 1]
    BY <1>9, <2>1
  <2>3. D[j] = StdOutput(D[j - 1], len).next
    BY <1>6, <2>2
  <2>4. s[j] = StdOutput(s[j - 1], len).next
    BY <1>4, <2>2
  <2>5. QED
    BY <2>1, <2>2, <2>3, <2>4
<1> HIDE DEF T
<1>10. \A i \in Nat : i \in T
  BY <1>8, <1>9, Induction
<1>11. D[m] = s[m]
  <2>1. m - 1 \in Nat /\ (m - 1) + 1 = m /\ (m - 1) + 1 <= m
    OBVIOUS
  <2>2. D[(m - 1) + 1] = s[(m - 1) + 1]
    BY <1>10, <2>1 DEF T
  <2>3. QED
    BY <2>1, <2>2
<1>12. PICK x \in Pairs : x = s[m]
  BY <1>2
<1>13. StdOutput(x, len).out = SubSeq(Joined(c, n), 1, len)
  BY <1>1, <1>12, StdOutputIs
<1>14. QED
  BY <1>1, <1>7, <1>11, <1>12, <1>13

\* How many blocks a draw takes.
LEMMA BlocksOfIs ==
    ASSUME NEW len \in Nat
    PROVE  /\ BlocksOf(len) \in Nat
           /\ \A m \in Nat : len <= m * Out /\ (m = 0 \/ (m - 1) * Out < len) => BlocksOf(len) = m
<1>1. Out \in Nat /\ Out > 0
  BY WordAssumption DEF Out
<1>2. PICK a \in Nat : a = len + Out - 1
  BY <1>1
<1>3. BlocksOf(len) \in Nat
  BY <1>1, <1>2, Division DEF BlocksOf
<1>4. ASSUME NEW m \in Nat, len <= m * Out, m = 0 \/ (m - 1) * Out < len
      PROVE  BlocksOf(len) = m
  <2>1. PICK p \in Nat : p = m * Out
    BY <1>1
  <2>2. m = 0 \/ p - Out < len
    <3>1. (m - 1) * Out = m * Out - Out
      BY <1>1
    <3>2. QED
      BY <1>4, <2>1, <3>1
  <2>3. len <= p /\ (m = 0 => p = 0)
    BY <1>1, <1>4, <2>1
  <2>4. PICK r : r = a - p
    OBVIOUS
  <2>5. r \in 0 .. Out - 1 /\ a = p + r
    BY <1>1, <1>2, <2>1, <2>2, <2>3, <2>4
  <2>6. (m * Out + r) \div Out = m
    BY <1>1, <2>5, DivUnique
  <2>7. QED
    BY <1>2, <2>1, <2>5, <2>6 DEF BlocksOf
<1>5. QED
  BY <1>3, <1>4

\* An argument of the nonce function is a message.
LEMMA BytesType ==
    ASSUME NEW x \in Names, NEW n \in Nat
    PROVE  Bytes(x, n) \in Seq(Plain) /\ Len(Bytes(x, n)) = n
<1>1. \A i \in 1 .. n : <<x, i, {}>> \in Plain
  BY DEF Plain
<1>2. Bytes(x, n) \in [1 .. n -> Plain]
  BY <1>1 DEF Bytes
<1>3. QED
  BY <1>2, IsASeq, LenProperties

\* The algorithm's name is shorter than the other arguments.
LEMMA Halves == HalfOut \in Nat /\ Out \in Nat /\ 0 < HalfOut /\ HalfOut < Out
<1>1. PICK w \in Nat : w = WordBytes /\ w > 0
  BY WordAssumption
<1>2. Out = (4 * w) * 2 + 0
  BY <1>1 DEF Out
<1>3. 2 \in Nat /\ 2 > 0 /\ 4 * w \in Int /\ 0 \in 0 .. 2 - 1
  BY <1>1
<1>4. ((4 * w) * 2 + 0) \div 2 = 4 * w
  BY <1>3, DivUnique
<1>5. HalfOut = 4 * w
  BY <1>2, <1>4 DEF HalfOut
<1>6. QED
  BY <1>1, <1>2, <1>5

\* The key data are four parts, the last two of them optional.
LEMMA KeyDataParts ==
    ASSUME NEW a \in NonceArgs
    PROVE  \E d \in Seq(Plain), e \in Seq(Plain) :
               /\ KeyData(a) = ((Bytes(a.key, Out) \o Bytes(a.msg, Out)) \o d) \o e
               /\ d = (IF a.data = NULL THEN << >> ELSE Bytes(a.data, Out))
               /\ e = (IF a.algo = NULL THEN << >> ELSE Bytes(a.algo, HalfOut))
<1>1. PICK d, e : /\ d = (IF a.data = NULL THEN << >> ELSE Bytes(a.data, Out))
                  /\ e = (IF a.algo = NULL THEN << >> ELSE Bytes(a.algo, HalfOut))
  OBVIOUS
<1>2. a.data \in Names /\ a.algo \in Names
  BY DEF Names
<1>3. << >> \in Seq(Plain) /\ Bytes(a.data, Out) \in Seq(Plain) /\ Bytes(a.algo, HalfOut) \in Seq(Plain)
  <2>1. HalfOut \in Nat /\ Out \in Nat
    BY Halves
  <2>2. Bytes(a.data, Out) \in Seq(Plain) /\ Bytes(a.algo, HalfOut) \in Seq(Plain)
    BY <1>2, <2>1, BytesType
  <2>3. << >> \in Seq(Plain)
    OBVIOUS
  <2>4. QED
    BY <2>2, <2>3
<1>4. d \in Seq(Plain) /\ e \in Seq(Plain)
  BY <1>1, <1>3
<1>5. QED
  BY <1>1, <1>4 DEF KeyData

\* The key data are a message.
LEMMA KeyDataType == ASSUME NEW a \in NonceArgs PROVE KeyData(a) \in Seq(Plain)
<1>1. PICK d \in Seq(Plain), e \in Seq(Plain) :
          KeyData(a) = ((Bytes(a.key, Out) \o Bytes(a.msg, Out)) \o d) \o e
  BY KeyDataParts
<1>2. a.key \in Names /\ a.msg \in Names
  BY DEF Names
<1>3. PICK x \in Seq(Plain), y \in Seq(Plain) : x = Bytes(a.key, Out) /\ y = Bytes(a.msg, Out)
  BY <1>2, BytesType, Halves
<1>4. x \o y \in Seq(Plain)
  BY ConcatProperties
<1>5. (x \o y) \o d \in Seq(Plain)
  BY <1>4, ConcatProperties
<1>6. ((x \o y) \o d) \o e \in Seq(Plain)
  BY <1>5, ConcatProperties
<1>7. QED
  BY <1>1, <1>3, <1>6

---------------------------------------------------------------------------
(* The inductive invariant.                                                *)

\* The user is one that asks for a nonce.
IsNonce(u) ==
    \E a \in NonceArgs, c \in Nat :
        /\ u.who = [args |-> a, counter |-> c] /\ u.keydata = KeyData(a)
        /\ u.len = Out /\ u.total = c + 1
\* What is asked of the generator, and how many draws are still to be made.
UseOK(u) ==
    /\ u = [who |-> u.who, keydata |-> u.keydata, len |-> u.len,
            draws |-> u.draws, total |-> u.total]
    /\ u.keydata \in Seq(Plain) /\ u.len \in Nat
    /\ u.total \in Nat \ {0} /\ u.draws \in 0 .. u.total
    /\ u.who # NULL => IsNonce(u)

\* s begins the draws so far, c are the blocks of the last.
Drawn(t, u, g, s, c, j) ==
    /\ IsSeeds(t, u.keydata, BlocksOf(u.len), s, u.total - u.draws)
    /\ IsBlocks(t, s[u.total - u.draws], c, j)
    /\ g.k = s[u.total - u.draws].k /\ g.v = c[j]
\* Between the draws ...
DrawOK(t, u, g, o) ==
    IF u.draws = u.total
    THEN g.retry = 0 /\ Reg(g) /\ IsSeeded(t, u.keydata, g)
    ELSE g.retry = 1 /\ \E s, c : /\ Drawn(t, u, g, s, c, BlocksOf(u.len))
                                  /\ o = SubSeq(Joined(c, BlocksOf(u.len)), 1, u.len)
\* ... and in the middle of one, n bytes of which are still to come.
BlockOK(t, u, g, n, o) ==
    /\ u.draws # u.total /\ n \in Nat
    /\ \E s, c : \E j \in Nat :
          /\ Drawn(t, u, g, s, c, j)
          /\ IF n = 0 THEN j = BlocksOf(u.len) /\ o = SubSeq(Joined(c, j), 1, u.len)
                      ELSE n = u.len - j * Out /\ o = Joined(c, j)

\* o is the nonce of who.
NonceOf(t, who, o) ==
    \E a \in NonceArgs, n \in Nat :
        /\ who = [args |-> a, counter |-> n]
        /\ \E s, c : /\ IsSeeds(t, KeyData(a), 1, s, n + 1)
                     /\ IsBlocks(t, s[n + 1], c, 1) /\ o = c[1]
\* Every draw of the past that was a nonce is the one of its arguments.
PastOK(t, p) ==
    /\ \E S : p \in Seq(S)
    /\ \A i \in DOMAIN p : p[i].who # NULL => NonceOf(t, p[i].who, p[i].out)

\* The last code is that of its key and message.
MacOK(t, m) ==
    m # NoMac => /\ m.key \in Seq(Plain) /\ m.pieces \in Seq(Seq(Cells))
                 /\ IsMac(t, m.key, FlattenSeq(m.pieces), m.out)

\* The inductive invariant of the generator and its users.
RInv ==
    /\ Table(table) /\ where \in {"idle", "draw", "block"}
    /\ where # "idle" => UseOK(use)
    /\ where = "draw" => DrawOK(table, use, rng, output)
    /\ where = "block" => BlockOK(table, use, rng, outlen, output)
    /\ PastOK(table, past) /\ MacOK(table, mac)

\* The nonces of before stay what they were when the table grows, ...
LEMMA PastGrown ==
    ASSUME NEW t, NEW u, Grown(t, u), NEW p, PastOK(t, p)
    PROVE  PastOK(u, p)
<1>1. ASSUME NEW w, NEW o, NonceOf(t, w, o) PROVE NonceOf(u, w, o)
  BY <1>1, SeedsGrown, BlocksGrown DEF NonceOf
<1>2. QED
  BY <1>1 DEF PastOK

\* ... and so does the code.
LEMMA MacOKGrown ==
    ASSUME NEW t, NEW u, Grown(t, u), NEW m, MacOK(t, m)
    PROVE  MacOK(u, m)
BY MacGrown DEF MacOK

\* Nothing has been drawn or authenticated yet.
LEMMA RInvInit == RInit => RInv
<1> SUFFICES ASSUME RInit PROVE RInv
  OBVIOUS
<1>1. Table(table)
  <2>1. << >> \in Seq(Seq(Cells)) /\ DOMAIN << >> = {}
    OBVIOUS
  <2>2. QED
    BY <2>1 DEF RInit, Table
<1>2. PastOK(table, past)
  <2>1. << >> \in Seq({}) /\ DOMAIN << >> = {}
    OBVIOUS
  <2>2. QED
    BY <2>1 DEF RInit, PastOK
<1>3. MacOK(table, mac)
  BY DEF RInit, MacOK
<1>4. QED
  BY <1>1, <1>2, <1>3 DEF RInit, RInv

\* Setting the generator up.
LEMMA StartKeeps ==
    ASSUME RInv, NEW who, NEW keydata \in Seq(Plain), NEW len \in Nat, NEW draws \in Nat \ {0},
           Start(who, keydata, len, draws),
           who # NULL => \E a \in NonceArgs, c \in Nat :
                             /\ who = [args |-> a, counter |-> c] /\ keydata = KeyData(a)
                             /\ len = Out /\ draws = c + 1
    PROVE  RInv'
<1>1. PICK g : g = Seeded(table, keydata)
  OBVIOUS
<1>2. /\ rng' = Registers(g) /\ table' = g.table /\ where' = "draw"
      /\ use' = [who |-> who, keydata |-> keydata, len |-> len, draws |-> draws, total |-> draws]
      /\ past' = past /\ mac' = mac
  BY <1>1 DEF Start
<1>3. /\ Table(g.table) /\ Grown(table, g.table) /\ Reg(g) /\ g.retry = 0
      /\ IsSeeded(g.table, keydata, g)
  BY <1>1, SeededIs DEF RInv
<1>4. PICK r : r = Registers(g)
  OBVIOUS
<1>5. r.k = g.k /\ r.v = g.v /\ r.retry = g.retry
  BY <1>4 DEF Registers
<1>6. Reg(r) /\ IsSeeded(g.table, keydata, r)
  <2>1. Reg(r)
    BY <1>3, <1>5 DEF Reg
  <2>2. PICK x : /\ Reg(x) /\ IsRound(g.table, First, 0, keydata, x)
                 /\ IsRound(g.table, x, 1, keydata, g)
    BY <1>3 DEF IsSeeded
  <2>3. IsRound(g.table, x, 1, keydata, r)
    BY <1>5, <2>2 DEF IsRound
  <2>4. QED
    BY <2>1, <2>2, <2>3 DEF IsSeeded
<1>7. PICK u : u = use'
  OBVIOUS
<1>8. u.who = who /\ u.keydata = keydata /\ u.len = len /\ u.draws = draws /\ u.total = draws
  BY <1>2, <1>7
<1>9. UseOK(u)
  <2>1. u.who # NULL => IsNonce(u)
    BY <1>8 DEF IsNonce
  <2>2. u = [who |-> u.who, keydata |-> u.keydata, len |-> u.len,
             draws |-> u.draws, total |-> u.total]
    BY <1>2, <1>7
  <2>3. QED
    BY <1>8, <2>1, <2>2 DEF UseOK
<1>10. DrawOK(g.table, u, r, output')
  BY <1>3, <1>5, <1>6, <1>8 DEF DrawOK
<1>11. PastOK(g.table, past) /\ MacOK(g.table, mac)
  BY <1>3, PastGrown, MacOKGrown DEF RInv
<1>12. QED
  BY <1>2, <1>3, <1>4, <1>7, <1>9, <1>10, <1>11 DEF RInv

\* The beginning of a concatenation.
LEMMA SubSeqConcat ==
    ASSUME NEW S, NEW a \in Seq(S), NEW b \in Seq(S), NEW o \in Nat, o <= Len(b)
    PROVE  SubSeq(a \o b, 1, Len(a) + o) = a \o SubSeq(b, 1, o)
<1>1. PICK p \in Nat, q \in Nat : p = Len(a) /\ q = Len(b)
  BY LenProperties
<1>2. PICK c : c = a \o b
  OBVIOUS
<1>3. /\ c \in Seq(S) /\ Len(c) = p + q
      /\ \A i \in 1 .. p : c[i] = a[i]
      /\ \A i \in 1 .. q : c[p + i] = b[i]
  BY <1>1, <1>2, ConcatOf
<1>4. PICK x, y : x = SubSeq(c, 1, p + o) /\ y = SubSeq(b, 1, o)
  OBVIOUS
<1>5. y \in Seq(S) /\ Len(y) = o /\ \A i \in 1 .. o : y[i] = b[i]
  <2>1. 1 \in Nat /\ 1 <= o + 1 /\ o <= Len(b) /\ o - 1 + 1 = o /\ \A i \in 1 .. o : 1 + i - 1 = i
    BY <1>1
  <2>2. /\ SubSeq(b, 1, o) \in Seq(S) /\ Len(SubSeq(b, 1, o)) = o - 1 + 1
        /\ \A i \in 1 .. o - 1 + 1 : SubSeq(b, 1, o)[i] = b[1 + i - 1]
    BY <2>1, SubSeqOf
  <2>3. QED
    BY <1>4, <2>1, <2>2
<1>6. x \in Seq(S) /\ Len(x) = p + o /\ \A i \in 1 .. p + o : x[i] = c[i]
  <2>1. /\ 1 \in Nat /\ p + o \in Nat /\ 1 <= (p + o) + 1 /\ p + o <= Len(c)
        /\ (p + o) - 1 + 1 = p + o /\ \A i \in 1 .. p + o : 1 + i - 1 = i
    BY <1>1, <1>3
  <2>2. PICK n \in Nat : n = p + o
    OBVIOUS
  <2>3. /\ SubSeq(c, 1, n) \in Seq(S) /\ Len(SubSeq(c, 1, n)) = n - 1 + 1
        /\ \A i \in 1 .. n - 1 + 1 : SubSeq(c, 1, n)[i] = c[1 + i - 1]
    BY <1>3, <2>1, <2>2, SubSeqOf
  <2>4. QED
    BY <1>4, <2>1, <2>2, <2>3
<1>7. PICK z : z = a \o y
  OBVIOUS
<1>8. /\ z \in Seq(S) /\ Len(z) = p + o
      /\ \A i \in 1 .. p : z[i] = a[i]
      /\ \A i \in 1 .. o : z[p + i] = y[i]
  <2>1. /\ z \in Seq(S) /\ Len(z) = Len(a) + Len(y)
        /\ \A i \in 1 .. Len(a) : z[i] = a[i]
        /\ \A i \in 1 .. Len(y) : z[Len(a) + i] = y[i]
    BY <1>5, <1>7, ConcatOf
  <2>2. QED
    BY <1>1, <1>5, <2>1
<1>9. ASSUME NEW i \in 1 .. p + o PROVE x[i] = z[i]
  <2>1. i <= p \/ i > p
    BY <1>9
  <2>2. CASE i <= p
    <3>1. i \in 1 .. p
      BY <1>9, <2>2
    <3>2. QED
      BY <1>3, <1>6, <1>8, <3>1
  <2>3. CASE i > p
    <3>1. PICK j : j = i - p
      OBVIOUS
    <3>2. j \in 1 .. o /\ j \in 1 .. q /\ p + j = i
      BY <1>1, <1>9, <2>3, <3>1
    <3>3. c[p + j] = b[j] /\ z[p + j] = y[j] /\ y[j] = b[j]
      BY <1>3, <1>5, <1>8, <3>2
    <3>4. QED
      BY <1>6, <3>2, <3>3
  <2>4. QED
    BY <2>1, <2>2, <2>3
<1>10. x = z
  BY <1>6, <1>8, <1>9, SeqEqual
<1>11. QED
  BY <1>1, <1>2, <1>4, <1>7, <1>10

\* generate begins: the first draw with the seed, a later one with the
\* registers replaced.
LEMMA GenerateKeeps == ASSUME RInv, Generate PROVE RInv'
<1>1. PICK x : x = Generator
  OBVIOUS
<1>2. x.k = rng.k /\ x.v = rng.v /\ x.retry = rng.retry /\ x.table = table
  BY <1>1 DEF Generator
<1>3. PICK g : g = Reseeded(x)
  OBVIOUS
<1>4. PICK r : r = Registers(g)
  OBVIOUS
<1>5. r.k = g.k /\ r.v = g.v /\ r = [k |-> g.k, v |-> g.v, retry |-> g.retry]
  BY <1>4 DEF Registers
<1>6. /\ rng' = r /\ table' = g.table /\ use' = [use EXCEPT !.draws = @ - 1]
      /\ outlen' = use.len /\ output' = << >> /\ where' = "block"
      /\ past' = past /\ mac' = mac /\ where = "draw" /\ use.draws > 0
  BY <1>1, <1>3, <1>4 DEF Generate
<1>7. Table(table) /\ UseOK(use) /\ DrawOK(table, use, rng, output)
  BY <1>6 DEF RInv
<1>8. PICK u : u = use'
  OBVIOUS
<1>9. PICK key \in Seq(Plain), len \in Nat, total \in Nat \ {0}, draws \in Nat :
          /\ key = use.keydata /\ len = use.len /\ total = use.total /\ draws = use.draws
          /\ 0 < draws /\ draws <= total
  BY <1>6, <1>7 DEF UseOK
<1>10. /\ u = [who |-> use.who, keydata |-> key, len |-> len, draws |-> draws - 1, total |-> total]
       /\ u.who = use.who /\ u.keydata = key /\ u.len = len /\ u.total = total /\ u.draws = draws - 1
  <2>1. use = [who |-> use.who, keydata |-> key, len |-> len, draws |-> draws, total |-> total]
    BY <1>7, <1>9 DEF UseOK
  <2>2. u = [use EXCEPT !.draws = draws - 1]
    BY <1>6, <1>8, <1>9
  <2>3. u = [who |-> use.who, keydata |-> key, len |-> len, draws |-> draws - 1, total |-> total]
    BY <2>1, <2>2
  <2>4. QED
    BY <2>3
<1>11. UseOK(u)
  <2>1. u.draws \in 0 .. u.total
    BY <1>9, <1>10
  <2>2. u.who # NULL => IsNonce(u)
    BY <1>7, <1>9, <1>10 DEF UseOK, IsNonce
  <2>3. QED
    BY <1>9, <1>10, <2>1, <2>2 DEF UseOK
<1>12. PICK m \in Nat \ {0} : m = total - (draws - 1)
  BY <1>9
<1>13. u.total - u.draws = m
  BY <1>9, <1>10, <1>12
<1>14. PICK N \in Nat : N = BlocksOf(len)
  BY BlocksOfIs
<1>15. /\ Table(g.table) /\ Grown(table, g.table)
       /\ \E s : IsSeeds(g.table, key, N, s, m) /\ s[m].k = g.k /\ s[m].v = g.v
  <2>1. CASE draws = total
    <3>1. rng.retry = 0 /\ Reg(rng) /\ IsSeeded(table, key, rng)
      BY <1>7, <1>9, <2>1 DEF DrawOK
    <3>2. g = x
      BY <1>2, <1>3, <3>1 DEF Reseeded
    <3>3. PICK y \in Pairs : y.k = rng.k /\ y.v = rng.v
      <4>1. [k |-> rng.k, v |-> rng.v] \in Pairs
        BY <3>1 DEF Reg, Pairs
      <4>2. QED
        BY <4>1
    <3>4. IsSeeded(table, key, y)
      BY <3>1, <3>3 DEF IsSeeded, IsRound
    <3>5. m = 1
      BY <1>9, <1>12, <2>1
    <3>6. PICK s : s = [i \in 1 .. 1 |-> y]
      OBVIOUS
    <3>7. s \in [1 .. 1 -> Pairs] /\ s[1] = y
      BY <3>6
    <3>8. \A i \in 1 .. 1 : i = 1
      OBVIOUS
    <3>9. IsSeeds(table, key, N, s, 1)
      BY <3>4, <3>7, <3>8 DEF IsSeeds
    <3>10. QED
      BY <1>2, <1>7, <3>2, <3>3, <3>5, <3>7, <3>9, GrownRefl
  <2>2. CASE draws # total
    <3>1. PICK n \in Nat \ {0} : n = total - draws /\ n + 1 = m
      BY <1>9, <1>12, <2>2
    <3>2. PICK s, c : /\ IsSeeds(table, key, N, s, n) /\ IsBlocks(table, s[n], c, N)
                      /\ rng.k = s[n].k /\ rng.v = c[N]
      BY <1>7, <1>9, <1>14, <2>2, <3>1 DEF DrawOK, Drawn
    <3>3. rng.retry = 1
      BY <1>7, <1>9, <2>2 DEF DrawOK
    <3>4. PICK y \in Pairs : y = s[n]
      BY <3>1, <3>2 DEF IsSeeds
    <3>5. N \in 0 .. N
      OBVIOUS
    <3>6. Reg(x)
      BY <1>2, <3>2, <3>4, <3>5, PairReg DEF IsBlocks, Reg
    <3>7. /\ Table(g.table) /\ Grown(table, g.table) /\ Reg(g)
          /\ IsRound(g.table, x, 0, << >>, g)
      BY <1>2, <1>3, <1>7, <3>3, <3>6, ReseededIs
    <3>8. PICK z \in Pairs : z.k = g.k /\ z.v = g.v
      <4>1. [k |-> g.k, v |-> g.v] \in Pairs
        BY <3>7 DEF Reg, Pairs
      <4>2. QED
        BY <4>1
    <3>9. PICK w : w = [k |-> y.k, v |-> c[N]]
      OBVIOUS
    <3>10. w.k = x.k /\ w.v = x.v
      BY <1>2, <3>2, <3>4, <3>9
    <3>11. IsRound(g.table, w, 0, << >>, z)
      BY <3>7, <3>8, <3>10 DEF IsRound
    <3>12. IsBlocks(g.table, y, c, N) /\ IsSeeds(g.table, key, N, s, n)
      BY <3>2, <3>4, <3>7, BlocksGrown, SeedsGrown
    <3>13. IsNext(g.table, s[n], z, N)
      BY <3>4, <3>9, <3>11, <3>12 DEF IsNext
    <3>14. PICK d : d = [i \in 1 .. n + 1 |-> IF i = n + 1 THEN z ELSE s[i]]
      OBVIOUS
    <3>15. IsSeeds(g.table, key, N, d, n + 1) /\ d[n + 1] = z
      BY <3>12, <3>13, <3>14, SeedsMore
    <3>16. QED
      BY <3>1, <3>7, <3>8, <3>15
  <2>3. QED
    BY <2>1, <2>2
<1>16. PICK s : IsSeeds(g.table, key, N, s, m) /\ s[m].k = g.k /\ s[m].v = g.v
  BY <1>15
<1>17. PICK c : c = [i \in 0 .. 0 |-> g.v]
  OBVIOUS
<1>18. IsBlocks(g.table, s[m], c, 0) /\ c[0] = g.v
  <2>1. m \in 1 .. m
    OBVIOUS
  <2>2. s[m] \in Pairs
    BY <1>16, <2>1 DEF IsSeeds
  <2>3. g.v \in Regs
    BY <1>16, <2>2, PairReg DEF Reg
  <2>4. c \in [0 .. 0 -> Regs] /\ c[0] = g.v
    BY <1>17, <2>3
  <2>5. \A j \in 1 .. 0 : FALSE
    OBVIOUS
  <2>6. QED
    BY <1>16, <2>4, <2>5 DEF IsBlocks
<1>19. Joined(c, 0) = << >>
  <2>1. \A i \in 1 .. 0 : c[i] \in Regs
    OBVIOUS
  <2>2. QED
    BY <2>1, JoinedIs
<1>20. Drawn(g.table, u, r, s, c, 0)
  BY <1>5, <1>10, <1>13, <1>14, <1>16, <1>18 DEF Drawn
<1>21. BlockOK(g.table, u, r, len, << >>)
  <2>1. u.draws # u.total
    BY <1>9, <1>10
  <2>2. CASE len = 0
    <3>1. 0 <= 0 * Out
      BY Sizes
    <3>2. BlocksOf(0) = 0
      BY <3>1, BlocksOfIs
    <3>3. SubSeq(<< >>, 1, 0) = << >>
      OBVIOUS
    <3>4. QED
      BY <1>10, <1>19, <1>20, <2>1, <2>2, <3>2, <3>3 DEF BlockOK
  <2>3. CASE len # 0
    <3>1. len = len - 0 * Out
      BY Sizes
    <3>2. QED
      BY <1>10, <1>19, <1>20, <2>1, <2>3, <3>1 DEF BlockOK
  <2>4. QED
    BY <2>2, <2>3
<1>22. PastOK(g.table, past) /\ MacOK(g.table, mac)
  BY <1>15, PastGrown, MacOKGrown DEF RInv
<1>23. QED
  BY <1>6, <1>8, <1>9, <1>11, <1>15, <1>21, <1>22 DEF RInv

\* A block.
LEMMA BlockKeeps == ASSUME RInv, GenerateBlock PROVE RInv'
<1>1. PICK x : x = Generator
  OBVIOUS
<1>2. x.k = rng.k /\ x.v = rng.v /\ x.retry = rng.retry /\ x.table = table
  BY <1>1 DEF Generator
<1>3. PICK g : g = NextV(x)
  OBVIOUS
<1>4. PICK r : r = Registers(g)
  OBVIOUS
<1>5. r.k = g.k /\ r.v = g.v
  BY <1>4 DEF Registers
<1>6. PICK now : now = IF outlen > Out THEN Out ELSE outlen
  OBVIOUS
<1>7. /\ rng' = r /\ table' = g.table /\ use' = use
      /\ outlen' = outlen - now /\ output' = output \o SubSeq(g.v, 1, now)
      /\ where' = where /\ past' = past /\ mac' = mac /\ where = "block" /\ outlen > 0
  BY <1>1, <1>3, <1>4, <1>6 DEF GenerateBlock
<1>8. Table(table) /\ UseOK(use) /\ BlockOK(table, use, rng, outlen, output)
  BY <1>7 DEF RInv
<1>9. PICK len \in Nat, m \in Nat \ {0} :
          len = use.len /\ m = use.total - use.draws
  BY <1>8 DEF UseOK, BlockOK
<1>10. PICK s, c : \E j \in Nat : /\ Drawn(table, use, rng, s, c, j)
                                   /\ outlen = len - j * Out /\ output = Joined(c, j)
  BY <1>7, <1>8, <1>9 DEF BlockOK
<1>11. PICK j \in Nat : /\ Drawn(table, use, rng, s, c, j)
                        /\ outlen = len - j * Out /\ output = Joined(c, j)
  BY <1>10
<1>12. /\ IsSeeds(table, use.keydata, BlocksOf(len), s, m) /\ IsBlocks(table, s[m], c, j)
       /\ rng.k = s[m].k /\ rng.v = c[j]
  BY <1>9, <1>11 DEF Drawn
<1>13. PICK y \in Pairs : y = s[m]
  <2>1. m \in 1 .. m
    OBVIOUS
  <2>2. QED
    BY <1>12, <2>1 DEF IsSeeds
<1>14. Reg(x)
  <2>1. j \in 0 .. j
    OBVIOUS
  <2>2. QED
    BY <1>2, <1>12, <1>13, <2>1, PairReg DEF IsBlocks, Reg
<1>15. /\ Table(g.table) /\ Grown(table, g.table) /\ Reg(g)
       /\ g.k = x.k /\ IsMac(g.table, x.k, x.v, g.v)
  BY <1>2, <1>3, <1>8, <1>14, NextVIs
<1>16. IsSeeds(g.table, use.keydata, BlocksOf(len), s, m) /\ IsBlocks(g.table, y, c, j)
  BY <1>12, <1>13, <1>15, SeedsGrown, BlocksGrown
<1>17. PICK v \in Regs : v = g.v
  BY <1>15 DEF Reg
<1>18. IsMac(g.table, y.k, c[j], v)
  BY <1>2, <1>12, <1>13, <1>15, <1>17
<1>19. PICK d : d = [i \in 0 .. j + 1 |-> IF i = j + 1 THEN v ELSE c[i]]
  OBVIOUS
<1>20. /\ IsBlocks(g.table, y, d, j + 1) /\ d[j + 1] = v
       /\ \A i \in 0 .. j : d[i] = c[i]
  BY <1>16, <1>18, <1>19, BlocksMore
<1>21. Drawn(g.table, use, r, s, d, j + 1)
  BY <1>2, <1>5, <1>9, <1>12, <1>13, <1>15, <1>16, <1>17, <1>20 DEF Drawn
<1>22. /\ Joined(d, j + 1) = Joined(d, j) \o v /\ Joined(d, j) = output
       /\ Joined(d, j) \in Seq(Plain) /\ Len(Joined(d, j)) = j * Out
       /\ Joined(d, j + 1) \in Seq(Plain) /\ Len(Joined(d, j + 1)) = (j + 1) * Out
  <2>1. \A i \in 1 .. j + 1 : d[i] \in Regs
    <3>1. \A i \in 1 .. j + 1 : i \in 0 .. j + 1
      OBVIOUS
    <3>2. QED
      BY <1>20, <3>1 DEF IsBlocks
  <2>2. j + 1 \in Nat /\ j \in 0 .. j + 1 /\ j + 1 \in 1 .. j + 1 /\ j + 1 \in 0 .. j + 1
        /\ (j + 1) - 1 = j
    OBVIOUS
  <2>3. /\ \A i \in 1 .. j + 1 : Joined(d, i) = Joined(d, i - 1) \o d[i]
        /\ \A i \in 0 .. j + 1 : Joined(d, i) \in Seq(Plain) /\ Len(Joined(d, i)) = i * Out
    BY <2>1, <2>2, JoinedIs
  <2>4. Joined(d, j + 1) = Joined(d, (j + 1) - 1) \o d[j + 1]
    BY <2>2, <2>3
  <2>5. Joined(d, j) = Joined(c, j)
    <3>1. \A i \in 1 .. j : i \in 0 .. j
      OBVIOUS
    <3>2. [i \in 1 .. j |-> d[i]] = [i \in 1 .. j |-> c[i]]
      BY <1>20, <3>1
    <3>3. QED
      BY <3>2 DEF Joined
  <2>6. QED
    BY <1>11, <1>20, <2>2, <2>3, <2>4, <2>5
<1>23. v \in Seq(Plain) /\ Len(v) = Out
  BY RegSeq
<1>24. Out \in Nat /\ Out > 0
  BY WordAssumption DEF Out
<1>25. PICK p \in Nat : p = j * Out
  BY <1>24
<1>26. (j + 1) * Out = p + Out /\ (j + 1) - 1 = j /\ j + 1 \in Nat
  BY <1>24, <1>25
<1>27. outlen \in Nat /\ outlen = len - p
  BY <1>7, <1>11, <1>25
<1>28. BlockOK(g.table, use, r, outlen', output')
  <2>1. use.draws # use.total
    BY <1>8 DEF BlockOK
  <2>2. CASE outlen > Out
    <3>1. outlen' = outlen - Out /\ outlen' \in Nat /\ outlen' # 0 /\ outlen' = len - (j + 1) * Out
      BY <1>6, <1>7, <1>24, <1>26, <1>27, <2>2
    <3>2. SubSeq(v, 1, Out) = v
      BY <1>23
    <3>3. output' = Joined(d, j + 1)
      BY <1>6, <1>7, <1>17, <1>22, <2>2, <3>2
    <3>4. QED
      BY <1>9, <1>21, <1>26, <2>1, <3>1, <3>3 DEF BlockOK
  <2>3. CASE ~(outlen > Out)
    <3>1. now = outlen /\ outlen' = 0
      BY <1>6, <1>7, <1>27, <2>3
    <3>2. j + 1 = BlocksOf(len)
      <4>1. len <= (j + 1) * Out /\ ((j + 1) - 1) * Out < len
        BY <1>7, <1>24, <1>25, <1>26, <1>27, <2>3
      <4>2. QED
        BY <1>26, <4>1, BlocksOfIs
    <3>3. output' = SubSeq(Joined(d, j + 1), 1, len)
      <4>1. PICK a, b : a = Joined(d, j) /\ b = Joined(d, j + 1)
        OBVIOUS
      <4>2. /\ a \in Seq(Plain) /\ Len(a) = p /\ b = a \o v /\ b \in Seq(Plain) /\ Len(b) = p + Out
        BY <1>22, <1>25, <1>26, <4>1
      <4>3. PICK o \in Nat : o = outlen /\ o <= Out /\ len = p + o
        BY <1>24, <1>27, <2>3
      <4>4. SubSeq(b, 1, p + o) = a \o SubSeq(v, 1, o)
        <5>1. o <= Len(v)
          BY <1>23, <4>3
        <5>2. SubSeq(a \o v, 1, Len(a) + o) = a \o SubSeq(v, 1, o)
          BY <1>23, <4>2, <5>1, SubSeqConcat
        <5>3. QED
          BY <4>2, <5>2
      <4>5. QED
        BY <1>7, <1>17, <1>22, <3>1, <4>1, <4>3, <4>4
    <3>4. QED
      BY <1>9, <1>21, <1>26, <2>1, <3>1, <3>2, <3>3 DEF BlockOK
  <2>4. QED
    BY <2>2, <2>3
<1>29. PastOK(g.table, past) /\ MacOK(g.table, mac)
  BY <1>15, PastGrown, MacOKGrown DEF RInv
<1>30. QED
  BY <1>7, <1>8, <1>15, <1>28, <1>29 DEF RInv

\* generate returns.
LEMMA GeneratedKeeps == ASSUME RInv, Generated PROVE RInv'
<1>1. /\ rng' = [k |-> rng.k, v |-> rng.v, retry |-> 1] /\ where' = "draw"
      /\ table' = table /\ use' = use /\ outlen' = outlen /\ output' = output
      /\ past' = past /\ mac' = mac /\ where = "block" /\ outlen = 0
  BY DEF Generated
<1>2. UseOK(use) /\ BlockOK(table, use, rng, outlen, output)
  BY <1>1 DEF RInv
<1>3. PICK r : r = rng'
  OBVIOUS
<1>4. r.k = rng.k /\ r.v = rng.v /\ r.retry = 1
  BY <1>1, <1>3
<1>5. PICK s, c : \E j \in Nat : /\ Drawn(table, use, rng, s, c, j)
                                 /\ j = BlocksOf(use.len) /\ output = SubSeq(Joined(c, j), 1, use.len)
  BY <1>1, <1>2 DEF BlockOK
<1>6. Drawn(table, use, r, s, c, BlocksOf(use.len))
  BY <1>4, <1>5 DEF Drawn
<1>7. DrawOK(table, use, r, output)
  BY <1>2, <1>4, <1>5, <1>6 DEF DrawOK, BlockOK
<1>8. QED
  BY <1>1, <1>2, <1>3, <1>7 DEF RInv

\* An output of the length of a digest is the first block.
LEMMA OneBlock ==
    /\ BlocksOf(Out) = 1
    /\ \A t, s, c : IsBlocks(t, s, c, 1) => SubSeq(Joined(c, 1), 1, Out) = c[1]
<1>1. BlocksOf(Out) = 1
  <2>1. Out \in Nat /\ Out > 0 /\ Out <= 1 * Out /\ (1 - 1) * Out < Out
    BY WordAssumption DEF Out
  <2>2. QED
    BY <2>1, BlocksOfIs
<1>2. ASSUME NEW t, NEW s, NEW c, IsBlocks(t, s, c, 1)
      PROVE  SubSeq(Joined(c, 1), 1, Out) = c[1]
  <2>1. 1 \in Nat /\ 1 \in 0 .. 1 /\ 1 \in 1 .. 1 /\ 1 - 1 = 0 /\ \A i \in 1 .. 1 : i \in 0 .. 1
    OBVIOUS
  <2>2. c[1] \in Regs /\ \A i \in 1 .. 1 : c[i] \in Regs
    BY <1>2, <2>1 DEF IsBlocks
  <2>3. Joined(c, 0) = << >> /\ \A j \in 1 .. 1 : Joined(c, j) = Joined(c, j - 1) \o c[j]
    BY <2>1, <2>2, JoinedIs
  <2>4. Joined(c, 1) = Joined(c, 0) \o c[1]
    BY <2>1, <2>3
  <2>5. PICK v \in Seq(Plain) : v = c[1] /\ Len(v) = Out
    BY <2>2, RegSeq
  <2>6. << >> \o v = v /\ SubSeq(v, 1, Len(v)) = v
    OBVIOUS
  <2>7. QED
    BY <2>3, <2>4, <2>5, <2>6
<1>3. QED
  BY <1>1, <1>2

\* The user takes the last output; a nonce is one block.
LEMMA FinalizeKeeps == ASSUME RInv, RngFinalize PROVE RInv'
<1>1. PICK e : e = [who |-> use.who, out |-> output]
  OBVIOUS
<1>2. /\ where' = "idle" /\ table' = table /\ past' = Append(past, e) /\ mac' = mac
      /\ where = "draw" /\ use.draws = 0
  BY <1>1 DEF RngFinalize
<1>3. UseOK(use) /\ DrawOK(table, use, rng, output)
  BY <1>2 DEF RInv
<1>4. ASSUME use.who # NULL PROVE NonceOf(table, use.who, output)
  <2>1. PICK a \in NonceArgs, n \in Nat :
            /\ use.who = [args |-> a, counter |-> n] /\ use.keydata = KeyData(a)
            /\ use.len = Out /\ use.total = n + 1
    BY <1>3, <1>4 DEF UseOK, IsNonce
  <2>2. BlocksOf(Out) = 1
    BY OneBlock
  <2>3. use.draws # use.total /\ use.total - use.draws = n + 1
    BY <1>2, <2>1
  <2>4. PICK s, c : /\ Drawn(table, use, rng, s, c, 1)
                    /\ output = SubSeq(Joined(c, 1), 1, Out)
    BY <1>3, <2>1, <2>2, <2>3 DEF DrawOK
  <2>5. IsSeeds(table, KeyData(a), 1, s, n + 1) /\ IsBlocks(table, s[n + 1], c, 1)
    BY <2>1, <2>2, <2>3, <2>4 DEF Drawn
  <2>6. output = c[1]
    BY <2>4, <2>5, OneBlock
  <2>7. QED
    BY <2>1, <2>5, <2>6 DEF NonceOf
<1>5. PastOK(table, Append(past, e))
  <2>1. PICK S : past \in Seq(S)
    BY DEF RInv, PastOK
  <2>2. PICK W : W = S \cup {e}
    OBVIOUS
  <2>3. past \in Seq(W) /\ e \in W
    BY <2>1, <2>2, SeqMonotonic
  <2>4. PICK q : q = Append(past, e)
    OBVIOUS
  <2>5. PICK l \in Nat : l = Len(past)
    BY <2>3, LenProperties
  <2>6. /\ q \in Seq(W) /\ Len(q) = Len(past) + 1 /\ q[Len(past) + 1] = e
        /\ \A i \in 1 .. Len(past) : q[i] = past[i]
    BY <2>3, <2>4, AppendProperties
  <2>7. DOMAIN q = 1 .. l + 1 /\ DOMAIN past = 1 .. l
    <3>1. DOMAIN q = 1 .. Len(q) /\ DOMAIN past = 1 .. Len(past)
      BY <2>3, <2>6, LenProperties
    <3>2. QED
      BY <2>5, <2>6, <3>1
  <2>8. ASSUME NEW i \in DOMAIN q, q[i].who # NULL
        PROVE  NonceOf(table, q[i].who, q[i].out)
    <3>1. i \in 1 .. l \/ i = l + 1
      BY <2>5, <2>7
    <3>2. CASE i \in 1 .. l
      <4>1. q[i] = past[i] /\ i \in DOMAIN past
        BY <2>5, <2>6, <2>7, <3>2
      <4>2. QED
        BY <2>8, <4>1 DEF RInv, PastOK
    <3>3. CASE i = l + 1
      <4>1. q[i] = e /\ e.who = use.who /\ e.out = output
        BY <1>1, <2>5, <2>6, <3>3
      <4>2. QED
        BY <1>4, <2>8, <4>1
    <3>4. QED
      BY <3>1, <3>2, <3>3
  <2>9. QED
    BY <2>4, <2>6, <2>8 DEF PastOK
<1>6. QED
  BY <1>2, <1>5 DEF RInv

\* A code is calculated (the HMAC functions).
LEMMA AuthenticateKeeps ==
    ASSUME RInv, NEW a \in Macs, Authenticate(a) PROVE RInv'
<1>1. PICK d : d = Hmac(table, a.key, a.pieces)
  OBVIOUS
<1>2. /\ table' = d.table /\ mac' = [key |-> a.key, pieces |-> a.pieces, out |-> d.out]
      /\ where' = where /\ past' = past /\ where = "idle"
  BY <1>1 DEF Authenticate
<1>3. Byte \subseteq Plain /\ Byte \subseteq Cells
  BY CellsAbove DEF Cell
<1>4. a.key \in Seq(Plain)
  BY <1>3, MacsAssumption, SeqMonotonic
<1>5. a.pieces \in Seq(Seq(Cells))
  <2>1. Seq(Byte) \subseteq Seq(Cells)
    BY <1>3, SeqMonotonic
  <2>2. a.pieces \in Seq(Seq(Byte))
    BY MacsAssumption
  <2>3. QED
    BY <2>1, <2>2, SeqMonotonic
<1>6. Table(d.table) /\ Grown(table, d.table) /\ IsMac(d.table, a.key, FlattenSeq(a.pieces), d.out)
  BY <1>1, <1>4, <1>5, HmacIs DEF RInv
<1>7. PICK m : m = mac'
  OBVIOUS
<1>8. m.key = a.key /\ m.pieces = a.pieces /\ m.out = d.out
  BY <1>2, <1>7
<1>9. MacOK(d.table, m)
  BY <1>4, <1>5, <1>6, <1>8 DEF MacOK
<1>10. PastOK(d.table, past)
  BY <1>6, PastGrown DEF RInv
<1>11. QED
  BY <1>2, <1>6, <1>7, <1>9, <1>10 DEF RInv

\* Every step of the generator and its users keeps the invariant.
LEMMA RInvNext == RInv /\ [RNext]_rvars => RInv'
<1> SUFFICES ASSUME RInv, [RNext]_rvars PROVE RInv'
  OBVIOUS
<1>1. ASSUME NEW a \in NonceArgs, NEW n \in 0 .. MaxCounter, NonceFunction(a, n) PROVE RInv'
  <2>1. n \in Nat /\ n + 1 \in Nat \ {0}
    BY DrawsAssumption
  <2>2. PICK w : w = [args |-> a, counter |-> n]
    OBVIOUS
  <2>3. Start(w, KeyData(a), Out, n + 1)
    BY <1>1, <2>2 DEF NonceFunction
  <2>4. KeyData(a) \in Seq(Plain) /\ Out \in Nat
    BY KeyDataType, Sizes
  <2>5. PICK k \in Seq(Plain), l \in Nat, d \in Nat \ {0} : k = KeyData(a) /\ l = Out /\ d = n + 1
    BY <2>1, <2>4
  <2>6. w # NULL => \E b \in NonceArgs, c \in Nat :
                        /\ w = [args |-> b, counter |-> c] /\ k = KeyData(b) /\ l = Out /\ d = c + 1
    BY <2>1, <2>2, <2>5
  <2>7. Start(w, k, l, d)
    BY <2>3, <2>5
  <2>8. QED
    BY <2>6, <2>7, StartKeeps
<1>2. ASSUME NEW len \in StreamLengths, NEW n \in 1 .. 2, Stream("a", len, n) PROVE RInv'
  <2>1. len \in Nat /\ n \in Nat \ {0}
    BY DrawsAssumption
  <2>2. Bytes("a", Out) \in Seq(Plain)
    BY BytesType, Sizes DEF Names
  <2>3. Start(NULL, Bytes("a", Out), len, n)
    BY <1>2 DEF Stream
  <2>4. PICK k, w : k = Bytes("a", Out) /\ w = NULL /\ k \in Seq(Plain)
    BY <2>2
  <2>5. Start(w, k, len, n)
    BY <2>3, <2>4
  <2>6. QED
    BY <2>1, <2>4, <2>5, StartKeeps
<1>3. ASSUME UNCHANGED rvars PROVE RInv'
  <2>1. /\ table' = table /\ rng' = rng /\ where' = where /\ use' = use /\ outlen' = outlen
        /\ output' = output /\ past' = past /\ mac' = mac
    BY <1>3 DEF rvars
  <2>2. QED
    BY <2>1 DEF RInv
<1>4. QED
  BY <1>1, <1>2, <1>3, GenerateKeeps, BlockKeeps, GeneratedKeeps, FinalizeKeeps,
     AuthenticateKeeps DEF RNext

\* What is in the generator between the calls of its users
\* (rfc6979_hmac_sha256_initialize, _generate, _finalize): seeded with the key
\* data, and after each draw the registers that RFC 6979 has there, all from a
\* table in which no two streams have the same digest.
THEOREM GeneratorInvariant == RSpec => []RInv
<1>1. RInit => RInv
  BY RInvInit
<1>2. RInv /\ [RNext]_rvars => RInv'
  BY RInvNext
<1>3. QED
  BY <1>1, <1>2, PTL DEF RSpec

\* The invariant has the code that was calculated last in it.
LEMMA RInvMac == RInv => MacRight
<1> SUFFICES ASSUME RInv, mac # NoMac PROVE mac.out = StdHmac(mac.key, FlattenSeq(mac.pieces))
  BY DEF MacRight
<1>1. /\ Table(table) /\ mac.key \in Seq(Plain) /\ mac.pieces \in Seq(Seq(Cells))
      /\ IsMac(table, mac.key, FlattenSeq(mac.pieces), mac.out)
  BY DEF RInv, MacOK
<1>2. PICK f : Partials(f, mac.pieces, Cells) /\ FlattenSeq(mac.pieces) = f[Len(mac.pieces)]
  BY <1>1, FlattenPartials
<1>3. Len(mac.pieces) \in 0 .. Len(mac.pieces)
  BY <1>1, LenProperties
<1>4. FlattenSeq(mac.pieces) \in Seq(Cells)
  BY <1>2, <1>3 DEF Partials
<1>5. QED
  BY <1>1, <1>4, StdHmacIs

\* The invariant has the draw that was made last in it.
LEMMA RInvOutput == RInv => OutputRight
<1> SUFFICES ASSUME RInv, where = "block", outlen = 0
             PROVE  output = StdDraw(use.keydata, use.len, use.total - use.draws)
  BY DEF OutputRight
<1>1. Table(table) /\ UseOK(use) /\ BlockOK(table, use, rng, outlen, output)
  BY DEF RInv
<1>2. PICK s, c : \E j \in Nat : /\ Drawn(table, use, rng, s, c, j)
                                 /\ j = BlocksOf(use.len) /\ output = SubSeq(Joined(c, j), 1, use.len)
  BY <1>1 DEF BlockOK
<1>3. PICK m \in Nat \ {0}, key \in Seq(Plain), len \in Nat :
          m = use.total - use.draws /\ key = use.keydata /\ len = use.len
  BY <1>1 DEF UseOK, BlockOK
<1>4. PICK n \in Nat : n = BlocksOf(len)
  BY BlocksOfIs
<1>5. IsSeeds(table, key, n, s, m) /\ IsBlocks(table, s[m], c, n) /\ output = SubSeq(Joined(c, n), 1, len)
  BY <1>2, <1>3, <1>4 DEF Drawn
<1>6. key \in Seq(Cells)
  BY CellsAbove, SeqMonotonic
<1>7. StdDraw(key, len, m) = SubSeq(Joined(c, n), 1, len)
  BY <1>1, <1>4, <1>5, <1>6, StdDrawIs
<1>8. QED
  BY <1>3, <1>5, <1>7

---------------------------------------------------------------------------
(* Different nonces.                                                       *)

\* A digest is of one message.
LEMMA OneSource ==
    ASSUME NEW t, Table(t), NEW m \in Seq(Cells), NEW n \in Seq(Cells), NEW d,
           Is(t, m, d), Is(t, n, d)
    PROVE  m = n
BY IsUnique

\* k is some message's digest.
IsDigest(k) == \E n \in Nat : k = DigestOf(n)

\* Two codes under digests as keys are the same only if keys and messages are.
LEMMA MacApart ==
    ASSUME NEW t, Table(t), NEW k, NEW l, IsDigest(k), IsDigest(l),
           NEW m \in Seq(Cells), NEW n \in Seq(Cells), NEW d,
           IsMac(t, k, m, d), IsMac(t, l, n, d)
    PROVE  k = l /\ m = n
<1>1. PICK i \in Nat, j \in Nat : k = DigestOf(i) /\ l = DigestOf(j)
  BY DEF IsDigest
<1>2. k \in Seq(Plain) /\ Len(k) = Out /\ l \in Seq(Plain) /\ Len(l) = Out
  BY <1>1, DigestType
<1>3. Out \in Nat /\ 1 \in 1 .. Out /\ Out <= Block
  BY WordAssumption DEF Out, Block
<1>4. PICK a, p : IsKey(t, k, a) /\ Is(t, Masked(a, {"36"}) \o m, p)
                  /\ Is(t, Masked(a, {"5c"}) \o p, d)
  BY DEF IsMac
<1>5. PICK b, q : IsKey(t, l, b) /\ Is(t, Masked(b, {"36"}) \o n, q)
                  /\ Is(t, Masked(b, {"5c"}) \o q, d)
  BY DEF IsMac
<1>6. /\ a \in Seq(Plain) /\ Len(a) = Block /\ b \in Seq(Plain) /\ Len(b) = Block
  BY <1>2, <1>4, <1>5, KeyType
<1>7. a[1] = k[1] /\ b[1] = l[1]
  <2>1. Len(k) <= Block /\ Len(l) <= Block
    BY <1>2, <1>3
  <2>2. a = k \o Zeros(Block - Len(k)) /\ b = l \o Zeros(Block - Len(l))
    BY <1>4, <1>5, <2>1 DEF IsKey
  <2>3. \A x \in 1 .. Len(k) : (k \o Zeros(Block - Len(k)))[x] = k[x]
    BY <1>2, <2>1, ZeroFill
  <2>4. \A x \in 1 .. Len(l) : (l \o Zeros(Block - Len(l)))[x] = l[x]
    BY <1>2, <2>1, ZeroFill
  <2>5. QED
    BY <1>2, <1>3, <2>2, <2>3, <2>4
<1>8. PICK ai, ao, bi, bo : /\ ai = Masked(a, {"36"}) /\ ao = Masked(a, {"5c"})
                            /\ bi = Masked(b, {"36"}) /\ bo = Masked(b, {"5c"})
  OBVIOUS
<1>9. /\ ai \in Seq(Cells) /\ ao \in Seq(Cells) /\ bi \in Seq(Cells) /\ bo \in Seq(Cells)
      /\ Len(ai) = Block /\ Len(ao) = Block /\ Len(bi) = Block /\ Len(bo) = Block
      /\ ai[1] = Mask(k[1], {"36"}) /\ bi[1] = Mask(l[1], {"36"})
  <2>1. {"5c"} \in SUBSET {"5c", "36"} /\ {"36"} \in SUBSET {"5c", "36"} /\ 1 \in 1 .. Block
    BY <1>3, Sizes
  <2>2. /\ ai \in Seq(Cells) /\ Len(ai) = Len(a) /\ ai[1] = Mask(a[1], {"36"})
        /\ bi \in Seq(Cells) /\ Len(bi) = Len(b) /\ bi[1] = Mask(b[1], {"36"})
    BY <1>6, <1>8, <2>1, MaskedOf
  <2>3. ao \in Seq(Cells) /\ Len(ao) = Len(a) /\ bo \in Seq(Cells) /\ Len(bo) = Len(b)
    BY <1>6, <1>8, <2>1, MaskedOf
  <2>4. QED
    BY <1>6, <1>7, <2>2, <2>3
<1>10. p \in Seq(Cells) /\ q \in Seq(Cells)
  BY <1>4, <1>5, IsType
<1>11. p = q
  <2>1. ao \o p \in Seq(Cells) /\ bo \o q \in Seq(Cells)
    BY <1>9, <1>10, ConcatOf
  <2>2. Is(t, ao \o p, d) /\ Is(t, bo \o q, d)
    BY <1>4, <1>5, <1>8
  <2>3. ao \o p = bo \o q
    BY <2>1, <2>2, OneSource
  <2>4. QED
    BY <1>9, <1>10, <2>3, ConcatEqual
<1>12. ai = bi /\ m = n
  <2>1. ai \o m \in Seq(Cells) /\ bi \o n \in Seq(Cells)
    BY <1>9, ConcatOf
  <2>2. Is(t, ai \o m, p) /\ Is(t, bi \o n, p)
    BY <1>4, <1>5, <1>8, <1>11
  <2>3. ai \o m = bi \o n
    BY <2>1, <2>2, OneSource
  <2>4. QED
    BY <1>9, <2>3, ConcatEqual
<1>13. i = j
  <2>1. k[1] = <<"digest", <<i, 1>>, {}>> /\ l[1] = <<"digest", <<j, 1>>, {}>>
    BY <1>1, <1>3 DEF DigestOf
  <2>2. ai[1][2] = <<i, 1>> /\ bi[1][2] = <<j, 1>>
    BY <1>9, <2>1 DEF Mask
  <2>3. <<i, 1>> = <<j, 1>>
    BY <1>12, <2>2
  <2>4. QED
    BY <2>3
<1>14. QED
  BY <1>1, <1>12, <1>13

\* A code is a digest.
LEMMA MacDigest ==
    ASSUME NEW t, Table(t), NEW key, NEW msg, NEW d, IsMac(t, key, msg, d)
    PROVE  IsDigest(d)
BY MacType DEF IsDigest

\* Steps that end alike began alike, with the same byte and key data.
LEMMA RoundApart ==
    ASSUME NEW t, Table(t), NEW x, NEW y, Reg(x), Reg(y), IsDigest(x.k), IsDigest(y.k),
           NEW b \in Nat, NEW c \in Nat, NEW key \in Seq(Cells), NEW ley \in Seq(Cells),
           NEW z, IsRound(t, x, b, key, z), IsRound(t, y, c, ley, z)
    PROVE  x.k = y.k /\ x.v = y.v /\ b = c /\ key = ley
<1>1. PICK o, p : o = <<Num(b)>> /\ p = <<Num(c)>>
  OBVIOUS
<1>2. o \in Seq(Cells) /\ p \in Seq(Cells)
  BY <1>1, NumCells
<1>3. Len(o) = 1 /\ Len(p) = 1 /\ o[1] = Num(b) /\ p[1] = Num(c)
  BY <1>1
<1>4. PICK v, w : v = x.v /\ w = y.v
  OBVIOUS
<1>5. v \in Seq(Cells) /\ w \in Seq(Cells) /\ Len(v) = Out /\ Len(w) = Out
  BY <1>4, RegSeq DEF Reg
<1>6. /\ IsMac(t, x.k, (v \o o) \o key, z.k) /\ IsMac(t, z.k, v, z.v)
      /\ IsMac(t, y.k, (w \o p) \o ley, z.k) /\ IsMac(t, z.k, w, z.v)
  BY <1>1, <1>4 DEF IsRound
<1>7. IsDigest(z.k)
  BY <1>6, MacDigest
<1>8. v = w
  BY <1>5, <1>6, <1>7, MacApart
<1>9. PICK f, g : f = v \o o /\ g = w \o p
  OBVIOUS
<1>10. f \in Seq(Cells) /\ g \in Seq(Cells) /\ Len(f) = Len(g)
  <2>1. /\ f \in Seq(Cells) /\ Len(f) = Len(v) + Len(o)
        /\ g \in Seq(Cells) /\ Len(g) = Len(w) + Len(p)
    BY <1>2, <1>5, <1>9, ConcatOf
  <2>2. QED
    BY <1>3, <1>5, <2>1
<1>11. f \o key \in Seq(Cells) /\ g \o ley \in Seq(Cells)
  BY <1>10, ConcatOf
<1>12. x.k = y.k /\ f \o key = g \o ley
  BY <1>6, <1>9, <1>11, MacApart
<1>13. f = g /\ key = ley
  BY <1>10, <1>12, ConcatEqual
<1>14. o = p
  <2>1. v \o o = w \o p /\ Len(v) = Len(w)
    BY <1>5, <1>9, <1>13
  <2>2. QED
    BY <1>2, <1>5, <2>1, ConcatEqual
<1>15. b = c
  <2>1. Num(b) = Num(c)
    BY <1>3, <1>14
  <2>2. QED
    BY <2>1 DEF Num
<1>16. QED
  BY <1>4, <1>8, <1>12, <1>13, <1>15

\* What a next draw begins with, as a step.
LEMMA NextRound ==
    ASSUME NEW t, Table(t), NEW s \in Pairs, IsDigest(s.k), NEW r, IsNext(t, s, r, 1)
    PROVE  \E x : /\ Reg(x) /\ IsDigest(x.k) /\ x.k = s.k
                  /\ IsMac(t, s.k, s.v, x.v) /\ IsRound(t, x, 0, << >>, r)
<1>1. PICK b : IsBlocks(t, s, b, 1) /\ IsRound(t, [k |-> s.k, v |-> b[1]], 0, << >>, r)
  BY DEF IsNext
<1>2. 1 \in 0 .. 1 /\ 1 \in 1 .. 1 /\ 1 - 1 = 0
  OBVIOUS
<1>3. b[1] \in Regs /\ b[0] = s.v /\ IsMac(t, s.k, b[1 - 1], b[1])
  BY <1>1, <1>2 DEF IsBlocks
<1>4. PICK x : x = [k |-> s.k, v |-> b[1]]
  OBVIOUS
<1>5. x.k = s.k /\ x.v = b[1]
  BY <1>4
<1>6. IsMac(t, s.k, s.v, x.v) /\ Reg(x)
  BY <1>2, <1>3, <1>5, PairReg DEF Reg
<1>7. QED
  BY <1>1, <1>4, <1>5, <1>6

\* Draws that end alike began alike.
LEMMA NextApart ==
    ASSUME NEW t, Table(t), NEW s \in Pairs, NEW u \in Pairs, IsDigest(s.k), IsDigest(u.k),
           NEW r, IsNext(t, s, r, 1), IsNext(t, u, r, 1)
    PROVE  s = u
<1>1. PICK x : /\ Reg(x) /\ IsDigest(x.k) /\ x.k = s.k
               /\ IsMac(t, s.k, s.v, x.v) /\ IsRound(t, x, 0, << >>, r)
  BY NextRound
<1>2. PICK y : /\ Reg(y) /\ IsDigest(y.k) /\ y.k = u.k
               /\ IsMac(t, u.k, u.v, y.v) /\ IsRound(t, y, 0, << >>, r)
  BY NextRound
<1>3. << >> \in Seq(Cells) /\ 0 \in Nat
  OBVIOUS
<1>4. x.k = y.k /\ x.v = y.v
  <2>1. PICK e \in Seq(Cells), n \in Nat : e = << >> /\ n = 0
    BY <1>3
  <2>2. IsRound(t, x, n, e, r) /\ IsRound(t, y, n, e, r)
    BY <1>1, <1>2, <2>1
  <2>3. QED
    BY <1>1, <1>2, <2>2, RoundApart
<1>5. s.v \in Seq(Cells) /\ u.v \in Seq(Cells)
  BY PairReg, RegSeq DEF Reg
<1>6. PICK d : d = x.v
  OBVIOUS
<1>7. IsMac(t, s.k, s.v, d) /\ IsMac(t, u.k, u.v, d)
  BY <1>1, <1>2, <1>4, <1>6
<1>8. s.k = u.k /\ s.v = u.v
  BY <1>5, <1>7, MacApart
<1>9. QED
  BY <1>8, PairReg

\* The registers a seed leaves, as a step.
LEMMA SeedRound ==
    ASSUME NEW t, Table(t), NEW key, NEW s, IsSeeded(t, key, s)
    PROVE  \E x : Reg(x) /\ IsDigest(x.k) /\ IsRound(t, x, 1, key, s)
<1>1. PICK x : Reg(x) /\ IsRound(t, First, 0, key, x) /\ IsRound(t, x, 1, key, s)
  BY DEF IsSeeded
<1>2. IsMac(t, First.k, (First.v \o <<Num(0)>>) \o key, x.k)
  BY <1>1 DEF IsRound
<1>3. IsDigest(x.k)
  BY <1>2, MacDigest
<1>4. QED
  BY <1>1, <1>3

\* Every k that a draw begins with is a digest.
LEMMA SeedsDigest ==
    ASSUME NEW t, Table(t), NEW key, NEW n, NEW s, NEW m \in Nat \ {0}, IsSeeds(t, key, n, s, m),
           NEW i \in 1 .. m
    PROVE  IsDigest(s[i].k) /\ s[i] \in Pairs
<1>1. s[i] \in Pairs
  BY DEF IsSeeds
<1>2. CASE i = 1
  <2>1. PICK x : IsRound(t, x, 1, key, s[1])
    BY SeedRound DEF IsSeeds
  <2>2. IsMac(t, x.k, (x.v \o <<Num(1)>>) \o key, s[1].k)
    BY <2>1 DEF IsRound
  <2>3. QED
    BY <1>1, <1>2, <2>2, MacDigest
<1>3. CASE i # 1
  <2>1. i - 1 \in 1 .. m /\ i - 1 # m /\ (i - 1) + 1 = i
    BY <1>3
  <2>2. IsNext(t, s[i - 1], s[(i - 1) + 1], n)
    BY <2>1 DEF IsSeeds
  <2>3. IsNext(t, s[i - 1], s[i], n)
    BY <2>1, <2>2
  <2>4. PICK x : IsRound(t, x, 0, << >>, s[i])
    BY <2>3 DEF IsNext
  <2>5. IsMac(t, x.k, (x.v \o <<Num(0)>>) \o << >>, s[i].k)
    BY <2>4 DEF IsRound
  <2>6. QED
    BY <1>1, <2>5, MacDigest
<1>4. QED
  BY <1>2, <1>3

\* As many draws before the same registers lead back to the seeds.
LEMMA Unwind ==
    ASSUME NEW t, Table(t), NEW key \in Seq(Cells), NEW ley \in Seq(Cells),
           NEW m \in Nat \ {0}, NEW l \in Nat \ {0}, NEW s, NEW u,
           IsSeeds(t, key, 1, s, m), IsSeeds(t, ley, 1, u, l), s[m] = u[l], m <= l
    PROVE  m = l /\ key = ley
<1> DEFINE T == {i \in Nat : i < m => s[m - i] = u[l - i]}
<1>1. 0 \in T
  <2>1. m - 0 = m /\ l - 0 = l
    OBVIOUS
  <2>2. QED
    BY <2>1
<1>2. ASSUME NEW i \in Nat, i \in T PROVE i + 1 \in T
  <2> SUFFICES ASSUME i + 1 < m PROVE s[m - (i + 1)] = u[l - (i + 1)]
    BY <1>2
  <2>1. PICK p, q : p = m - (i + 1) /\ q = l - (i + 1)
    OBVIOUS
  <2>2. /\ p \in 1 .. m /\ p # m /\ p + 1 = m - i
        /\ q \in 1 .. l /\ q # l /\ q + 1 = l - i
    BY <2>1
  <2>3. PICK r : r = s[p + 1]
    OBVIOUS
  <2>4. r = u[q + 1]
    BY <1>2, <2>2, <2>3
  <2>5. IsNext(t, s[p], r, 1) /\ IsNext(t, u[q], r, 1)
    BY <2>2, <2>3, <2>4 DEF IsSeeds
  <2>6. /\ s[p] \in Pairs /\ IsDigest(s[p].k)
        /\ u[q] \in Pairs /\ IsDigest(u[q].k)
    BY <2>2, SeedsDigest
  <2>7. s[p] = u[q]
    BY <2>5, <2>6, NextApart
  <2>8. QED
    BY <2>1, <2>7
<1> HIDE DEF T
<1>3. \A i \in Nat : i \in T
  BY <1>1, <1>2, Induction
<1>4. PICK j : j = l - (m - 1)
  OBVIOUS
<1>5. s[1] = u[j] /\ j \in 1 .. l
  <2>1. m - 1 \in Nat /\ m - 1 < m /\ m - (m - 1) = 1
    OBVIOUS
  <2>2. s[m - (m - 1)] = u[l - (m - 1)]
    BY <1>3, <2>1 DEF T
  <2>3. QED
    BY <1>4, <2>1, <2>2
<1>6. PICK x : Reg(x) /\ IsDigest(x.k) /\ IsRound(t, x, 1, key, s[1])
  BY SeedRound DEF IsSeeds
<1>7. m = l
  <2> SUFFICES ASSUME m # l PROVE FALSE
    OBVIOUS
  <2>1. j - 1 \in 1 .. l /\ j - 1 # l /\ (j - 1) + 1 = j
    BY <1>4
  <2>2. IsNext(t, u[j - 1], u[(j - 1) + 1], 1)
    BY <2>1 DEF IsSeeds
  <2>3. IsNext(t, u[j - 1], s[1], 1)
    BY <1>5, <2>1, <2>2
  <2>4. u[j - 1] \in Pairs /\ IsDigest(u[j - 1].k)
    BY <2>1, SeedsDigest
  <2>5. PICK y : Reg(y) /\ IsDigest(y.k) /\ IsRound(t, y, 0, << >>, s[1])
    BY <2>3, <2>4, NextRound
  <2>6. PICK e, n, o : e = << >> /\ n = 0 /\ o = 1 /\ e \in Seq(Cells) /\ n \in Nat /\ o \in Nat
    <3>1. << >> \in Seq(Cells) /\ 0 \in Nat /\ 1 \in Nat
      OBVIOUS
    <3>2. QED
      BY <3>1
  <2>7. o = n
    <3>1. IsRound(t, x, o, key, s[1]) /\ IsRound(t, y, n, e, s[1])
      BY <1>6, <2>5, <2>6
    <3>2. e \in Seq(Cells) /\ n \in Nat /\ o \in Nat
      BY <2>6
    <3>3. QED
      BY <1>6, <2>5, <3>1, <3>2, RoundApart
  <2>8. QED
    BY <2>6, <2>7
<1>8. key = ley
  <2>1. j = 1
    BY <1>4, <1>7
  <2>2. IsSeeded(t, ley, s[1])
    BY <1>5, <2>1 DEF IsSeeds
  <2>3. PICK y : Reg(y) /\ IsDigest(y.k) /\ IsRound(t, y, 1, ley, s[1])
    BY <2>2, SeedRound
  <2>4. 1 \in Nat
    OBVIOUS
  <2>5. QED
    BY <1>6, <2>3, <2>4, RoundApart
<1>9. QED
  BY <1>7, <1>8

\* Arguments with the same bytes are the same.
LEMMA BytesApart ==
    ASSUME NEW x, NEW y, NEW n \in Nat \ {0}, Bytes(x, n) = Bytes(y, n)
    PROVE  x = y
<1>1. 1 \in 1 .. n
  OBVIOUS
<1>2. Bytes(x, n)[1] = <<x, 1, {}>> /\ Bytes(y, n)[1] = <<y, 1, {}>>
  BY <1>1 DEF Bytes
<1>3. QED
  BY <1>2

\* "The arguments have distinct fixed lengths": no mixture of them emulates
\* another.
LEMMA KeyDataApart ==
    ASSUME NEW a \in NonceArgs, NEW b \in NonceArgs, KeyData(a) = KeyData(b)
    PROVE  a = b
<1>1. PICK O \in Nat \ {0}, H \in Nat \ {0} : O = Out /\ H = HalfOut /\ H < O
  BY Halves
<1>2. PICK d \in Seq(Plain), e \in Seq(Plain) :
          /\ KeyData(a) = ((Bytes(a.key, Out) \o Bytes(a.msg, Out)) \o d) \o e
          /\ d = (IF a.data = NULL THEN << >> ELSE Bytes(a.data, Out))
          /\ e = (IF a.algo = NULL THEN << >> ELSE Bytes(a.algo, HalfOut))
  BY KeyDataParts
<1>3. PICK f \in Seq(Plain), g \in Seq(Plain) :
          /\ KeyData(b) = ((Bytes(b.key, Out) \o Bytes(b.msg, Out)) \o f) \o g
          /\ f = (IF b.data = NULL THEN << >> ELSE Bytes(b.data, Out))
          /\ g = (IF b.algo = NULL THEN << >> ELSE Bytes(b.algo, HalfOut))
  BY KeyDataParts
<1>4. PICK k, m, l, n : /\ k = Bytes(a.key, Out) /\ m = Bytes(a.msg, Out)
                        /\ l = Bytes(b.key, Out) /\ n = Bytes(b.msg, Out)
  OBVIOUS
<1>5. /\ k \in Seq(Plain) /\ Len(k) = O /\ m \in Seq(Plain) /\ Len(m) = O
      /\ l \in Seq(Plain) /\ Len(l) = O /\ n \in Seq(Plain) /\ Len(n) = O
  <2>1. a.key \in Names /\ a.msg \in Names /\ b.key \in Names /\ b.msg \in Names
    BY DEF Names
  <2>2. QED
    BY <1>1, <1>4, <2>1, BytesType
<1>6. /\ Len(d) = (IF a.data = NULL THEN 0 ELSE O) /\ Len(e) = (IF a.algo = NULL THEN 0 ELSE H)
      /\ Len(f) = (IF b.data = NULL THEN 0 ELSE O) /\ Len(g) = (IF b.algo = NULL THEN 0 ELSE H)
  <2>1. a.data \in Names /\ a.algo \in Names /\ b.data \in Names /\ b.algo \in Names
    BY DEF Names
  <2>2. /\ Len(Bytes(a.data, Out)) = O /\ Len(Bytes(a.algo, HalfOut)) = H
        /\ Len(Bytes(b.data, Out)) = O /\ Len(Bytes(b.algo, HalfOut)) = H
    BY <1>1, <2>1, BytesType
  <2>3. Len(<< >>) = 0
    OBVIOUS
  <2>4. Len(d) = (IF a.data = NULL THEN 0 ELSE O)
    BY <1>2, <2>2, <2>3
  <2>5. Len(e) = (IF a.algo = NULL THEN 0 ELSE H)
    BY <1>2, <2>2, <2>3
  <2>6. Len(f) = (IF b.data = NULL THEN 0 ELSE O)
    BY <1>3, <2>2, <2>3
  <2>7. Len(g) = (IF b.algo = NULL THEN 0 ELSE H)
    BY <1>3, <2>2, <2>3
  <2>8. QED
    BY <2>4, <2>5, <2>6, <2>7
<1>7. PICK x, y, p, q : /\ x = k \o m /\ y = l \o n /\ p = x \o d /\ q = y \o f
  OBVIOUS
<1>8. x \in Seq(Plain) /\ Len(x) = O + O /\ y \in Seq(Plain) /\ Len(y) = O + O
  <2>1. /\ x \in Seq(Plain) /\ Len(x) = Len(k) + Len(m)
        /\ y \in Seq(Plain) /\ Len(y) = Len(l) + Len(n)
    BY <1>5, <1>7, ConcatOf
  <2>2. QED
    BY <1>5, <2>1
<1>9. /\ p \in Seq(Plain) /\ Len(p) = (O + O) + Len(d)
      /\ q \in Seq(Plain) /\ Len(q) = (O + O) + Len(f)
  <2>1. /\ p \in Seq(Plain) /\ Len(p) = Len(x) + Len(d)
        /\ q \in Seq(Plain) /\ Len(q) = Len(y) + Len(f)
    BY <1>7, <1>8, ConcatOf
  <2>2. QED
    BY <1>8, <2>1
<1>10. p \o e = q \o g
  BY <1>2, <1>3, <1>4, <1>7
<1>11. Len(d) + Len(e) = Len(f) + Len(g)
  <2>1. Len(p \o e) = Len(p) + Len(e) /\ Len(q \o g) = Len(q) + Len(g)
    BY <1>9, ConcatOf
  <2>2. Len(d) \in Nat /\ Len(e) \in Nat /\ Len(f) \in Nat /\ Len(g) \in Nat
    BY LenProperties
  <2>3. PICK ld \in Nat, le \in Nat, lf \in Nat, lg \in Nat :
            ld = Len(d) /\ le = Len(e) /\ lf = Len(f) /\ lg = Len(g)
    BY <2>2
  <2>4. ((O + O) + ld) + le = ((O + O) + lf) + lg
    BY <1>9, <1>10, <2>1, <2>3
  <2>5. ld + le = lf + lg
    BY <1>1, <2>4
  <2>6. QED
    BY <2>3, <2>5
<1>12. (a.data = NULL <=> b.data = NULL) /\ (a.algo = NULL <=> b.algo = NULL)
  BY <1>1, <1>6, <1>11
<1>13. Len(p) = Len(q)
  BY <1>6, <1>9, <1>12
<1>14. p = q /\ e = g
  BY <1>9, <1>10, <1>13, ConcatEqual
<1>15. x = y /\ d = f
  <2>1. x \o d = y \o f /\ Len(x) = Len(y)
    BY <1>7, <1>8, <1>14
  <2>2. QED
    BY <1>8, <2>1, ConcatEqual
<1>16. k = l /\ m = n
  <2>1. k \o m = l \o n /\ Len(k) = Len(l)
    BY <1>5, <1>7, <1>15
  <2>2. QED
    BY <1>5, <2>1, ConcatEqual
<1>17. a.key = b.key /\ a.msg = b.msg
  BY <1>1, <1>4, <1>16, BytesApart
<1>18. a.data = b.data
  <2>1. CASE a.data = NULL
    BY <1>12, <2>1
  <2>2. CASE a.data # NULL
    <3>1. Bytes(a.data, Out) = Bytes(b.data, Out)
      BY <1>2, <1>3, <1>12, <1>15, <2>2
    <3>2. QED
      BY <1>1, <3>1, BytesApart
  <2>3. QED
    BY <2>1, <2>2
<1>19. a.algo = b.algo
  <2>1. CASE a.algo = NULL
    BY <1>12, <2>1
  <2>2. CASE a.algo # NULL
    <3>1. Bytes(a.algo, HalfOut) = Bytes(b.algo, HalfOut)
      BY <1>2, <1>3, <1>12, <1>14, <2>2
    <3>2. QED
      BY <1>1, <3>1, BytesApart
  <2>3. QED
    BY <2>1, <2>2
<1>20. /\ a = [key |-> a.key, msg |-> a.msg, data |-> a.data, algo |-> a.algo]
       /\ b = [key |-> b.key, msg |-> b.msg, data |-> b.data, algo |-> b.algo]
  BY ArgsAssumption
<1>21. QED
  BY <1>17, <1>18, <1>19, <1>20

\* Two nonces on one table.
LEMMA NoncePair ==
    ASSUME Table(table), NEW w, NEW o, NonceOf(table, w, o), NEW x, NEW p, NonceOf(table, x, p)
    PROVE  o = p <=> w = x
<1>1. PICK a \in NonceArgs, m \in Nat :
          /\ w = [args |-> a, counter |-> m]
          /\ \E s, c : /\ IsSeeds(table, KeyData(a), 1, s, m + 1)
                       /\ IsBlocks(table, s[m + 1], c, 1) /\ o = c[1]
  BY DEF NonceOf
<1>2. PICK b \in NonceArgs, n \in Nat :
          /\ x = [args |-> b, counter |-> n]
          /\ \E s, c : /\ IsSeeds(table, KeyData(b), 1, s, n + 1)
                       /\ IsBlocks(table, s[n + 1], c, 1) /\ p = c[1]
  BY DEF NonceOf
<1>3. PICK s, c : /\ IsSeeds(table, KeyData(a), 1, s, m + 1)
                  /\ IsBlocks(table, s[m + 1], c, 1) /\ o = c[1]
  BY <1>1
<1>4. PICK u, d : /\ IsSeeds(table, KeyData(b), 1, u, n + 1)
                  /\ IsBlocks(table, u[n + 1], d, 1) /\ p = d[1]
  BY <1>2
<1>5. PICK i \in Nat \ {0}, j \in Nat \ {0} : i = m + 1 /\ j = n + 1
  OBVIOUS
<1>6. PICK key \in Seq(Cells), ley \in Seq(Cells) : key = KeyData(a) /\ ley = KeyData(b)
  <2>1. KeyData(a) \in Seq(Cells) /\ KeyData(b) \in Seq(Cells)
    BY KeyDataType, CellsAbove, SeqMonotonic
  <2>2. QED
    BY <2>1
<1>7. /\ IsSeeds(table, key, 1, s, i) /\ IsBlocks(table, s[i], c, 1)
      /\ IsSeeds(table, ley, 1, u, j) /\ IsBlocks(table, u[j], d, 1)
  BY <1>3, <1>4, <1>5, <1>6
<1>8. ASSUME o = p PROVE w = x
  <2>1. i \in 1 .. i /\ j \in 1 .. j
    OBVIOUS
  <2>2. /\ s[i] \in Pairs /\ IsDigest(s[i].k)
        /\ u[j] \in Pairs /\ IsDigest(u[j].k)
    BY <1>7, <2>1, SeedsDigest
  <2>3. PICK y \in Pairs, z \in Pairs : y = s[i] /\ z = u[j]
    BY <2>2
  <2>4. 1 \in 1 .. 1 /\ 1 - 1 = 0
    OBVIOUS
  <2>5. IsMac(table, y.k, y.v, o) /\ IsMac(table, z.k, z.v, o)
    BY <1>3, <1>4, <1>7, <1>8, <2>3, <2>4 DEF IsBlocks
  <2>6. y.v \in Seq(Cells) /\ z.v \in Seq(Cells)
    BY PairReg, RegSeq DEF Reg
  <2>7. y.k = z.k /\ y.v = z.v
    BY <2>2, <2>3, <2>5, <2>6, MacApart
  <2>8. y = z
    BY <2>7, PairReg
  <2>9. i = j /\ key = ley
    <3>1. CASE i <= j
      BY <1>7, <2>3, <2>8, <3>1, Unwind
    <3>2. CASE j <= i
      BY <1>7, <2>3, <2>8, <3>2, Unwind
    <3>3. QED
      BY <3>1, <3>2
  <2>10. m = n
    BY <1>5, <2>9
  <2>11. a = b
    BY <1>6, <2>9, KeyDataApart
  <2>12. QED
    BY <1>1, <1>2, <2>10, <2>11
<1>9. ASSUME w = x PROVE o = p
  <2>1. w.args = a /\ w.counter = m /\ x.args = b /\ x.counter = n
    BY <1>1, <1>2
  <2>2. a = b /\ m = n
    BY <1>9, <2>1
  <2>3. key = ley /\ i = j
    BY <1>5, <1>6, <2>2
  <2>4. BlocksOf(Out) = 1 /\ Out \in Nat
    BY OneBlock, Sizes
  <2>5. BlocksOf(Out) \in Nat
    BY <2>4
  <2>6. StdDraw(key, Out, i) = SubSeq(Joined(c, 1), 1, Out)
    <3>1. /\ IsSeeds(table, key, BlocksOf(Out), s, i)
          /\ IsBlocks(table, s[i], c, BlocksOf(Out))
      BY <1>7, <2>4
    <3>2. StdDraw(key, Out, i) = SubSeq(Joined(c, BlocksOf(Out)), 1, Out)
      BY <2>5, <3>1, StdDrawIs
    <3>3. QED
      BY <2>4, <3>2
  <2>7. StdDraw(ley, Out, j) = SubSeq(Joined(d, 1), 1, Out)
    <3>1. /\ IsSeeds(table, ley, BlocksOf(Out), u, j)
          /\ IsBlocks(table, u[j], d, BlocksOf(Out))
      BY <1>7, <2>4
    <3>2. StdDraw(ley, Out, j) = SubSeq(Joined(d, BlocksOf(Out)), 1, Out)
      BY <2>5, <3>1, StdDrawIs
    <3>3. QED
      BY <2>4, <3>2
  <2>8. SubSeq(Joined(c, 1), 1, Out) = c[1] /\ SubSeq(Joined(d, 1), 1, Out) = d[1]
    BY <1>7, OneBlock
  <2>9. QED
    BY <1>3, <1>4, <2>3, <2>6, <2>7, <2>8
<1>10. QED
  BY <1>8, <1>9

\* The invariant has every nonce's origin in it.
LEMMA RInvNonces == RInv => NoncesApart
<1> SUFFICES ASSUME RInv, NEW i \in DOMAIN past, NEW j \in DOMAIN past,
                    past[i].who # NULL, past[j].who # NULL
             PROVE  past[i].out = past[j].out <=> past[i].who = past[j].who
  BY DEF NoncesApart
<1>1. Table(table)
  BY DEF RInv
<1>2. NonceOf(table, past[i].who, past[i].out) /\ NonceOf(table, past[j].who, past[j].out)
  BY DEF RInv, PastOK
<1>3. QED
  BY <1>1, <1>2, NoncePair

\* The functions of HMAC compute what RFC 2104 says, for keys shorter than a
\* block, of a block and longer, for messages in any pieces, and in every state of
\* the table (secp256k1_hmac_sha256_initialize, _write, _finalize).
THEOREM MacRightTheorem == RSpec => []MacRight
BY GeneratorInvariant, RInvMac, PTL

\* Every output of the generator, of whichever length and at whichever draw, is
\* the one RFC 6979 gives for its key data (secp256k1_rfc6979_hmac_sha256_generate).
THEOREM OutputRightTheorem == RSpec => []OutputRight
BY GeneratorInvariant, RInvOutput, PTL

\* Two nonces are the same if and only if they were asked for with the same key, message,
\* extra data, algorithm and counter (nonce_function_rfc6979 of secp256k1.cpp),
\* provided that different streams have different digests.
THEOREM NoncesApartTheorem == RSpec => []NoncesApart
BY GeneratorInvariant, RInvNonces, PTL

---------------------------------------------------------------------------
(* The loop of sha256_write against what it computes.                      *)

\* What the object becomes when d is still to be put at an offset.
Taken(h, at, d) ==
    LET t == SubSeq(h.buf, 1, at) \o d
        full == (Len(t) \div Block) * Block
        rest == SubSeq(t, full + 1, Len(t))
        last == IF full = 0 THEN h.buf ELSE SubSeq(t, full - Block + 1, full)
    IN  [s |-> h.s \o SubSeq(t, 1, full), buf |-> Copied(last, 0, rest), bytes |-> h.bytes]

\* One iteration of the loop on it.
Filled(h, at, d) ==
    LET buf == Copied(h.buf, at, SubSeq(d, 1, Block - at))
    IN  [s |-> Transform(h.s, buf), buf |-> buf, bytes |-> h.bytes]

\* The inductive invariant of the loop.
LoopInv ==
    /\ pc = "write" => Taken(hash, bufsize, data) = Written(call.hash, call.data)
    /\ WritesWhole

\* Division of natural numbers, in one formula.
LEMMA DivNat ==
    \A b \in Nat, r \in Nat :
        b > 0 => r \div b \in Nat /\ r % b \in 0 .. b - 1 /\ r = (r \div b) * b + (r % b)
BY Division

\* Concatenation of bytes is associative, in one formula.
LEMMA CellsAssoc ==
    \A x \in Seq(Cells), y \in Seq(Cells), z \in Seq(Cells) : (x \o y) \o z = x \o (y \o z)
BY ConcatAssoc

\* The end of a concatenation.
LEMMA SubSeqShift ==
    ASSUME NEW S, NEW a \in Seq(S), NEW b \in Seq(S), NEW m \in Nat, NEW n \in Nat,
           m >= 1, n <= Len(b), m <= n + 1
    PROVE  SubSeq(a \o b, Len(a) + m, Len(a) + n) = SubSeq(b, m, n)
<1>1. PICK p \in Nat, q \in Nat : p = Len(a) /\ q = Len(b)
  BY LenProperties
<1>2. PICK c : c = a \o b
  OBVIOUS
<1>3. c \in Seq(S) /\ Len(c) = p + q /\ \A i \in 1 .. q : c[p + i] = b[i]
  BY <1>1, <1>2, ConcatOf
<1>4. PICK x, y : x = SubSeq(c, p + m, p + n) /\ y = SubSeq(b, m, n)
  OBVIOUS
<1>5. y \in Seq(S) /\ Len(y) = n - m + 1 /\ \A i \in 1 .. n - m + 1 : y[i] = b[m + i - 1]
  BY <1>4, SubSeqOf
<1>6. x \in Seq(S) /\ Len(x) = n - m + 1 /\ \A i \in 1 .. n - m + 1 : x[i] = c[p + (m + i - 1)]
  <2>1. PICK u \in Nat, v \in Nat : u = p + m /\ v = p + n
    OBVIOUS
  <2>2. u >= 1 /\ v <= Len(c) /\ u <= v + 1 /\ v - u + 1 = n - m + 1
    BY <1>1, <1>3, <2>1
  <2>3. /\ SubSeq(c, u, v) \in Seq(S) /\ Len(SubSeq(c, u, v)) = v - u + 1
        /\ \A i \in 1 .. v - u + 1 : SubSeq(c, u, v)[i] = c[u + i - 1]
    BY <1>3, <2>1, <2>2, SubSeqOf
  <2>4. \A i \in 1 .. n - m + 1 : u + i - 1 = p + (m + i - 1)
    BY <2>1
  <2>5. QED
    BY <1>4, <2>1, <2>2, <2>3, <2>4
<1>7. ASSUME NEW i \in 1 .. n - m + 1 PROVE x[i] = y[i]
  <2>1. PICK j : j = m + i - 1
    OBVIOUS
  <2>2. j \in 1 .. q
    BY <1>1, <1>7, <2>1
  <2>3. x[i] = c[p + j] /\ y[i] = b[j]
    BY <1>5, <1>6, <2>1
  <2>4. QED
    BY <1>3, <2>2, <2>3
<1>8. x = y
  BY <1>5, <1>6, <1>7, SeqEqual
<1>9. QED
  BY <1>1, <1>2, <1>4, <1>8

\* The part of a buffer that counts with more behind it is a copy.
LEMMA CopiedIs ==
    ASSUME NEW f \in [1 .. Block -> Cells], NEW at \in 0 .. Block, NEW d \in Seq(Cells),
           at + Len(d) <= Block
    PROVE  LET t == SubSeq(f, 1, at) \o d
           IN  /\ t \in Seq(Cells) /\ Len(t) = at + Len(d)
               /\ Copied(f, at, d) = [i \in 1 .. Block |-> IF i <= at + Len(d) THEN t[i] ELSE f[i]]
<1>1. PICK b \in Nat, l \in Nat : b = Block /\ l = Len(d)
  BY Sizes, LenProperties
<1>2. PICK k : k = SubSeq(f, 1, at)
  OBVIOUS
<1>3. k \in Seq(Cells) /\ Len(k) = at /\ \A i \in 1 .. at : k[i] = f[i]
  <2>1. f \in Seq(Cells) /\ Len(f) = Block
    BY BufferSeq
  <2>2. /\ 1 \in Nat /\ at \in Nat /\ at <= Len(f) /\ 1 <= at + 1 /\ at - 1 + 1 = at
        /\ \A i \in 1 .. at : 1 + i - 1 = i
    BY <1>1, <2>1
  <2>3. k \in Seq(Cells) /\ Len(k) = at - 1 + 1 /\ \A i \in 1 .. at - 1 + 1 : k[i] = f[1 + i - 1]
    BY <1>2, <2>1, <2>2, SubSeqOf
  <2>4. QED
    BY <2>2, <2>3
<1>4. PICK t : t = k \o d
  OBVIOUS
<1>5. /\ t \in Seq(Cells) /\ Len(t) = at + l
      /\ \A i \in 1 .. at : t[i] = k[i]
      /\ \A i \in 1 .. l : t[at + i] = d[i]
  <2>0. k \in Seq(Cells) /\ d \in Seq(Cells)
    BY <1>3
  <2>1. /\ k \o d \in Seq(Cells) /\ Len(k \o d) = Len(k) + Len(d)
        /\ \A i \in 1 .. Len(k) : (k \o d)[i] = k[i]
        /\ \A i \in 1 .. Len(d) : (k \o d)[Len(k) + i] = d[i]
    BY <2>0, ConcatOf
  <2>2. QED
    BY <1>1, <1>3, <1>4, <2>1
<1>6. ASSUME NEW i \in 1 .. b
      PROVE  (IF at < i /\ i <= at + l THEN d[i - at] ELSE f[i])
             = (IF i <= at + l THEN t[i] ELSE f[i])
  <2>1. at \in Nat /\ (i <= at \/ (at < i /\ i <= at + l) \/ i > at + l)
    BY <1>1
  <2>2. CASE i <= at
    <3>1. i \in 1 .. at
      BY <1>6, <2>1, <2>2
    <3>2. t[i] = f[i] /\ ~(at < i) /\ i <= at + l
      BY <1>3, <1>5, <2>1, <2>2, <3>1
    <3>3. QED
      BY <3>2
  <2>3. CASE at < i /\ i <= at + l
    <3>1. PICK j : j = i - at
      OBVIOUS
    <3>2. j \in 1 .. l /\ at + j = i
      BY <1>6, <2>1, <2>3, <3>1
    <3>3. t[at + j] = d[j]
      BY <1>5, <3>2
    <3>4. QED
      BY <2>3, <3>1, <3>2, <3>3
  <2>4. CASE i > at + l
    <3>1. ~(i <= at + l)
      BY <1>6, <2>1, <2>4
    <3>2. QED
      BY <3>1
  <2>5. QED
    BY <2>1, <2>2, <2>3, <2>4
<1>7. Copied(f, at, d) = [i \in 1 .. b |-> IF i <= at + l THEN t[i] ELSE f[i]]
  BY <1>1, <1>6 DEF Copied
<1>8. QED
  BY <1>1, <1>2, <1>4, <1>5, <1>7

\* The last iteration keeps what is less than a block.
LEMMA TakenRest ==
    ASSUME NEW h, h.s \in Seq(Cells), h.buf \in [1 .. Block -> Cells],
           NEW at \in 0 .. Block - 1, NEW d \in Seq(Cells), at + Len(d) < Block
    PROVE  Taken(h, at, d) = [s |-> h.s, buf |-> Copied(h.buf, at, d), bytes |-> h.bytes]
<1>1. PICK b \in Nat, l \in Nat : b = Block /\ l = Len(d) /\ b > 0
  BY Sizes, LenProperties
<1>2. PICK f \in [1 .. Block -> Cells] : f = h.buf
  OBVIOUS
<1>3. PICK t : t = SubSeq(f, 1, at) \o d
  OBVIOUS
<1>4. at \in 0 .. Block /\ at + Len(d) <= Block /\ 0 \in 0 .. Block /\ at \in Nat
  BY <1>1
<1>5. /\ t \in Seq(Cells) /\ Len(t) = at + l
      /\ Copied(f, at, d) = [i \in 1 .. Block |-> IF i <= at + l THEN t[i] ELSE f[i]]
  BY <1>1, <1>3, <1>4, CopiedIs
<1>6. Copied(f, 0, t) = [i \in 1 .. Block |-> IF i <= at + l THEN t[i] ELSE f[i]]
  <2>1. \A i \in 1 .. Block : (0 < i /\ i <= 0 + Len(t) <=> i <= at + l) /\ i - 0 = i
    BY <1>1, <1>4, <1>5
  <2>2. QED
    BY <2>1 DEF Copied
<1>7. Len(t) \div Block = 0
  <2>1. PICK n : n = Len(t)
    OBVIOUS
  <2>2. n \in 0 .. b - 1 /\ n = 0 * b + n
    BY <1>1, <1>4, <1>5, <2>1
  <2>b. b \in Nat /\ b > 0 /\ 0 \in Int /\ n \in 0 .. b - 1
    BY <1>1, <2>2
  <2>3. (0 * b + n) \div b = 0
    BY <2>b, DivUnique
  <2>4. QED
    BY <1>1, <2>1, <2>2, <2>3
<1>8. 0 * Block = 0 /\ 0 + 1 = 1
  BY <1>1
<1>9. SubSeq(t, 1, 0) = << >> /\ SubSeq(t, 1, Len(t)) = t
  BY <1>5
<1>10. PICK s \in Seq(Cells) : s = h.s
  OBVIOUS
<1>11. s \o << >> = s
  OBVIOUS
<1>12. Taken(h, at, d) = [s |-> h.s \o SubSeq(t, 1, 0), buf |-> Copied(f, 0, SubSeq(t, 1, Len(t))),
                         bytes |-> h.bytes]
  BY <1>2, <1>3, <1>7, <1>8 DEF Taken
<1>13. QED
  BY <1>2, <1>5, <1>6, <1>9, <1>10, <1>11, <1>12

\* Every other one takes a block.
LEMMA TakenBlock ==
    ASSUME NEW h, h.s \in Seq(Cells), h.buf \in [1 .. Block -> Cells],
           NEW at \in 0 .. Block - 1, NEW d \in Seq(Cells), at + Len(d) >= Block
    PROVE  Taken(Filled(h, at, d), 0, SubSeq(d, Block - at + 1, Len(d))) = Taken(h, at, d)
<1>d. PICK buf, g : buf = Copied(h.buf, at, SubSeq(d, 1, Block - at)) /\ g = Filled(h, at, d)
  OBVIOUS
<1>e. g.s = h.s \o buf /\ g.buf = buf /\ g.bytes = h.bytes
  BY <1>d DEF Filled, Transform
<1>a. Block \in Nat /\ Block > 0
  BY Sizes
<1>b. Len(d) \in Nat
  BY LenProperties
<1>1. PICK b \in Nat, l \in Nat : b = Block /\ l = Len(d) /\ b > 0
  BY <1>a, <1>b
<1>2. PICK f \in [1 .. Block -> Cells], s \in Seq(Cells) : f = h.buf /\ s = h.s
  OBVIOUS
<1>3. PICK c \in Nat : c = b - at /\ c > 0 /\ c <= l
  BY <1>1
<1>4. PICK k, d1, d2 : k = SubSeq(f, 1, at) /\ d1 = SubSeq(d, 1, c) /\ d2 = SubSeq(d, c + 1, Len(d))
  OBVIOUS
<1>5. d1 \in Seq(Cells) /\ Len(d1) = c
  <2>1. 1 \in Nat /\ c <= Len(d) /\ 1 <= c + 1 /\ c - 1 + 1 = c
    BY <1>1, <1>3
  <2>2. d1 \in Seq(Cells) /\ Len(d1) = c - 1 + 1
    BY <1>4, <2>1, SubSeqOf
  <2>3. QED
    BY <2>1, <2>2
<1>6. d2 \in Seq(Cells) /\ Len(d2) = l - c
  <2>1. c + 1 \in Nat /\ c + 1 >= 1 /\ Len(d) <= Len(d) /\ c + 1 <= Len(d) + 1
        /\ l - (c + 1) + 1 = l - c /\ Len(d) \in Nat
    BY <1>1, <1>3
  <2>2. d2 \in Seq(Cells) /\ Len(d2) = Len(d) - (c + 1) + 1
    BY <1>4, <2>1, SubSeqOf
  <2>3. QED
    BY <1>1, <2>1, <2>2
<1>7. d1 \o d2 = d
  <2>1. c <= Len(d)
    BY <1>1, <1>3
  <2>2. QED
    BY <1>4, <2>1, SplitAt
<1>8. PICK t : t = k \o d1
  OBVIOUS
<1>9. /\ t \in Seq(Cells) /\ Len(t) = b
      /\ Copied(f, at, d1) = [i \in 1 .. Block |-> IF i <= b THEN t[i] ELSE f[i]]
  <2>1. at + Len(d1) = b /\ at \in 0 .. Block /\ at + Len(d1) <= Block
    BY <1>1, <1>3, <1>5
  <2>a. /\ f \in [1 .. Block -> Cells] /\ at \in 0 .. Block /\ d1 \in Seq(Cells)
        /\ at + Len(d1) <= Block
    BY <1>5, <2>1
  <2>b. LET w == SubSeq(f, 1, at) \o d1
        IN  /\ w \in Seq(Cells) /\ Len(w) = at + Len(d1)
            /\ Copied(f, at, d1) = [i \in 1 .. Block |-> IF i <= at + Len(d1) THEN w[i] ELSE f[i]]
    BY <2>a, CopiedIs
  <2>2. /\ t \in Seq(Cells) /\ Len(t) = at + Len(d1)
        /\ Copied(f, at, d1) = [i \in 1 .. Block |-> IF i <= at + Len(d1) THEN t[i] ELSE f[i]]
    BY <1>4, <1>8, <2>b
  <2>3. QED
    BY <2>1, <2>2
<1>10. buf = t
  <2>1. buf = Copied(f, at, d1)
    BY <1>1, <1>2, <1>3, <1>4, <1>d
  <2>2. \A i \in 1 .. Block : i <= b
    BY <1>1
  <2>3. buf = [i \in 1 .. Block |-> t[i]]
    BY <1>9, <2>1, <2>2
  <2>4. t = [i \in 1 .. Block |-> t[i]]
    BY <1>1, <1>9, LenProperties
  <2>5. QED
    BY <2>3, <2>4
<1>11. k \in Seq(Cells)
  <2>1. f \in Seq(Cells) /\ Len(f) = Block
    BY BufferSeq
  <2>2. 1 \in Nat /\ at \in Nat /\ at <= Len(f) /\ 1 <= at + 1
    BY <1>1, <2>1
  <2>3. QED
    BY <1>4, <2>1, <2>2, SubSeqOf
<1>12. PICK w : w = t \o d2
  OBVIOUS
<1>13. k \o d = w
  <2>1. k \in Seq(Cells) /\ d1 \in Seq(Cells) /\ d2 \in Seq(Cells)
    BY <1>5, <1>6, <1>11
  <2>2. (k \o d1) \o d2 = k \o (d1 \o d2)
    BY <2>1, CellsAssoc, Zenon
  <2>3. QED
    BY <1>7, <1>8, <1>12, <2>2
<1>c. l - c \in Nat
  BY <1>3
<1>14. PICK r \in Nat : r = l - c
  BY <1>c
<1>15. w \in Seq(Cells) /\ Len(w) = b + r
  <2>a. t \in Seq(Cells) /\ d2 \in Seq(Cells)
    BY <1>6, <1>9
  <2>b. t \o d2 \in Seq(Cells) /\ Len(t \o d2) = Len(t) + Len(d2)
    BY <2>a, ConcatOf
  <2>1. w \in Seq(Cells) /\ Len(w) = Len(t) + Len(d2)
    BY <1>12, <2>b
  <2>2. QED
    BY <1>6, <1>9, <1>14, <2>1
<1>16. PICK n \in Nat, e \in 0 .. b - 1 : r \div b = n /\ r = n * b + e
  <2>1. r \div b \in Nat /\ r % b \in 0 .. b - 1 /\ r = (r \div b) * b + (r % b)
    <3>1. b \in Nat /\ b > 0 /\ r \in Nat
      BY <1>1
    <3>2. QED
      BY <3>1, DivNat, Zenon
  <2>2. QED
    BY <2>1
<1>17. PICK p \in Nat : p = n * b /\ p <= r
  <2>1. n * b \in Nat
    BY SMT
  <2>2. PICK x \in Nat : x = n * b
    BY <2>1
  <2>3. x <= r
    BY <1>1, <1>16, <2>2
  <2>4. QED
    BY <2>2, <2>3
<1>18. (b + r) \div b = n + 1 /\ (n + 1) * b = b + p
  <2>1. (n + 1) * b = n * b + b
    BY <1>1
  <2>2. b + r = (n + 1) * b + e
    BY <1>1, <1>16, <1>17, <2>1
  <2>a. b \in Nat /\ b > 0 /\ n + 1 \in Int /\ e \in 0 .. b - 1
    BY <1>1
  <2>3. ((n + 1) * b + e) \div b = n + 1
    BY <2>a, DivUnique
  <2>4. (b + r) \div b = n + 1
    BY <2>2, <2>3, Zenon
  <2>5. n * b + b = b + p
    BY <1>1, <1>17
  <2>6. QED
    BY <2>1, <2>4, <2>5, Zenon
\* the two sides
<1>19. PICK full : full = b + p
  OBVIOUS
<1>20. full # 0 /\ full - b + 1 = p + 1 /\ full \in Nat
  BY <1>1, <1>19
<1>21. Taken(h, at, d) = [s |-> s \o SubSeq(w, 1, full),
                         buf |-> Copied(SubSeq(w, p + 1, full), 0, SubSeq(w, full + 1, b + r)),
                         bytes |-> h.bytes]
  <2>1. (Len(w) \div Block) * Block = full
    BY <1>1, <1>15, <1>18, <1>19
  <2>2. SubSeq(h.buf, 1, at) \o d = w
    BY <1>2, <1>4, <1>13
  <2>3. full - Block + 1 = p + 1
    BY <1>1, <1>20
  <2>4. QED
    BY <1>2, <1>15, <1>20, <2>1, <2>2, <2>3 DEF Taken
<1>22. << >> \o d2 = d2 /\ SubSeq(t, 1, 0) = << >>
  BY <1>6, <1>9
<1>23. Taken(g, 0, d2) = [s |-> (s \o t) \o SubSeq(d2, 1, p),
                         buf |-> Copied(IF p = 0 THEN t ELSE SubSeq(d2, p - b + 1, p), 0,
                                        SubSeq(d2, p + 1, r)),
                         bytes |-> h.bytes]
  <2>1. (Len(d2) \div Block) * Block = p
    BY <1>1, <1>6, <1>14, <1>16, <1>17
  <2>2. SubSeq(g.buf, 1, 0) \o d2 = d2
    BY <1>10, <1>22, <1>e
  <2>3. g.s = s \o t /\ g.buf = t /\ g.bytes = h.bytes /\ Len(d2) = r
    BY <1>2, <1>6, <1>10, <1>14, <1>e
  <2>4. QED
    BY <1>1, <2>1, <2>2, <2>3 DEF Taken
<1>24. Len(t) = b /\ Len(d2) = r
  BY <1>6, <1>9, <1>14
<1>25. SubSeq(w, 1, full) = t \o SubSeq(d2, 1, p)
  <2>1. p <= Len(d2)
    BY <1>17, <1>24
  <2>a. t \in Seq(Cells) /\ d2 \in Seq(Cells)
    BY <1>6, <1>9
  <2>2. SubSeq(t \o d2, 1, Len(t) + p) = t \o SubSeq(d2, 1, p)
    BY <2>a, <2>1, SubSeqConcat
  <2>3. QED
    BY <1>12, <1>19, <1>24, <2>2
<1>26. SubSeq(w, full + 1, b + r) = SubSeq(d2, p + 1, r)
  <2>1. p + 1 \in Nat /\ p + 1 >= 1 /\ r <= Len(d2) /\ p + 1 <= r + 1
    BY <1>17, <1>24
  <2>a. t \in Seq(Cells) /\ d2 \in Seq(Cells)
    BY <1>6, <1>9
  <2>2. SubSeq(t \o d2, Len(t) + (p + 1), Len(t) + r) = SubSeq(d2, p + 1, r)
    BY <2>a, <2>1, SubSeqShift
  <2>3. b + (p + 1) = full + 1
    BY <1>1, <1>19
  <2>4. QED
    BY <1>12, <1>24, <2>2, <2>3
<1>27. SubSeq(w, p + 1, full) = (IF p = 0 THEN t ELSE SubSeq(d2, p - b + 1, p))
  <2>1. CASE p = 0
    <3>1. SubSeq(d2, 1, 0) = << >> /\ t \o << >> = t
      BY <1>6, <1>9
    <3>2. SubSeq(w, 1, full) = t
      BY <1>25, <2>1, <3>1
    <3>3. p + 1 = 1
      BY <2>1
    <3>4. QED
      BY <2>1, <3>2, <3>3
  <2>2. CASE p # 0
    <3>1. p >= b
      <4>1. n # 0
        BY <1>1, <1>17, <2>2
      <4>2. PICK m \in Nat : n = m + 1
        <5>1. n - 1 \in Nat /\ n = (n - 1) + 1
          BY <4>1
        <5>2. QED
          BY <5>1
      <4>3. (m + 1) * b = m * b + b
        BY <1>1
      <4>4. PICK y \in Nat : y = m * b
        BY <1>1
      <4>5. QED
        BY <1>1, <1>17, <4>2, <4>3, <4>4
    <3>2. PICK m \in Nat : m = p - b + 1 /\ m >= 1
      BY <1>1, <3>1
    <3>3. p <= Len(d2) /\ m <= p + 1
      BY <1>1, <1>17, <1>24, <3>2
    <3>a. t \in Seq(Cells) /\ d2 \in Seq(Cells)
      BY <1>6, <1>9
    <3>b. m >= 1 /\ p <= Len(d2) /\ m <= p + 1
      BY <3>2, <3>3
    <3>4. SubSeq(t \o d2, Len(t) + m, Len(t) + p) = SubSeq(d2, m, p)
      BY <3>a, <3>b, SubSeqShift
    <3>5. b + m = p + 1
      BY <1>1, <3>2
    <3>6. QED
      BY <1>12, <1>19, <1>24, <2>2, <3>2, <3>4, <3>5
  <2>3. QED
    BY <2>1, <2>2
<1>28. s \o (t \o SubSeq(d2, 1, p)) = (s \o t) \o SubSeq(d2, 1, p)
  <2>1. PICK x : x = SubSeq(d2, 1, p)
    OBVIOUS
  <2>2. 1 \in Nat /\ p <= Len(d2) /\ 1 <= p + 1
    BY <1>17, <1>24
  <2>3. x \in Seq(Cells)
    BY <1>6, <2>1, <2>2, SubSeqOf
  <2>a. s \in Seq(Cells) /\ t \in Seq(Cells) /\ x \in Seq(Cells)
    BY <1>9, <2>3
  <2>4. (s \o t) \o x = s \o (t \o x)
    BY <2>a, CellsAssoc, Zenon
  <2>5. QED
    BY <2>1, <2>4
<1>29. Taken(g, 0, d2) = Taken(h, at, d)
  BY <1>21, <1>23, <1>25, <1>26, <1>27, <1>28
<1>30. d2 = SubSeq(d, Block - at + 1, Len(d))
  BY <1>1, <1>3, <1>4
<1>31. QED
  BY <1>29, <1>30, <1>d

\* Nothing has been written yet.
LEMMA LoopInvInit == Init => LoopInv
BY DEF Init, LoopInv, WritesWhole

\* Every step keeps it: an iteration of the loop, and a call that enters it.
LEMMA LoopInvNext == HInv /\ LoopInv /\ [Next]_vars => LoopInv'
<1> SUFFICES ASSUME HInv, LoopInv, [Next]_vars PROVE LoopInv'
  OBVIOUS
<1>1. CASE UNCHANGED vars
  BY <1>1 DEF vars, LoopInv, WritesWhole
<1>2. hash.s \in Seq(Cells) /\ hash.buf \in [1 .. Block -> Cells] /\ data \in Seq(Cells)
  <2>1. Cell \subseteq Cells
    BY CellsAbove
  <2>2. hash.s \in Seq(Cell) /\ hash.buf \in [1 .. Block -> Cell] /\ data \in Seq(Cell)
    BY DEF HInv, TypesInv
  <2>3. hash.s \in Seq(Cells) /\ data \in Seq(Cells)
    BY <2>1, <2>2, SeqMonotonic
  <2>4. hash.buf \in [1 .. Block -> Cells]
    BY <2>1, <2>2
  <2>5. QED
    BY <2>3, <2>4
<1>3. pc = "write" => bufsize \in 0 .. Block - 1
  BY DEF HInv, BufferInv, Offset, Steps
<1>4. ASSUME Initialize PROVE LoopInv'
  <2>1. pc' = "idle" /\ hash' = Initialized /\ call' = [hash |-> Initialized, data |-> << >>]
    BY <1>4 DEF Initialize
  <2>2. Written(Initialized, << >>) = Initialized
    <3>1. PICK f : f = [i \in 1 .. Block |-> Unset]
      OBVIOUS
    <3>2. f \in [1 .. Block -> Cells]
      BY <3>1, CellsAbove DEF Cell
    <3>3. Initialized = [s |-> << >>, buf |-> f, bytes |-> 0]
      BY <3>1 DEF Initialized
    <3>4. Block \in Nat /\ Block > 0 /\ 0 % Block = 0
      BY Sizes, SMT
    <3>5. PICK h : h = Initialized
      OBVIOUS
    <3>6. h.s = << >> /\ h.buf = f /\ h.bytes = 0 /\ h = [s |-> << >>, buf |-> f, bytes |-> 0]
      BY <3>3, <3>5
    <3>7. BufSize(h) = 0
      BY <3>4, <3>6 DEF BufSize
    <3>a. << >> \in Seq(Cells) /\ Len(<< >>) = 0
      OBVIOUS
    <3>8. PICK d \in Seq(Cells) : d = << >> /\ Len(d) = 0
      BY <3>a
    <3>9. 0 \in 0 .. Block - 1 /\ 0 + Len(d) < Block
      BY <3>4, <3>8
    <3>10. h.s \in Seq(Cells) /\ h.buf \in [1 .. Block -> Cells]
      BY <3>2, <3>6
    <3>11. Taken(h, 0, d) = [s |-> h.s, buf |-> Copied(h.buf, 0, d), bytes |-> h.bytes]
      BY <3>9, <3>10, TakenRest
    <3>12. Copied(f, 0, d) = f
      <4>1. \A i \in 1 .. Block : ~(0 < i /\ i <= 0 + Len(d))
        BY <3>4, <3>8
      <4>2. QED
        BY <3>2, <4>1 DEF Copied
    <3>b. h.bytes + Len(d) = h.bytes
      BY <3>6, <3>8
    <3>13. Written(h, d) = Taken(h, 0, d)
      BY <3>7, <3>b DEF Written, Taken
    <3>14. QED
      BY <3>5, <3>6, <3>8, <3>11, <3>12, <3>13
  <2>3. QED
    BY <2>1, <2>2 DEF LoopInv, WritesWhole
<1>5. ASSUME NEW d, NEW to, EnterWrite(d, to) PROVE LoopInv'
  <2>1. /\ bufsize' = BufSize(hash) /\ data' = d /\ pc' = "write"
        /\ hash' = [s |-> hash.s, buf |-> hash.buf, bytes |-> hash.bytes + Len(d)]
        /\ call' = [hash |-> hash, data |-> d]
    BY <1>5 DEF EnterWrite
  <2>2. Taken(hash', bufsize', data') = Written(call'.hash, call'.data)
    BY <2>1 DEF Taken, Written
  <2>3. QED
    BY <2>1, <2>2 DEF LoopInv, WritesWhole
<1>6. ASSUME NEW n \in 0 .. Len(Source) - Len(message), Write(n) PROVE LoopInv'
  BY <1>5, <1>6 DEF Write
<1>7. ASSUME Finalize PROVE LoopInv'
  BY <1>5, <1>7 DEF Finalize
<1>8. ASSUME WriteSize PROVE LoopInv'
  BY <1>5, <1>8 DEF WriteSize
<1>9. ASSUME FillBlock PROVE LoopInv'
  <2>1. /\ hash' = Filled(hash, bufsize, data) /\ bufsize' = 0
        /\ data' = SubSeq(data, Block - bufsize + 1, Len(data))
        /\ pc' = pc /\ pc = "write" /\ call' = call /\ bufsize + Len(data) >= Block
    BY <1>9 DEF FillBlock, Filled
  <2>a. PICK h : h = hash
    OBVIOUS
  <2>b. bufsize \in 0 .. Block - 1 /\ data \in Seq(Cells)
    BY <1>2, <1>3, <2>1
  <2>2. PICK at \in 0 .. Block - 1, d \in Seq(Cells) : at = bufsize /\ d = data
    BY <2>b
  <2>3. h.s \in Seq(Cells) /\ h.buf \in [1 .. Block -> Cells] /\ at + Len(d) >= Block
    BY <1>2, <2>1, <2>2, <2>a
  <2>4. Taken(Filled(h, at, d), 0, SubSeq(d, Block - at + 1, Len(d))) = Taken(h, at, d)
    BY <2>3, TakenBlock
  <2>5. Taken(hash', bufsize', data') = Taken(hash, bufsize, data)
    BY <2>1, <2>2, <2>4, <2>a
  <2>6. QED
    BY <2>1, <2>5 DEF LoopInv, WritesWhole
<1>10. ASSUME KeepRest PROVE LoopInv'
  <2>1. /\ hash' = [s |-> hash.s, buf |-> Copied(hash.buf, bufsize, data), bytes |-> hash.bytes]
        /\ pc = "write" /\ pc' = back /\ back' = back /\ call' = call
        /\ bufsize + Len(data) < Block
    BY <1>10 DEF KeepRest
  <2>2. Taken(hash, bufsize, data) = hash'
    BY <1>2, <1>3, <2>1, TakenRest
  <2>3. pc' # "write"
    BY <2>1 DEF HInv, TypesInv
  <2>4. QED
    BY <2>1, <2>2, <2>3 DEF LoopInv, WritesWhole
<1>11. ASSUME Output PROVE LoopInv'
  <2>1. pc' = "final"
    BY <1>11 DEF Output
  <2>2. QED
    BY <2>1 DEF LoopInv, WritesWhole
<1>12. QED
  BY <1>1, <1>4, <1>6, <1>7, <1>8, <1>9, <1>10, <1>11 DEF Next

\* The loop of sha256_write, iteration by iteration, computes what Written says in
\* one step: the compressed blocks, the buffer with whatever is left over in it,
\* and the count (secp256k1_sha256_write).  It justifies Written as the operation
\* HMAC and the generator call.
THEOREM WritesWholeTheorem == Spec => []WritesWhole
<1>1. Init => LoopInv
  BY LoopInvInit
<1>2. LoopInv => WritesWhole
  BY DEF LoopInv
<1>3. QED
  BY <1>1, <1>2, LoopInvNext, Invariance, PTL DEF Spec
===========================================================================
