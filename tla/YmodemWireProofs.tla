--------------------------- MODULE YmodemWireProofs ---------------------------
(***************************************************************************)
(* Facts about the bytes on the line, for any block sizes and any check:   *)
(* what get_block returns of the bytes it is given, and that a block       *)
(* send_block has written is read as the block it is.                      *)
(***************************************************************************)
EXTENDS YmodemWire, SequenceTheorems, TLAPS

-----------------------------------------------------------------------------
(* Division. *)

LEMMA Division ==
  ASSUME NEW d \in Nat \ {0}, NEW n \in Nat
  PROVE  n \div d \in Nat /\ n % d \in 0 .. d - 1 /\ n = (n \div d) * d + (n % d)
  OBVIOUS

LEMMA QuotientAndRest ==
  ASSUME NEW d \in Nat \ {0}, NEW q \in Nat, NEW r \in 0 .. d - 1
  PROVE  (q * d + r) \div d = q /\ (q * d + r) % d = r
  OBVIOUS

\* A counter that wraps counts modulo its width.
LEMMA NextModulo ==
  ASSUME NEW d \in Nat \ {0}, NEW n \in Nat
  PROVE  ((n % d) + 1) % d = (n + 1) % d
<1> DEFINE q == n \div d
           r == n % d
<1>1. q \in Nat /\ r \in 0 .. d - 1 /\ n = q * d + r
  BY Division
<1> HIDE DEF q, r
<1>2. CASE r + 1 < d
  <2>1. r + 1 \in 0 .. d - 1 /\ n + 1 = q * d + (r + 1)
    BY <1>1, <1>2
  <2>2. (n + 1) % d = r + 1 /\ (r + 1) % d = r + 1
    BY <1>1, <1>2, <2>1, QuotientAndRest
  <2> QED
    BY <2>2 DEF r
<1>3. CASE r + 1 = d
  <2>1. 0 \in 0 .. d - 1 /\ n + 1 = (q + 1) * d + 0 /\ r + 1 = 1 * d + 0 /\ q + 1 \in Nat
    BY <1>1, <1>3
  <2>2. (n + 1) % d = 0 /\ (r + 1) % d = 0
    BY <2>1, QuotientAndRest
  <2> QED
    BY <2>2 DEF r
<1> QED
  BY <1>1, <1>2, <1>3

-----------------------------------------------------------------------------
(* What get_block returns. *)

Result ==
  [length : Nat, blocktype : Nat, blocknumber : Nat, timed_out : BOOLEAN,
   end_of_batch : BOOLEAN, crc_verified : BOOLEAN, correct_blocknumber : BOOLEAN,
   filename : Nat, filesize : Nat, data : Seq(Nat)]

\* How much get_block reads, and which of its four ways out it takes.
LEMMA BlockCases ==
  ASSUME NEW bytes \in Seq(Nat), NEW expected \in Nat
  PROVE  \/ bytes = <<>> /\ GetBlock(bytes, expected) = [NoBlock EXCEPT !.timed_out = TRUE]
         \/ /\ bytes # <<>> /\ Head(bytes) \in Nat /\ ~StartsBlock(Head(bytes))
            /\ GetBlock(bytes, expected) = ControlByte(Head(bytes))
         \/ /\ bytes # <<>> /\ Head(bytes) \in Nat /\ StartsBlock(Head(bytes))
            /\ GetBlock(bytes, expected) = ShortBlock(bytes)
         \/ /\ bytes # <<>> /\ Head(bytes) \in Nat /\ StartsBlock(Head(bytes))
            /\ FullLength(Head(bytes)) <= Len(bytes)
            /\ GetBlock(bytes, expected) = WholeBlock(bytes, expected)
<1>1. FullLength(Head(bytes)) \in Nat
  BY WireAssumption DEF WireAssumption, FullLength, PayloadSize, Overhead, HeaderLen
<1> QED
  BY <1>1, HeadTailProperties DEF GetBlock

\* A whole block carries the payload its start byte announces, the bytes after
\* the header, and counts as correct only under the expected number.
LEMMA WholeBlockFields ==
  ASSUME NEW bytes \in Seq(Nat), NEW expected \in Nat, bytes # <<>>,
         FullLength(Head(bytes)) <= Len(bytes), Head(bytes) \in Nat
  PROVE  LET b == WholeBlock(bytes, expected)
             size == PayloadSize(Head(bytes))
         IN  /\ b \in Result
             /\ size \in Nat /\ size >= 2
             /\ b.length = size + Overhead
             /\ b.blocktype = Head(bytes) /\ ~b.timed_out
             /\ b.data = SubSeq(bytes, HeaderLen + 1, HeaderLen + size)
             /\ Len(b.data) = size
             /\ b.correct_blocknumber => b.blocknumber = expected
<1> DEFINE size == PayloadSize(Head(bytes))
           payload == SubSeq(bytes, HeaderLen + 1, HeaderLen + size)
           b == WholeBlock(bytes, expected)
<1>1. size \in Nat /\ size >= 2 /\ FullLength(Head(bytes)) = size + 4
  BY WireAssumption DEF WireAssumption, PayloadSize, FullLength, Overhead, HeaderLen
<1>2. \A i \in 4 .. 3 + size : bytes[i] \in Nat
  BY <1>1, LenProperties
<1>3. payload \in Seq(Nat) /\ Len(payload) = size
  <2> HIDE DEF size
  <2>1. 4 \in Int /\ 3 + size \in Int /\ 4 <= 3 + size
    BY <1>1
  <2>2. SubSeq(bytes, 4, 3 + size) \in Seq(Nat) /\ Len(SubSeq(bytes, 4, 3 + size)) = size
    BY <1>1, <1>2, <2>1, SubSeqProperties
  <2> QED
    BY <2>2 DEF HeaderLen
<1>4. payload[1] \in Nat /\ payload[2] \in Nat /\ bytes[2] \in Nat
  <2> HIDE DEF payload, size
  <2> QED
    BY <1>1, <1>3, LenProperties
<1>5. b \in Result
  <2> DEFINE end == IsEndOfBatch(bytes, FullLength(Head(bytes)), bytes[2])
             crc == CrcVerified(payload, bytes[FullLength(Head(bytes))])
             correct == bytes[2] = expected /\ bytes[3] = SeqCount - 1 - bytes[2]
  <2>1. b = [length |-> FullLength(Head(bytes)), blocktype |-> Head(bytes),
             blocknumber |-> bytes[2], timed_out |-> FALSE, end_of_batch |-> end,
             crc_verified |-> crc, correct_blocknumber |-> correct,
             filename |-> payload[1], filesize |-> payload[2], data |-> payload]
    BY DEF WholeBlock
  <2>2. end \in BOOLEAN /\ crc \in BOOLEAN /\ correct \in BOOLEAN
    BY DEF IsEndOfBatch, CrcVerified
  <2> HIDE DEF b, payload, size, end, crc, correct
  <2> QED
    BY <1>1, <1>3, <1>4, <2>1, <2>2 DEF Result
<1>6. b.length = size + 4 /\ b.blocktype = Head(bytes) /\ b.data = payload /\ b.timed_out = FALSE
  BY <1>1 DEF WholeBlock
<1>7. b.blocknumber = bytes[2] /\ (b.correct_blocknumber => bytes[2] = expected)
  BY Zenon DEF WholeBlock
<1> QED
  <2> HIDE DEF b, size
  <2> QED
    BY <1>1, <1>3, <1>5, <1>6, <1>7 DEF b, size, Overhead, HeaderLen

\* Whatever was read, the result is well typed.
LEMMA BlockType ==
  ASSUME NEW bytes \in Seq(Nat), NEW expected \in Nat
  PROVE  GetBlock(bytes, expected) \in Result
<1>1. [NoBlock EXCEPT !.timed_out = TRUE] \in Result
  BY EmptySeq DEF NoBlock, Result
<1>2. ASSUME bytes # <<>>, Head(bytes) \in Nat PROVE ControlByte(Head(bytes)) \in Result
  BY <1>2, EmptySeq DEF ControlByte, NoBlock, Result
<1>3. ASSUME bytes # <<>>, Head(bytes) \in Nat PROVE ShortBlock(bytes) \in Result
  BY <1>3, EmptySeq, LenProperties DEF ShortBlock, NoBlock, Result, IsEndOfBatch
<1> QED
  BY <1>1, <1>2, <1>3, BlockCases, WholeBlockFields

\* get_block takes no more than there is, and something if there is anything.
LEMMA BlockLength ==
  ASSUME NEW bytes \in Seq(Nat), NEW expected \in Nat
  PROVE  /\ GetBlock(bytes, expected).length \in 0 .. Len(bytes)
         /\ GetBlock(bytes, expected).length = 0 <=> bytes = <<>>
<1>1. Len(bytes) \in Nat /\ (bytes = <<>> => Len(bytes) = 0) /\ (bytes # <<>> => Len(bytes) > 0)
  BY EmptySeq, LenProperties
<1>2. [NoBlock EXCEPT !.timed_out = TRUE].length = 0
  BY DEF NoBlock
<1>3. ControlByte(Head(bytes)).length = 1
  BY DEF ControlByte, NoBlock
<1>4. ShortBlock(bytes).length = Len(bytes)
  BY DEF ShortBlock, NoBlock
<1>5. ASSUME bytes # <<>>, Head(bytes) \in Nat, FullLength(Head(bytes)) <= Len(bytes)
      PROVE  WholeBlock(bytes, expected).length \in 1 .. Len(bytes)
  <2>1. WholeBlock(bytes, expected).length = FullLength(Head(bytes))
    BY DEF WholeBlock
  <2> QED
    BY <1>1, <1>5, <2>1, WireAssumption DEF WireAssumption, FullLength, PayloadSize, Overhead, HeaderLen
<1> DEFINE b == GetBlock(bytes, expected)
<1>6. CASE bytes = <<>>
  <2>1. b.length = 0
    BY <1>2, <1>6 DEF GetBlock
  <2> HIDE DEF b
  <2> QED
    BY <1>1, <1>6, <2>1 DEF b
<1>7. CASE bytes # <<>>
  <2>1. b.length \in 1 .. Len(bytes)
    BY <1>1, <1>3, <1>4, <1>5, <1>7, BlockCases
  <2> HIDE DEF b
  <2> QED
    BY <1>1, <1>7, <2>1 DEF b
<1> QED
  BY <1>6, <1>7

\* A block that started and was not cut short is a whole one.
LEMMA NotCutIsWhole ==
  ASSUME NEW bytes \in Seq(Nat), NEW expected \in Nat,
         GetBlock(bytes, expected).length > 0,
         StartsBlock(GetBlock(bytes, expected).blocktype),
         ~GetBlock(bytes, expected).timed_out
  PROVE  /\ bytes # <<>> /\ Head(bytes) \in Nat /\ FullLength(Head(bytes)) <= Len(bytes)
         /\ GetBlock(bytes, expected) = WholeBlock(bytes, expected)
<1>1. [NoBlock EXCEPT !.timed_out = TRUE].timed_out
  BY DEF NoBlock
<1>2. ControlByte(Head(bytes)).blocktype = Head(bytes)
  BY DEF ControlByte, NoBlock
<1>3. ShortBlock(bytes).timed_out
  BY DEF ShortBlock, NoBlock
<1> QED
  BY <1>1, <1>2, <1>3, BlockCases

\* Reading a block leaves a line of bytes; the expected number plays no part
\* in how many were taken.
LEMMA AfterBlockType ==
  ASSUME NEW bytes \in Seq(Nat)
  PROVE  AfterBlock(bytes) \in Seq(Nat)
<1>1. GetBlock(bytes, 0).length \in 0 .. Len(bytes)
  BY BlockLength
<1> QED
  BY <1>1, SubSeqProperties, LenProperties DEF AfterBlock

-----------------------------------------------------------------------------
(* A block on its way. *)

\* What the loops may send as a payload, and the trailer behind it, is bytes.
LEMMA PaddedType ==
  ASSUME NEW data \in Seq(Nat), NEW size \in Nat
  PROVE  Padded(data, size) \in Seq(Nat) /\ Len(Padded(data, size)) = size
<1>1. \A i \in 1 .. size : (IF i <= Len(data) THEN data[i] ELSE Pad) \in Nat
  BY LenProperties DEF Pad
<1>2. Padded(data, size) \in [1 .. size -> Nat]
  BY <1>1 DEF Padded
<1> QED
  BY <1>2, SeqDef, LenProperties

LEMMA Block0Type ==
  ASSUME NEW filename \in Nat, NEW filesize \in Nat
  PROVE  /\ Block0(filename, filesize) \in Seq(Nat)
         /\ Len(Block0(filename, filesize)) = Block128
         /\ Block0(filename, filesize)[1] = filename /\ Block0(filename, filesize)[2] = filesize
<1>1. Block128 \in Nat /\ Block128 >= 2
  BY WireAssumption DEF WireAssumption
<1>2. Block0(filename, filesize) \in [1 .. Block128 -> Nat]
  BY DEF Block0
<1>3. Block0(filename, filesize)[1] = filename /\ Block0(filename, filesize)[2] = filesize
  BY <1>1 DEF Block0
<1> QED
  BY <1>1, <1>2, <1>3, SeqDef, LenProperties

\* Header, payload and trailer stand where send_block puts them.
LEMMA SendBlockShape ==
  ASSUME NEW start \in {SOH, STX}, NEW number \in 0 .. SeqCount - 1, NEW data \in Seq(Nat),
         Trailer(start, data) \in Nat
  PROVE  LET b    == SendBlock(start, number, data)
             size == PayloadSize(start)
         IN  /\ size \in Nat /\ FullLength(start) = size + 4
             /\ b \in Seq(Nat) /\ Len(b) = size + 4
             /\ b[1] = start /\ b[2] = number /\ b[3] = SeqCount - 1 - number
             /\ \A i \in 1 .. size : b[3 + i] = Padded(data, size)[i]
             /\ b[size + 4] = Trailer(start, data)
<1> DEFINE size == PayloadSize(start)
           header == <<start, number, SeqCount - 1 - number>>
           payload == Padded(data, size)
           trailer == Trailer(start, data)
<1>1. size \in Nat /\ FullLength(start) = size + 4
  BY WireAssumption DEF WireAssumption, PayloadSize, FullLength, Overhead, HeaderLen
<1>2. header \in Seq(Nat) /\ Len(header) = 3
      /\ header[1] = start /\ header[2] = number /\ header[3] = SeqCount - 1 - number
  BY WireAssumption DEF WireAssumption, SOH, STX
<1>3. payload \in Seq(Nat) /\ Len(payload) = size
  BY <1>1, PaddedType
<1>4. <<trailer>> \in Seq(Nat) /\ Len(<<trailer>>) = 1 /\ <<trailer>>[1] = trailer
  OBVIOUS
<1> DEFINE front == header \o payload
<1>5. /\ front \in Seq(Nat) /\ Len(front) = size + 3
      /\ front[1] = start /\ front[2] = number /\ front[3] = SeqCount - 1 - number
      /\ \A i \in 1 .. size : front[3 + i] = payload[i]
  <2> HIDE DEF header, payload, size
  <2>1. /\ front \in Seq(Nat) /\ Len(front) = 3 + size
        /\ \A i \in 1 .. 3 + size : front[i] = IF i <= 3 THEN header[i] ELSE payload[i - 3]
    <3> HIDE DEF front
    <3>1. /\ header \o payload \in Seq(Nat) /\ Len(header \o payload) = Len(header) + Len(payload)
          /\ \A i \in 1 .. Len(header) + Len(payload) :
               (header \o payload)[i] = IF i <= Len(header) THEN header[i] ELSE payload[i - Len(header)]
      BY <1>2, <1>3, ConcatProperties
    <3> QED
      BY <1>2, <1>3, <3>1 DEF front
  <2>2. \A i \in 1 .. size : 3 + i \in 1 .. 3 + size /\ ~(3 + i <= 3) /\ (3 + i) - 3 = i
    BY <1>1
  <2> HIDE DEF front
  <2>3. 1 \in 1 .. 3 + size /\ 2 \in 1 .. 3 + size /\ 3 \in 1 .. 3 + size
    BY <1>1
  <2> QED
    <3>1. \A i \in 1 .. size : front[3 + i] = payload[i]
      BY <2>1, <2>2
    <3>2. front[1] = header[1] /\ front[2] = header[2] /\ front[3] = header[3]
      BY <2>1, <2>3
    <3> QED
      BY <1>1, <1>2, <2>1, <3>1, <3>2
<1>6. SendBlock(start, number, data) = front \o <<trailer>>
  BY DEF SendBlock
<1> HIDE DEF front, trailer, size, payload, header
<1>7. LET b == front \o <<trailer>>
      IN  /\ b \in Seq(Nat) /\ Len(b) = size + 4
          /\ \A i \in 1 .. size + 3 : b[i] = front[i]
          /\ b[size + 4] = trailer
  BY <1>1, <1>4, <1>5, ConcatProperties
<1>8. \A i \in 1 .. size : (front \o <<trailer>>)[3 + i] = payload[i]
  BY <1>1, <1>5, <1>7
<1> QED
  BY <1>1, <1>5, <1>6, <1>7, <1>8 DEF size, payload, trailer

\* What get_block should make of a block.
ReadAs(start, number, payload, expected) ==
  [length |-> PayloadSize(start) + Overhead, blocktype |-> start, blocknumber |-> number,
   timed_out |-> FALSE, end_of_batch |-> number = 0 /\ payload[1] = 0,
   crc_verified |-> TRUE, correct_blocknumber |-> number = expected,
   filename |-> payload[1], filesize |-> payload[2], data |-> payload]

\* A block that arrives as it was sent, alone on the line, is read whole, passes
\* the check and counts as correct exactly under its own number; it ends the
\* batch if it has number 0 and a payload that begins with 0.
LEMMA SentIsRead ==
  ASSUME NEW start \in {SOH, STX}, NEW number \in 0 .. SeqCount - 1, NEW data \in Seq(Nat),
         Trailer(start, data) \in Nat, NEW expected \in Nat
  PROVE  GetBlock(SendBlock(start, number, data), expected)
           = ReadAs(start, number, Padded(data, PayloadSize(start)), expected)
<1> DEFINE sent == SendBlock(start, number, data)
           size == PayloadSize(start)
           payload == Padded(data, size)
           part == SubSeq(sent, HeaderLen + 1, HeaderLen + size)
<1>1. /\ size \in Nat /\ FullLength(start) = size + 4 /\ size >= 2
      /\ sent \in Seq(Nat) /\ Len(sent) = size + 4
      /\ sent[1] = start /\ sent[2] = number /\ sent[3] = SeqCount - 1 - number
      /\ \A i \in 1 .. size : sent[3 + i] = payload[i]
      /\ sent[size + 4] = Trailer(start, data)
  <2>1. size >= 2
    BY WireAssumption DEF WireAssumption, PayloadSize
  <2>2. /\ size \in Nat /\ FullLength(start) = size + 4
        /\ sent \in Seq(Nat) /\ Len(sent) = size + 4
        /\ sent[1] = start /\ sent[2] = number /\ sent[3] = SeqCount - 1 - number
        /\ \A i \in 1 .. size : sent[3 + i] = payload[i]
        /\ sent[size + 4] = Trailer(start, data)
    BY SendBlockShape
  <2> QED
    BY <2>1, <2>2, Zenon
<1>2. Head(sent) = start /\ sent # <<>> /\ StartsBlock(start) /\ start \in Nat
  <2> HIDE DEF sent, size
  <2> QED
    BY <1>1, HeadTailProperties, EmptySeq DEF StartsBlock, SOH, STX
<1>3. GetBlock(sent, expected) = WholeBlock(sent, expected)
  <2> HIDE DEF sent, size
  <2> QED
    BY <1>1, <1>2 DEF GetBlock
<1>4. part = payload
  <2>1. payload \in Seq(Nat) /\ Len(payload) = size
    BY <1>1, PaddedType
  <2> HIDE DEF sent, size, payload
  <2>2. \A i \in 4 .. 3 + size : sent[i] \in Nat
    <3>1. \A i \in 4 .. 3 + size : i \in 1 .. Len(sent)
      BY <1>1
    <3> QED
      BY <1>1, <3>1, ElementOfSeq
  <2>3. /\ SubSeq(sent, 4, 3 + size) \in Seq(Nat) /\ Len(SubSeq(sent, 4, 3 + size)) = size
        /\ \A i \in 1 .. size : SubSeq(sent, 4, 3 + size)[i] = sent[3 + i]
    BY <1>1, <2>2, SubSeqProperties
  <2>4. \A i \in 1 .. size : SubSeq(sent, 4, 3 + size)[i] = payload[i]
    BY <1>1, <2>3
  <2>5. SubSeq(sent, 4, 3 + size) = payload
    BY <2>1, <2>3, <2>4, SeqEqual
  <2> QED
    BY <2>5 DEF HeaderLen
<1>5. sent[HeaderLen + 1] = payload[1]
  <2> HIDE DEF sent, size, payload
  <2> QED
    BY <1>1 DEF HeaderLen
<1> DEFINE end == IsEndOfBatch(sent, FullLength(start), sent[2])
           crc == CrcVerified(part, sent[FullLength(start)])
           correct == sent[2] = expected /\ sent[3] = SeqCount - 1 - sent[2]
<1>6. WholeBlock(sent, expected)
        = [length |-> FullLength(start), blocktype |-> start, blocknumber |-> sent[2],
           timed_out |-> FALSE, end_of_batch |-> end,
           crc_verified |-> crc, correct_blocknumber |-> correct,
           filename |-> part[1], filesize |-> part[2], data |-> part]
  <2> HIDE DEF sent
  <2> QED
    BY <1>2, Zenon DEF WholeBlock
<1> HIDE DEF sent, size, payload, part
<1>7. crc = TRUE
  BY <1>1, <1>4 DEF Trailer, payload, size, CrcVerified
<1>8. end = (number = 0 /\ payload[1] = 0)
  BY <1>1, <1>5 DEF HeaderLen, IsEndOfBatch
<1>9. correct = (number = expected)
  BY <1>1
<1>10. FullLength(start) = size + Overhead
  BY <1>1 DEF Overhead, HeaderLen
<1> HIDE DEF crc, end, correct
<1> QED
  BY <1>1, <1>3, <1>4, <1>6, <1>7, <1>8, <1>9, <1>10, Zenon DEF sent, size, payload, ReadAs

-----------------------------------------------------------------------------
(* Where the blocks of a file begin. *)

LEMMA Sizes ==
  /\ Block128 \in Nat \ {0} /\ Block1K \in Nat \ {0} /\ SeqCount \in Nat \ {0}
  /\ 2 <= Block128 /\ Block128 < Block1K /\ 2 <= SeqCount
  /\ PayloadSize(STX) = Block1K /\ PayloadSize(SOH) = Block128
  BY WireAssumption DEF WireAssumption, PayloadSize, SOH, STX

\* Where a file of `size' bytes is after k long and m short blocks: the short
\* ones come when no long one fits any more.
AtBlock(o, size, k, m) ==
  /\ o = k * Block1K + m * Block128
  /\ k * Block1K <= size
  /\ m > 0 => size - k * Block1K < Block1K

\* What a block takes of the `left' bytes still to send.
ChunkOf(left) == Min2(left, IF left >= Block1K THEN Block1K ELSE Block128)

LEMMA NextPosition ==
  ASSUME NEW o \in Nat, NEW size \in Nat, o < size, NEW k \in Nat, NEW m \in Nat,
         AtBlock(o, size, k, m)
  PROVE  /\ ChunkOf(size - o) \in 1 .. size - o
         /\ o + ChunkOf(size - o) < size =>
              \/ AtBlock(o + ChunkOf(size - o), size, k + 1, m)
              \/ AtBlock(o + ChunkOf(size - o), size, k, m + 1)
<1> DEFINE left == size - o
           chunk == ChunkOf(left)
<1>1. left \in Nat /\ left > 0 /\ o = size - left
  OBVIOUS
<1>2. k * Block1K \in Nat /\ m * Block128 \in Nat /\ (m = 0 <=> m * Block128 = 0)
      /\ (k + 1) * Block1K = k * Block1K + Block1K
      /\ (m + 1) * Block128 = m * Block128 + Block128
  BY Sizes
<1>3. CASE left >= Block1K
  <2>1. chunk = Block1K
    BY <1>1, <1>3, Sizes DEF ChunkOf, Min2
  <2>2. m = 0
    BY <1>1, <1>2, <1>3, Sizes DEF AtBlock
  <2> QED
    BY <1>1, <1>2, <1>3, <2>1, <2>2, Sizes DEF AtBlock
<1>4. CASE left < Block1K
  <2>1. chunk \in 1 .. left /\ (left - chunk > 0 => chunk = Block128)
    BY <1>1, <1>4, Sizes DEF ChunkOf, Min2
  <2>2. size - k * Block1K < Block1K
    BY <1>1, <1>2, <1>4, Sizes DEF AtBlock
  <2> HIDE DEF chunk
  <2> QED
    BY <1>1, <1>2, <2>1, <2>2, Sizes DEF AtBlock, chunk
<1> QED
  BY <1>1, <1>3, <1>4, Sizes

-----------------------------------------------------------------------------
(* Payloads. *)

\* The part of a payload that is not padding is the part of the file it was
\* cut from.
LEMMA PaddedBegins ==
  ASSUME NEW s \in Seq(Nat), NEW o \in Nat, NEW n \in Nat \ {0}, o + n <= Len(s),
         NEW size \in Nat, n <= size
  PROVE  SubSeq(Padded(SubSeq(s, o + 1, o + n), size), 1, n) = SubSeq(s, o + 1, o + n)
<1> DEFINE data == SubSeq(s, o + 1, o + n)
           payload == Padded(data, size)
           begin == SubSeq(payload, 1, n)
<1>1. data \in Seq(Nat) /\ Len(data) = n
  <2>1. o + 1 \in Int /\ o + n \in Int /\ o + 1 <= o + n /\ (o + n) - (o + 1) + 1 = n
    OBVIOUS
  <2>2. \A i \in o + 1 .. o + n : s[i] \in Nat
    BY LenProperties
  <2> QED
    BY <2>1, <2>2, SubSeqProperties
<1>2. payload \in Seq(Nat) /\ Len(payload) = size /\ \A i \in 1 .. n : payload[i] = data[i]
  <2> HIDE DEF data
  <2> QED
    <3>1. payload \in Seq(Nat) /\ Len(payload) = size
      BY <1>1, PaddedType
    <3>2. \A i \in 1 .. n : i \in 1 .. size /\ i <= Len(data)
      BY <1>1
    <3> QED
      BY <3>1, <3>2 DEF Padded
<1>3. begin \in Seq(Nat) /\ Len(begin) = n /\ \A i \in 1 .. n : begin[i] = payload[i]
  <2> HIDE DEF payload
  <2>1. \A i \in 1 .. n : payload[i] \in Nat
    BY <1>2, LenProperties
  <2>2. \A i \in 1 .. n : i \in 1 .. n - 1 + 1 /\ 1 + i - 1 = i
    OBVIOUS
  <2>3. /\ begin \in Seq(Nat) /\ Len(begin) = n - 1 + 1
        /\ \A i \in 1 .. n - 1 + 1 : begin[i] = payload[1 + i - 1]
    BY <2>1, SubSeqProperties
  <2> HIDE DEF begin
  <2> QED
    BY <2>2, <2>3
<1> HIDE DEF begin, payload, data
<1>4. begin = data
  BY <1>1, <1>2, <1>3, SeqEqual
<1> QED
  BY <1>4 DEF begin, payload, data

\* A block that was read alone leaves nothing behind.
LEMMA SentIsTaken ==
  ASSUME NEW start \in {SOH, STX}, NEW number \in 0 .. SeqCount - 1, NEW data \in Seq(Nat),
         Trailer(start, data) \in Nat
  PROVE  AfterBlock(SendBlock(start, number, data)) = <<>>
<1> DEFINE sent == SendBlock(start, number, data)
<1>1. Len(sent) = PayloadSize(start) + 4 /\ PayloadSize(start) \in Nat
  BY SendBlockShape
<1>2. GetBlock(sent, 0).length = PayloadSize(start) + 4
  <2>1. \A expected \in Nat :
          GetBlock(sent, expected) = ReadAs(start, number, Padded(data, PayloadSize(start)), expected)
    BY SentIsRead
  <2>2. GetBlock(sent, 0).length = PayloadSize(start) + Overhead
    BY <2>1 DEF ReadAs
  <2> QED
    BY <2>2 DEF Overhead, HeaderLen
<1> HIDE DEF sent
<1>3. AfterBlock(sent) = SubSeq(sent, Len(sent) + 1, Len(sent))
  BY <1>1, <1>2 DEF AfterBlock
<1> QED
  BY <1>1, <1>3, SubSeqEmpty DEF sent
==============================================================================
