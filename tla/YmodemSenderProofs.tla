-------------------------- MODULE YmodemSenderProofs --------------------------
(***************************************************************************)
(* The sender numbers its blocks by their place in the file and never says *)
(* that a file is over before all of it was acknowledged, whatever it is   *)
(* answered, for any files, block sizes, widths of the number and limits.  *)
(***************************************************************************)
EXTENDS YmodemSender, YmodemWireProofs

-----------------------------------------------------------------------------
(* The inductive invariant. *)

\* The number of the next block counts the blocks before it.
Position ==
  pc \in DataLoop =>
    \E k, m \in Nat : AtBlock(offset, filesize, k, m) /\ blocknumber = (1 + k + m) % SeqCount

Inv == TypeOK /\ Position /\ EotAfterAll

LEMMA FileType ==
  ASSUME NEW i \in DOMAIN Files
  PROVE  /\ Files[i].filename \in Nat \ {0} /\ Files[i].data \in Seq(Nat)
         /\ Len(Files[i].data) \in Nat
<1> DEFINE Item == [filename : Nat \ {0}, data : Seq(Nat)]
<1>1. Files \in Seq(Item) /\ i \in 1 .. Len(Files)
  BY SenderAssumption, LenProperties DEF SenderAssumption
<1>2. Files[i] \in Item
  <2> HIDE DEF Item
  <2> QED
    BY <1>1, ElementOfSeq
<1> QED
  BY <1>2, LenProperties

LEMMA Limit == MaxRetry \in Nat \ {0}
  BY SenderAssumption, Zenon DEF SenderAssumption

\* The file in hand, and the byte an answer is.
LEMMA CurrentFileType ==
  ASSUME TypeOK
  PROVE  /\ filecounter \in DOMAIN Files /\ filesize \in Nat
         /\ File.filename \in Nat \ {0} /\ File.data \in Seq(Nat)
         /\ rx' \in Seq(Nat) \/ ~TakeAnswer
<1>1. filecounter \in DOMAIN Files /\ rx \in Seq(Nat)
  BY DEF TypeOK
<1>2. TakeAnswer => rx' \in Seq(Nat)
  BY <1>1, HeadTailProperties, EmptySeq DEF TakeAnswer
<1> QED
  BY <1>1, <1>2, FileType DEF File, filesize

\* A turn of a retry loop goes on within the limit or ends the session.
LEMMA TryAgainFacts ==
  ASSUME TypeOK, pc # "closed", NEW loop \in Loops \ {"closed"},
         NEW text \in {"Done", "MaxRetries"}, TryAgain(loop, text)
  PROVE  /\ retry' \in 0 .. MaxRetry
         /\ \/ pc' = loop /\ message' = "none" /\ retry' < MaxRetry
            \/ pc' = "closed" /\ message' = text
<1>1. retry \in Nat /\ retry < MaxRetry /\ MaxRetry \in Nat /\ message = "none"
  <2>1. message = "none" /\ retry \in 0 .. MaxRetry /\ retry < MaxRetry
    BY Zenon DEF TypeOK
  <2> QED
    BY <2>1, Limit
<1>2. CASE retry + 1 >= MaxRetry
  BY <1>1, <1>2 DEF TryAgain, Close
<1>3. CASE ~(retry + 1 >= MaxRetry)
  BY <1>1, <1>3 DEF TryAgain
<1> QED
  BY <1>2, <1>3

\* A chunk is part of what remains, and not empty: the invariant's witness of
\* the position moves by one.
LEMMA ChunkFacts ==
  ASSUME TypeOK, pc \in DataLoop, NEW k \in Nat, NEW m \in Nat,
         AtBlock(offset, filesize, k, m)
  PROVE  /\ Chunk \in 1 .. Remaining /\ Remaining = filesize - offset
         /\ Remaining - Chunk > 0 =>
              \/ AtBlock(offset + Chunk, filesize, k + 1, m)
              \/ AtBlock(offset + Chunk, filesize, k, m + 1)
<1>1. offset \in Nat /\ filesize \in Nat /\ offset < filesize
  BY CurrentFileType DEF TypeOK
<1>2. Remaining = filesize - offset
  BY DEF Remaining
<1>3. Chunk = ChunkOf(filesize - offset)
  BY <1>1, <1>2, Sizes DEF Chunk, ChunkStart, ChunkOf
<1>4. /\ Chunk \in 1 .. filesize - offset
      /\ offset + Chunk < filesize =>
           \/ AtBlock(offset + Chunk, filesize, k + 1, m)
           \/ AtBlock(offset + Chunk, filesize, k, m + 1)
  BY <1>1, <1>3, NextPosition
<1> QED
  BY <1>1, <1>2, <1>4

-----------------------------------------------------------------------------
(* One step per action. *)

\* What the sender writes is bytes.
LEMMA SendType ==
  ASSUME TypeOK, Send PROVE tx' \in Seq(Nat)
<1>1. tx \in Seq(Nat) /\ blocknumber \in 0 .. SeqCount - 1 /\ 0 \in 0 .. SeqCount - 1
  BY Sizes DEF TypeOK
<1>2. ASSUME NEW bytes \in Seq(Nat), Write(bytes) PROVE tx' \in Seq(Nat)
  BY <1>1, <1>2, ConcatProperties DEF Write
<1>3. CASE SendHeader
  <2> DEFINE header == Block0(File.filename, filesize)
  <2>1. header \in Seq(Nat)
    BY CurrentFileType, Block0Type
  <2>2. Trailer(SOH, header) \in Nat
    BY TrailerAssumption, CurrentFileType DEF TrailerAssumption, Sendable, File, filesize
  <2>3. SendBlock(SOH, 0, header) \in Seq(Nat)
    <3> HIDE DEF header
    <3> QED
      BY <1>1, <2>1, <2>2, SendBlockShape
  <2> QED
    BY <1>2, <1>3, <2>3 DEF SendHeader
<1>4. CASE SendData
  <2>1. offset \in Nat /\ filesize \in Nat /\ offset < filesize /\ File.data \in Seq(Nat)
        /\ filecounter \in DOMAIN Files /\ filesize = Len(File.data)
    BY <1>4, CurrentFileType DEF TypeOK, SendData, DataLoop, filesize
  <2>2. Chunk \in 1 .. filesize - offset /\ ChunkStart \in {SOH, STX}
    BY <2>1, Sizes DEF Chunk, ChunkStart, Remaining, Min2
  <2> DEFINE data == SubSeq(File.data, offset + 1, offset + Chunk)
  <2>3. offset + 1 \in 1 .. filesize /\ offset + Chunk \in 1 .. filesize
    BY <2>1, <2>2
  <2>4. data \in Seq(Nat)
    <3>1. \A i \in offset + 1 .. offset + Chunk : i \in 1 .. Len(File.data)
      BY <2>1, <2>2
    <3>2. \A i \in offset + 1 .. offset + Chunk : File.data[i] \in Nat
      BY <2>1, <3>1, ElementOfSeq
    <3> QED
      BY <2>1, <2>2, <3>2, SubSeqProperties
  <2>5. Trailer(ChunkStart, data) \in Nat
    <3>1. File = Files[filecounter] /\ filesize = Len(Files[filecounter].data)
      BY DEF File, filesize
    <3> QED
      BY <2>1, <2>2, <2>3, <3>1, TrailerAssumption DEF TrailerAssumption, Sendable
  <2>6. SendBlock(ChunkStart, blocknumber, data) \in Seq(Nat)
    <3> HIDE DEF data
    <3> QED
      BY <1>1, <2>2, <2>4, <2>5, SendBlockShape
  <2> QED
    BY <1>2, <1>4, <2>6 DEF SendData
<1>5. CASE SendEot
  <2>1. <<EOT>> \in Seq(Nat)
    BY DEF EOT
  <2>2. Write(<<EOT>>)
    BY <1>5, Zenon DEF SendEot
  <2> QED
    BY <1>2, <2>1, <2>2
<1>6. CASE SendFinal
  <2>1. EmptyBlock0 \in Seq(Nat)
    BY Block0Type DEF EmptyBlock0
  <2>2. SendBlock(SOH, 0, EmptyBlock0) \in Seq(Nat)
    BY <1>1, <2>1, TrailerAssumption, SendBlockShape DEF TrailerAssumption
  <2> QED
    BY <1>2, <1>6, <2>2 DEF SendFinal
<1> QED
  BY <1>3, <1>4, <1>5, <1>6 DEF Send

LEMMA SendStep ==
  ASSUME Inv, Send PROVE Inv'
<1>1. tx' \in Seq(Nat)
  BY SendType DEF Inv
<1>2. /\ UNCHANGED <<filecounter, offset, blocknumber, retry, message, rx>>
      /\ \/ pc = "header" /\ pc' = "headerReply"
         \/ pc = "data" /\ pc' = "dataReply"
         \/ pc = "eot" /\ pc' = "eotReply"
         \/ pc = "final" /\ pc' = "finalReply"
  BY DEF Send, SendHeader, SendData, SendEot, SendFinal
<1>3. TypeOK'
  BY <1>1, <1>2 DEF Inv, TypeOK, Loops, Awaiting, AwaitingAnswer, AwaitingRequest, DataLoop, File, filesize
<1>4. Position'
  BY <1>2 DEF Inv, Position, DataLoop, File, filesize
<1>5. EotAfterAll'
  BY <1>2 DEF Inv, EotAfterAll, Finished
<1> QED
  BY <1>3, <1>4, <1>5 DEF Inv

LEMMA StartStep ==
  ASSUME Inv, Start \/ WaitReceiver PROVE Inv'
<1>1. rx' \in Seq(Nat)
  BY HeadTailProperties, EmptySeq DEF Inv, TypeOK, Start, WaitReceiver
<1>2. /\ UNCHANGED <<filecounter, offset, blocknumber, message, tx>>
      /\ pc \in {"start", "waitReceiver"}
      /\ pc' \in {"waitReceiver", "header"} /\ retry' \in {retry, 0}
  BY DEF Start, WaitReceiver, Enter
<1>3. TypeOK'
  BY <1>1, <1>2, Limit DEF Inv, TypeOK, Loops, Awaiting, AwaitingAnswer, AwaitingRequest, DataLoop
<1>4. Position' /\ EotAfterAll'
  BY <1>2 DEF Inv, Position, EotAfterAll, Finished, DataLoop
<1> QED
  BY <1>3, <1>4 DEF Inv

\* A file begins with block 1 at its first byte, or ends at once.
LEMMA FirstBlock ==
  ASSUME Inv, offset' = 0, blocknumber' = 1, UNCHANGED filecounter,
         pc' = NextData(filesize), message' = message
  PROVE  /\ pc' \in {"data", "eot"} /\ Position'
         /\ (pc' \in DataLoop => offset' < filesize')
         /\ (pc' = "eot" => Finished(filecounter)')
<1>1. filesize \in Nat /\ filesize' = filesize
  BY CurrentFileType DEF Inv, filesize, File
<1>2. CASE filesize > 0
  <2>1. AtBlock(0, filesize, 0, 0) /\ 1 = (1 + 0 + 0) % SeqCount
    <3>1. 1 = 0 * SeqCount + 1 /\ 1 \in 0 .. SeqCount - 1
      BY Sizes
    <3>2. 1 % SeqCount = 1
      BY <3>1, Sizes, QuotientAndRest
    <3> QED
      BY <1>1, <3>2, Sizes DEF AtBlock
  <2> QED
    BY <1>1, <1>2, <2>1 DEF NextData, Position, DataLoop
<1>3. CASE filesize = 0
  BY <1>1, <1>3 DEF NextData, Position, DataLoop, Finished, filesize, File
<1> QED
  BY <1>1, <1>2, <1>3

LEMMA WaitRequestStep ==
  ASSUME Inv, WaitRequest PROVE Inv'
<1> USE DEF Loops, Awaiting, AwaitingAnswer, AwaitingRequest, DataLoop
<1>1. /\ rx' \in Seq(Nat) /\ UNCHANGED <<filecounter, tx>> /\ pc \in AwaitingRequest
      /\ filecounter' \in DOMAIN Files /\ tx' \in Seq(Nat)
  BY CurrentFileType DEF Inv, TypeOK, WaitRequest
<1>2. CASE Answer # REQ
  <2>1. TryAgain(pc, "MaxRetries") /\ UNCHANGED <<offset, blocknumber>>
    BY <1>2 DEF WaitRequest
  <2>2. /\ retry' \in 0 .. MaxRetry
        /\ \/ pc' = pc /\ message' = "none" /\ retry' < MaxRetry
           \/ pc' = "closed" /\ message' = "MaxRetries"
    BY <1>1, <2>1, TryAgainFacts DEF Inv
  <2>3. TypeOK'
    BY <1>1, <2>1, <2>2 DEF Inv, TypeOK
  <2>4. Position' /\ EotAfterAll'
    BY <1>1, <2>1, <2>2 DEF Inv, Position, EotAfterAll, Finished
  <2> QED
    BY <2>3, <2>4 DEF Inv
<1>3. CASE Answer = REQ
  <2>1. message' = message /\ message' = "none" /\ retry' = 0
    <3>1. message = "none"
      BY <1>1, Zenon DEF Inv, TypeOK
    <3> QED
      BY <1>3, <3>1 DEF WaitRequest, Enter
  <2>2. CASE pc = "waitDataC" /\ Enter(NextData(filesize)) /\ offset' = 0 /\ blocknumber' = 1
    <3>1. pc' \in {"data", "eot"} /\ Position' /\ (pc' \in DataLoop => offset' < filesize')
          /\ (pc' = "eot" => Finished(filecounter)')
      BY <1>1, <2>1, <2>2, FirstBlock DEF Enter
    <3>2. TypeOK'
      BY <1>1, <2>1, <2>2, <3>1, Sizes, Limit DEF Inv, TypeOK
    <3>3. EotAfterAll'
      BY <1>1, <2>1, <3>1 DEF EotAfterAll
    <3> QED
      BY <3>1, <3>2, <3>3 DEF Inv
  <2>3. CASE /\ (pc = "waitC" /\ pc' = "header") \/ (pc = "waitFinalC" /\ pc' = "final")
             /\ UNCHANGED <<offset, blocknumber>>
    <3>1. TypeOK'
      BY <1>1, <2>1, <2>3, Limit DEF Inv, TypeOK
    <3>2. Position' /\ EotAfterAll'
      BY <1>1, <2>1, <2>3 DEF Inv, Position, EotAfterAll, Finished
    <3> QED
      BY <3>1, <3>2 DEF Inv
  <2>4. \/ pc = "waitC" /\ Enter("header") /\ UNCHANGED <<offset, blocknumber>>
        \/ pc = "waitFinalC" /\ Enter("final") /\ UNCHANGED <<offset, blocknumber>>
        \/ pc = "waitDataC" /\ Enter(NextData(filesize)) /\ offset' = 0 /\ blocknumber' = 1
    BY <1>3, Zenon DEF WaitRequest
  <2>5. CASE pc = "waitC" /\ Enter("header") /\ UNCHANGED <<offset, blocknumber>>
    <3>1. pc = "waitC" /\ pc' = "header" /\ UNCHANGED <<offset, blocknumber>>
      BY <2>5, Zenon DEF Enter
    <3> QED
      BY <2>3, <3>1
  <2>6. CASE pc = "waitFinalC" /\ Enter("final") /\ UNCHANGED <<offset, blocknumber>>
    <3>1. pc = "waitFinalC" /\ pc' = "final" /\ UNCHANGED <<offset, blocknumber>>
      BY <2>6, Zenon DEF Enter
    <3> QED
      BY <2>3, <3>1
  <2> QED
    BY <2>2, <2>4, <2>5, <2>6
<1> QED
  BY <1>2, <1>3

\* An answer that is not taken for an acknowledgement changes nothing but the
\* count of attempts, and may end the session.
LEMMA RetryStep ==
  ASSUME Inv, pc # "closed", TakeAnswer, NEW loop \in Loops \ {"closed"},
         NEW text \in {"Done", "MaxRetries"}, TryAgain(loop, text),
         UNCHANGED <<filecounter, offset, blocknumber, tx>>,
         loop \in DataLoop => pc \in DataLoop,
         loop \in {"eot", "eotReply"} => pc \in {"eot", "eotReply"},
         loop = "waitC" => pc = "waitC",
         loop \in {"waitFinalC", "final", "finalReply"} \/ text = "Done"
           => pc \in {"waitFinalC", "final", "finalReply"}
  PROVE  Inv'
<1>1. /\ rx' \in Seq(Nat) /\ filecounter' \in DOMAIN Files /\ filecounter' = filecounter
  BY CurrentFileType DEF Inv
<1>2. /\ retry' \in 0 .. MaxRetry
      /\ \/ pc' = loop /\ message' = "none" /\ retry' < MaxRetry
         \/ pc' = "closed" /\ message' = text
  BY TryAgainFacts DEF Inv
<1>3. TypeOK'
  BY <1>1, <1>2 DEF Inv, TypeOK, DataLoop, Loops, File, filesize
<1>4. Position'
  BY <1>1, <1>2 DEF Inv, Position, DataLoop, File, filesize
<1>5. EotAfterAll'
  BY <1>1, <1>2 DEF Inv, EotAfterAll, Finished
<1> QED
  BY <1>3, <1>4, <1>5 DEF Inv

\* A CAN ends the session as the receiver's own doing.
LEMMA AbortStep ==
  ASSUME Inv, TakeAnswer, Close("ReceiverAborts"),
         UNCHANGED <<filecounter, offset, blocknumber, retry, tx>>
  PROVE  Inv'
<1>1. rx' \in Seq(Nat) /\ pc' = "closed" /\ message' = "ReceiverAborts"
  BY CurrentFileType DEF Inv, Close
<1>2. TypeOK'
  BY <1>1 DEF Inv, TypeOK, DataLoop, Loops
<1>3. Position' /\ EotAfterAll'
  BY <1>1 DEF Position, DataLoop, EotAfterAll
<1> QED
  BY <1>2, <1>3 DEF Inv

LEMMA HeaderReplyStep ==
  ASSUME Inv, HeaderReply PROVE Inv'
<1> USE DEF Loops, Awaiting, AwaitingAnswer, AwaitingRequest, DataLoop
<1>1. /\ pc = "headerReply" /\ TakeAnswer /\ UNCHANGED <<filecounter, offset, blocknumber, tx>>
  BY DEF HeaderReply
<1>2. CASE Answer = ACK
  <2>1. pc' = "waitDataC" /\ retry' = 0 /\ UNCHANGED message
    <3>1. Enter("waitDataC") /\ UNCHANGED message
      BY <1>2 DEF HeaderReply, ACK, CAN
    <3> QED
      BY <3>1 DEF Enter
  <2>2. rx' \in Seq(Nat)
    BY <1>1, CurrentFileType DEF Inv
  <2>3. TypeOK'
    BY <1>1, <2>1, <2>2, Limit DEF Inv, TypeOK
  <2>4. Position' /\ EotAfterAll'
    BY <1>1, <2>1 DEF Inv, TypeOK, Position, EotAfterAll, Finished
  <2> QED
    BY <2>3, <2>4 DEF Inv
<1>3. CASE Answer = CAN
  <2>1. Close("ReceiverAborts") /\ UNCHANGED retry
    BY <1>3 DEF HeaderReply, ACK, CAN
  <2> QED
    BY <1>1, <2>1, AbortStep
<1>4. CASE Answer \notin {ACK, CAN}
  <2>1. TryAgain("header", "MaxRetries")
    BY <1>4 DEF HeaderReply
  <2> QED
    BY <1>1, <2>1, RetryStep
<1> QED
  BY <1>2, <1>3, <1>4

LEMMA DataReplyStep ==
  ASSUME Inv, DataReply PROVE Inv'
<1> USE DEF Loops, Awaiting, AwaitingAnswer, AwaitingRequest, DataLoop
<1>1. /\ pc = "dataReply" /\ TakeAnswer /\ UNCHANGED <<filecounter, tx>>
  BY DEF DataReply
<1>2. CASE Answer = ACK
  <2>1. /\ offset' = offset + Chunk /\ blocknumber' = NextNumber(blocknumber)
        /\ pc' = NextData(Remaining - Chunk) /\ retry' = 0 /\ UNCHANGED message
    BY <1>2 DEF DataReply, Enter, ACK, CAN
  <2>2. /\ rx' \in Seq(Nat) /\ filecounter' \in DOMAIN Files /\ filesize \in Nat
        /\ filesize' = filesize /\ offset \in Nat /\ offset < filesize
    BY <1>1, CurrentFileType DEF Inv, TypeOK, filesize, File
  <2>3. PICK k, m \in Nat : AtBlock(offset, filesize, k, m) /\ blocknumber = (1 + k + m) % SeqCount
    BY <1>1 DEF Inv, Position
  <2>4. /\ Chunk \in 1 .. Remaining /\ Remaining = filesize - offset
        /\ Remaining - Chunk > 0 =>
             \/ AtBlock(offset + Chunk, filesize, k + 1, m)
             \/ AtBlock(offset + Chunk, filesize, k, m + 1)
    BY <1>1, <2>3, ChunkFacts DEF Inv
  <2>5. blocknumber' = (1 + k + m + 1) % SeqCount /\ blocknumber' \in 0 .. SeqCount - 1
    <3>1. 1 + k + m \in Nat
      OBVIOUS
    <3>2. (((1 + k + m) % SeqCount) + 1) % SeqCount = (1 + k + m + 1) % SeqCount
      BY <3>1, NextModulo, Sizes
    <3>3. (1 + k + m + 1) % SeqCount \in 0 .. SeqCount - 1
      <4>1. 1 + k + m + 1 \in Nat
        BY <3>1
      <4> QED
        BY <4>1, Division, Sizes
    <3> QED
      BY <2>1, <2>3, <3>2, <3>3 DEF NextNumber
  <2>6. /\ pc' = IF Remaining - Chunk > 0 THEN "data" ELSE "eot"
        /\ offset' \in Nat /\ Remaining - Chunk = filesize - offset'
        /\ offset' <= filesize
    BY <2>1, <2>2, <2>4 DEF NextData
  <2>7. TypeOK'
    <3>1. pc' \in DataLoop => offset' < filesize'
      BY <2>2, <2>6
    <3> QED
      BY <1>1, <2>1, <2>2, <2>5, <2>6, <3>1, Limit DEF Inv, TypeOK
  <2>8. Position'
    <3>1. CASE Remaining - Chunk > 0
      <4>1. \/ AtBlock(offset', filesize', k + 1, m) /\ blocknumber' = (1 + (k + 1) + m) % SeqCount
            \/ AtBlock(offset', filesize', k, m + 1) /\ blocknumber' = (1 + k + (m + 1)) % SeqCount
        <5>1. 1 + k + m + 1 = 1 + (k + 1) + m /\ 1 + k + m + 1 = 1 + k + (m + 1)
          OBVIOUS
        <5> QED
          BY <2>1, <2>2, <2>4, <2>5, <3>1, <5>1
      <4> QED
        BY <4>1 DEF Position
    <3>2. CASE ~(Remaining - Chunk > 0)
      BY <2>6, <3>2 DEF Position
    <3> QED
      BY <3>1, <3>2
  <2>9. EotAfterAll'
    <3>1. message' = "none" /\ pc' \in {"data", "eot"}
      BY <1>1, <2>1, <2>6, Zenon DEF Inv, TypeOK
    <3>2. pc' = "eot" => offset' = filesize
      BY <2>2, <2>6
    <3> QED
      BY <1>1, <3>1, <3>2 DEF EotAfterAll, Finished, filesize, File
  <2> QED
    BY <2>7, <2>8, <2>9 DEF Inv
<1>3. CASE Answer = CAN
  <2>1. Close("ReceiverAborts") /\ UNCHANGED <<offset, blocknumber, retry>>
    BY <1>3 DEF DataReply, ACK, CAN
  <2> QED
    BY <1>1, <2>1, AbortStep
<1>4. CASE Answer \notin {ACK, CAN}
  <2>1. TryAgain("data", "MaxRetries") /\ UNCHANGED <<offset, blocknumber>>
    BY <1>4 DEF DataReply
  <2> QED
    BY <1>1, <2>1, RetryStep
<1> QED
  BY <1>2, <1>3, <1>4

LEMMA EotReplyStep ==
  ASSUME Inv, EotReply PROVE Inv'
<1> USE DEF Loops, Awaiting, AwaitingAnswer, AwaitingRequest, DataLoop
<1>1. pc = "eotReply" /\ TakeAnswer /\ UNCHANGED <<offset, blocknumber, tx>>
  BY DEF EotReply
<1>2. CASE Answer = ACK
  <2>1. /\ UNCHANGED message /\ retry' = 0
        /\ \/ filecounter < Len(Files) /\ filecounter' = filecounter + 1 /\ pc' = "waitC"
           \/ ~(filecounter < Len(Files)) /\ filecounter' = filecounter /\ pc' = "waitFinalC"
    BY <1>2 DEF EotReply, Enter
  <2>2. rx' \in Seq(Nat) /\ filecounter \in 1 .. Len(Files) /\ Len(Files) \in Nat
    <3>1. Len(Files) \in Nat /\ DOMAIN Files = 1 .. Len(Files)
      BY SenderAssumption, LenProperties DEF SenderAssumption
    <3> QED
      BY <1>1, <3>1, CurrentFileType DEF Inv
  <2>3. filecounter' \in DOMAIN Files
    <3>1. DOMAIN Files = 1 .. Len(Files)
      BY SenderAssumption, LenProperties DEF SenderAssumption
    <3> QED
      BY <2>1, <2>2, <3>1
  <2>4. Finished(filecounter) /\ message = "none" /\ offset' = offset
    BY <1>1, Zenon DEF Inv, EotAfterAll, TypeOK
  <2>5. TypeOK'
    BY <1>1, <2>1, <2>2, <2>3, Limit DEF Inv, TypeOK
  <2>6. Position'
    BY <2>1 DEF Position
  <2>7. EotAfterAll'
    <3>1. CASE pc' = "waitC"
      <4>1. filecounter' > 1 /\ filecounter' - 1 = filecounter
        BY <2>1, <2>2, <3>1
      <4> QED
        BY <2>1, <2>4, <3>1, <4>1 DEF EotAfterAll, Finished
    <3>2. CASE pc' = "waitFinalC"
      <4>1. filecounter' = Len(Files) /\ filecounter' = filecounter
        BY <2>1, <2>2, <3>2
      <4> QED
        BY <2>1, <2>4, <3>2, <4>1 DEF EotAfterAll, Finished
    <3> QED
      BY <2>1, <3>1, <3>2
  <2> QED
    BY <2>5, <2>6, <2>7 DEF Inv
<1>3. CASE Answer # ACK
  <2>1. TryAgain("eot", "MaxRetries") /\ UNCHANGED filecounter
    BY <1>3 DEF EotReply
  <2> QED
    BY <1>1, <2>1, RetryStep
<1> QED
  BY <1>2, <1>3

LEMMA FinalReplyStep ==
  ASSUME Inv, FinalReply PROVE Inv'
<1> USE DEF Loops, Awaiting, AwaitingAnswer, AwaitingRequest, DataLoop
<1>1. pc = "finalReply" /\ TakeAnswer /\ UNCHANGED <<filecounter, offset, blocknumber, tx>>
  BY DEF FinalReply
<1>2. CASE Answer = ACK
  <2>1. pc' = "closed" /\ message' = "Done" /\ UNCHANGED retry /\ rx' \in Seq(Nat)
    BY <1>1, <1>2, CurrentFileType DEF FinalReply, Close, Inv
  <2>2. TypeOK'
    BY <1>1, <2>1 DEF Inv, TypeOK
  <2>3. Position' /\ EotAfterAll'
    BY <1>1, <2>1 DEF Inv, Position, EotAfterAll, Finished
  <2> QED
    BY <2>2, <2>3 DEF Inv
<1>3. CASE Answer # ACK
  <2>1. TryAgain("final", "Done")
    BY <1>3 DEF FinalReply
  <2> QED
    BY <1>1, <2>1, RetryStep
<1> QED
  BY <1>2, <1>3

\* The steps that touch nothing but the line keep the invariant as long as they
\* leave bytes on it: the line's own, and whatever runs at its other end.
LineMoves == UNCHANGED <<pc, filecounter, offset, blocknumber, retry, message>>

LEMMA LineKeeps ==
  ASSUME Inv, LineMoves, rx' \in Seq(Nat), tx' \in Seq(Nat)
  PROVE  Inv'
<1>1. TypeOK'
  BY DEF LineMoves, Inv, TypeOK, DataLoop, Loops, filesize, File
<1>2. Position' /\ EotAfterAll'
  BY DEF LineMoves, Inv, Position, EotAfterAll, Finished, DataLoop, filesize, File
<1> QED
  BY <1>1, <1>2 DEF Inv

\* A sender on its own takes its own steps or leaves them to the line.
LEMMA StepOrLine ==
  ASSUME Inv, [Next]_vars
  PROVE  Step \/ (LineMoves /\ rx' \in Seq(Nat) /\ tx' \in Seq(Nat))
<1>1. CASE Deliver
  <2>1. PICK c \in Answers : rx' = Append(rx, c)
    BY <1>1 DEF Deliver
  <2>2. c \in Nat /\ rx \in Seq(Nat) /\ tx \in Seq(Nat)
    BY SenderAssumption, Zenon DEF SenderAssumption, Inv, TypeOK
  <2>3. Append(rx, c) \in Seq(Nat)
    BY <2>2, AppendProperties
  <2> QED
    BY <1>1, <2>1, <2>2, <2>3 DEF Deliver, LineMoves
<1>2. CASE CarryAway
  BY <1>2, EmptySeq DEF CarryAway, LineMoves, Inv, TypeOK
<1>3. CASE UNCHANGED vars
  BY <1>3 DEF vars, LineMoves, Inv, TypeOK
<1> QED
  BY <1>1, <1>2, <1>3 DEF Next

LEMMA Initially ==
  ASSUME Init PROVE Inv
<1>1. 1 \in DOMAIN Files
  <2>1. DOMAIN Files = 1 .. Len(Files) /\ Len(Files) \in Nat /\ Len(Files) # 0
    BY SenderAssumption, LenProperties, EmptySeq DEF SenderAssumption
  <2> QED
    BY <2>1
<1>2. TypeOK
  BY <1>1, Limit, Sizes, EmptySeq
     DEF Init, TypeOK, Loops, DataLoop, Awaiting, AwaitingAnswer, AwaitingRequest
<1>3. Position /\ EotAfterAll
  BY DEF Init, Position, DataLoop, EotAfterAll
<1> QED
  BY <1>2, <1>3 DEF Inv

\* Every step of the program keeps the invariant.
LEMMA StepKeeps ==
  ASSUME Inv, Step PROVE Inv'
  BY StartStep, SendStep, WaitRequestStep, HeaderReplyStep, DataReplyStep, EotReplyStep,
     FinalReplyStep, Zenon DEF Step, Reply

LEMMA Inductive ==
  ASSUME Inv, [Next]_vars PROVE Inv'
  BY StepOrLine, StepKeeps, LineKeeps

-----------------------------------------------------------------------------
(* The theorems. *)

LEMMA Invariance == Spec => []Inv
  BY Initially, Inductive, PTL DEF Spec

\* ymodem_send_cpp's locals keep their types: the unsigned filesize - offset
\* never wraps, and no retry loop runs past its limit.
THEOREM SenderTypes == Spec => []TypeOK
<1>1. Inv => TypeOK
  BY DEF Inv
<1> QED
  BY <1>1, Invariance, PTL

\* EOT is sent only when every byte of the file was acknowledged, the closing
\* block and Done only after that holds of the last file.
THEOREM EotComesLast == Spec => []EotAfterAll
<1>1. Inv => EotAfterAll
  BY DEF Inv
<1> QED
  BY <1>1, Invariance, PTL

\* The position the invariant describes is the one the property computes.
LEMMA PositionIsNumbered ==
  ASSUME Inv PROVE NumberMatchesOffset
<1> SUFFICES ASSUME pc \in DataLoop
             PROVE  /\ blocknumber = (1 + BlocksBefore(offset)) % SeqCount
                    /\ IF offset <= Whole1K
                       THEN offset % Block1K = 0
                       ELSE (offset - Whole1K) % Block128 = 0
  BY Zenon DEF NumberMatchesOffset
<1>1. offset \in Nat /\ filesize \in Nat /\ offset < filesize
  BY CurrentFileType DEF Inv, TypeOK
<1>2. PICK k, m \in Nat : AtBlock(offset, filesize, k, m) /\ blocknumber = (1 + k + m) % SeqCount
  BY DEF Inv, Position
<1> DEFINE w == filesize \div Block1K
           r == filesize % Block1K
<1>3. w \in Nat /\ r \in 0 .. Block1K - 1 /\ filesize = w * Block1K + r /\ Whole1K = w * Block1K
  BY <1>1, Division, Sizes DEF Whole1K
<1> HIDE DEF w, r
<1>4. CASE m = 0
  <2>1. offset = k * Block1K + 0 /\ 0 \in 0 .. Block1K - 1 /\ 0 * Block128 = 0
    BY <1>2, <1>4, Sizes DEF AtBlock
  <2>2. offset \div Block1K = k /\ offset % Block1K = 0
    BY <2>1, Sizes, QuotientAndRest
  <2>3. offset <= Whole1K
    <3>1. k <= w
      <4>1. CASE k >= w + 1
        <5>1. k * Block1K >= (w + 1) * Block1K
          BY <1>3, <4>1, Sizes
        <5>2. (w + 1) * Block1K = w * Block1K + Block1K
          BY <1>3, Sizes
        <5> QED
          BY <1>1, <1>3, <2>1, <5>1, <5>2, Sizes
      <4> QED
        BY <1>3, <4>1
    <3> QED
      BY <1>3, <2>1, <3>1, Sizes
  <2>4. BlocksBefore(offset) = k /\ 1 + k + m = 1 + k
    BY <1>4, <2>2, <2>3 DEF BlocksBefore
  <2> QED
    BY <1>2, <2>2, <2>3, <2>4
<1>5. CASE m > 0
  <2> DEFINE r2 == filesize - k * Block1K
  <2>1. r2 \in 0 .. Block1K - 1 /\ filesize = k * Block1K + r2
    BY <1>1, <1>2, <1>5, Sizes DEF AtBlock
  <2>2. w = k
    <3> HIDE DEF r2
    <3> QED
      BY <2>1, Sizes, QuotientAndRest DEF w
  <2>3. Whole1K = k * Block1K /\ Whole1K \div Block1K = k
    <3>1. k * Block1K = k * Block1K + 0 /\ 0 \in 0 .. Block1K - 1
      BY Sizes
    <3>2. (k * Block1K + 0) \div Block1K = k
      BY <3>1, Sizes, QuotientAndRest
    <3> QED
      BY <1>3, <2>2, <3>1, <3>2
  <2>4. /\ offset - Whole1K = m * Block128 + 0
        /\ offset - Whole1K + Block128 - 1 = m * Block128 + (Block128 - 1)
        /\ m * Block128 > 0 /\ offset > Whole1K
    <3>1. m * Block128 > 0 /\ m * Block128 \in Nat /\ k * Block1K \in Nat
      BY <1>5, Sizes
    <3> QED
      BY <1>1, <1>2, <2>3, <3>1, Sizes DEF AtBlock
  <2>5. /\ (m * Block128 + 0) % Block128 = 0
        /\ (m * Block128 + (Block128 - 1)) \div Block128 = m
    <3>1. 0 \in 0 .. Block128 - 1 /\ Block128 - 1 \in 0 .. Block128 - 1
      BY Sizes
    <3> QED
      BY <3>1, Sizes, QuotientAndRest
  <2>6. ~(offset <= Whole1K)
    BY <1>1, <1>3, <2>4, Sizes
  <2>7. BlocksBefore(offset) = k + m
    BY <2>3, <2>4, <2>5, <2>6 DEF BlocksBefore
  <2> QED
    BY <1>2, <2>4, <2>5, <2>6, <2>7
<1> QED
  BY <1>4, <1>5

\* While data are sent, the number on the block counts the blocks before it,
\* whole 1K blocks and then 128-byte ones, modulo the width of a uint8_t.
THEOREM BlocksAreNumbered == Spec => []NumberMatchesOffset
  BY PositionIsNumbered, Invariance, PTL
==============================================================================
