------------------------- MODULE YmodemReceiverProofs -------------------------
(***************************************************************************)
(* The receiver keeps its two counts of a file equal, whatever the line    *)
(* delivers, for any block sizes, limits and contents of the blocks.       *)
(***************************************************************************)
EXTENDS ReceiverHistory, YmodemWireProofs, WellFoundedInduction

-----------------------------------------------------------------------------
(* The types of what goes over the line. *)

\* What the receiver writes keeps the line a sequence of bytes.
LEMMA WriteType ==
  ASSUME NEW s \in Seq(Nat)
  PROVE  /\ s \o <<ACK>> \in Seq(Nat) /\ s \o <<NAK>> \in Seq(Nat) /\ s \o <<REQ>> \in Seq(Nat)
         /\ s \o <<ACK, REQ>> \in Seq(Nat) /\ s \o <<CAN, CAN>> \in Seq(Nat)
  BY ConcatProperties DEF ACK, NAK, REQ, CAN

-----------------------------------------------------------------------------
(* The inductive invariant. *)

\* A receiver that has not ended has passed none of its limits.
Bounded ==
  pc # "closed" /\ ~session_done /\ ~aborted =>
    errors <= MaxErrors /\ timeout_counter <= MaxRetry /\ cancel_counter <= 1

Inv == TypeOK /\ StoreSound /\ Bounded

\* What every turn that has heard a byte does to the counters and the line.
LEMMA HeardFacts ==
  ASSUME Inv, Heard
  PROVE  /\ ~aborted /\ ~session_done /\ errors <= MaxErrors
         /\ Block \in Result /\ rx' \in Seq(Nat)
         /\ timeout_counter' = 0 /\ timeout_counter' <= MaxRetry
         /\ cancel_counter' \in Nat /\ (Block.blocktype # CAN => cancel_counter' = 0)
         /\ pc' = pc /\ disk' = disk
<1>1. Block \in Result
  BY BlockType DEF Inv, TypeOK, Block
<1>2. rx' \in Seq(Nat)
  BY AfterBlockType DEF Inv, TypeOK, Heard
<1>3. ~aborted /\ ~session_done /\ errors <= MaxErrors
  BY DEF Heard, Running, Inv, Bounded
<1> QED
  BY <1>1, <1>2, <1>3, ReceiverAssumption DEF Heard, Inv, TypeOK, ReceiverAssumption

\* The turns that leave the session alone.
LEMMA SessionUnchanged ==
  ASSUME Inv, UNCHANGED session, aborted => aborted'
  PROVE  StoreSound'
  BY DEF Inv, StoreSound, session, CurrentFile, Received

\* One more error ends the session exactly when it is one too many.
LEMMA CountErrorFacts ==
  ASSUME Inv, CountError
  PROVE  errors' \in Nat /\ aborted' \in BOOLEAN /\ (~aborted' => errors' <= MaxErrors)
<1>1. errors' \in Nat /\ MaxErrors \in Nat
  BY ReceiverAssumption DEF CountError, Inv, TypeOK, ReceiverAssumption
<1>2. (errors' > MaxErrors) \in BOOLEAN
  BY <1>1
<1>3. aborted' \in BOOLEAN /\ (~aborted' => ~(errors' > MaxErrors))
  BY <1>2, Zenon DEF CountError
<1> QED
  BY <1>1, <1>3

\* A header opens the next file of the session, empty, or ends the session.
LEMMA HeaderStep ==
  ASSUME Inv, HeaderBlock PROVE Inv'
<1>1. Heard /\ Block \in Result /\ Block.blocktype # CAN
  BY HeardFacts DEF HeaderBlock, WholeBlockHeard, HeardBlock, StartsBlock, SOH, STX, CAN
<1>2. blocknumber' \in 0 .. SeqCount - 1
  BY WireAssumption DEF HeaderBlock, NextNumber, Inv, TypeOK, WireAssumption
<1>3. tx' \in Seq(Nat)
  BY WriteType DEF HeaderBlock, Write, Inv, TypeOK
<1>4. /\ files' \in Seq(File) /\ Len(files') <= MaxFiles
      /\ \A i \in DOMAIN files' : Received(files'[i]) <= files'[i].filesize
      /\ ~aborted' => files' # <<>> /\ Received(files'[Len(files')]) = 0
      /\ aborted' \in BOOLEAN
  <2>1. CASE UNCHANGED files /\ aborted' = TRUE
    BY <2>1 DEF Inv, TypeOK, StoreSound
  <2> DEFINE f == [filename |-> Block.filename, filesize |-> Block.filesize, data |-> <<>>]
  <2>2. CASE Len(files) < MaxFiles /\ files' = Append(files, f) /\ aborted' = FALSE
    <3>1. f \in File /\ Received(f) = 0 /\ f.filesize \in Nat
      BY <1>1, EmptySeq DEF Result, File, Received
    <3> HIDE DEF f
    <3>2. /\ files' \in Seq(File) /\ Len(files') = Len(files) + 1 /\ files' # <<>>
          /\ \A i \in 1 .. Len(files) : files'[i] = files[i]
          /\ files'[Len(files) + 1] = f
      BY <2>2, <3>1, AppendProperties DEF Inv, TypeOK
    <3>3. Len(files) \in Nat /\ DOMAIN files = 1 .. Len(files) /\ DOMAIN files' = 1 .. Len(files')
      BY <3>2, LenProperties DEF Inv, TypeOK
    <3>4. Len(files') <= MaxFiles
      BY <2>2, <3>2, <3>3, ReceiverAssumption DEF ReceiverAssumption
    <3>5. \A i \in DOMAIN files' : Received(files'[i]) <= files'[i].filesize
      BY <3>1, <3>2, <3>3 DEF Inv, StoreSound
    <3> QED
      BY <2>2, <3>1, <3>2, <3>4, <3>5
  <2> QED
    BY <2>1, <2>2 DEF HeaderBlock, AddFile
<1>5. receiving_data' = TRUE /\ offset' = 0 /\ UNCHANGED <<errors, session_done>>
  BY DEF HeaderBlock
<1>6. TypeOK'
  BY <1>1, <1>2, <1>3, <1>4, <1>5, HeardFacts DEF Inv, TypeOK
<1>7. StoreSound'
  BY <1>4, <1>5 DEF StoreSound, CurrentFile
<1>8. Bounded'
  BY <1>1, <1>5, HeardFacts DEF Inv, Bounded, Running
<1> QED
  BY <1>6, <1>7, <1>8 DEF Inv

\* The part of a block of n bytes that belongs to the current file.
Kept == Min2(Len(Block.data), CurrentFile.filesize - Received(CurrentFile))
Grown == [CurrentFile EXCEPT !.data = @ \o SubSeq(Block.data, 1, Kept)]

\* An accepted data block finds a file to go to, and addData takes it: the
\* length the loop computed from offset is what the buffer has room for.
LEMMA DataFacts ==
  ASSUME Inv, DataBlock
  PROVE  /\ receiving_data /\ files # <<>> /\ Len(files) \in 1 .. Len(files)
         /\ Block = WholeBlock(rx, blocknumber) /\ Len(Block.data) = Block.length - Overhead
         /\ CurrentFile \in File
         /\ files' = [files EXCEPT ![Len(files)] = Grown]
         /\ Grown \in File /\ Grown.filename = CurrentFile.filename
         /\ Grown.filesize = CurrentFile.filesize
         /\ Received(Grown) = offset' /\ Received(Grown) <= Grown.filesize
         /\ Received(Grown) >= Received(CurrentFile)
<1> DEFINE L == Len(files)
           f == files[L]
           n == Len(Block.data)
<1>1. /\ Block \in Result /\ Block.length > 0 /\ StartsBlock(Block.blocktype) /\ ~Block.timed_out
      /\ Accepted /\ ~(~receiving_data /\ Block.blocknumber = 0) /\ ~aborted
  BY HeardFacts DEF DataBlock, WholeBlockHeard, HeardBlock, Heard
<1>2. /\ Block = WholeBlock(rx, blocknumber)
      /\ Block.length = n + Overhead /\ n \in Nat /\ Overhead = 4
      /\ Block.data \in Seq(Nat)
      /\ Block.correct_blocknumber => Block.blocknumber = blocknumber
  <2>1. rx \in Seq(Nat) /\ blocknumber \in Nat
    BY WireAssumption DEF Inv, TypeOK, WireAssumption
  <2>2. /\ rx # <<>> /\ Head(rx) \in Nat /\ FullLength(Head(rx)) <= Len(rx)
        /\ Block = WholeBlock(rx, blocknumber)
    BY <1>1, <2>1, NotCutIsWhole DEF Block
  <2>3. Block.data \in Seq(Nat)
    BY <1>1 DEF Result
  <2> QED
    BY <2>1, <2>2, <2>3, WholeBlockFields DEF Overhead, HeaderLen
<1>3. receiving_data
  BY <1>1, <1>2 DEF Inv, StoreSound, Accepted
<1>4. files # <<>> /\ L \in 1 .. L /\ offset = Received(f) /\ f \in File /\ Received(f) <= f.filesize
  <2>1. files # <<>> /\ offset = Received(f)
    BY <1>1, <1>3 DEF Inv, StoreSound, CurrentFile
  <2>2. L \in 1 .. L /\ DOMAIN files = 1 .. L
    BY <2>1, EmptySeq, LenProperties DEF Inv, TypeOK
  <2>3. f \in File
    BY <2>2, ElementOfSeq DEF Inv, TypeOK
  <2> QED
    BY <2>1, <2>2, <2>3 DEF Inv, StoreSound
<1>5. f.filesize \in Nat /\ f.data \in Seq(Nat) /\ offset \in Nat /\ offset = Len(f.data)
  BY <1>4, LenProperties DEF File, Received
<1> DEFINE kept == Min2(n, f.filesize - offset)
           part == SubSeq(Block.data, 1, kept)
<1>6. kept \in 0 .. n /\ offset + kept <= f.filesize
  BY <1>2, <1>4, <1>5 DEF Min2
<1>7. part \in Seq(Nat) /\ Len(part) = kept
  <2> HIDE DEF kept, n
  <2>1. 1 \in Int /\ kept \in Int /\ \A i \in 1 .. kept : Block.data[i] \in Nat
    <3>1. n = Len(Block.data)
      BY DEF n
    <3> QED
      BY <1>2, <1>6, <3>1, LenProperties
  <2>2. /\ SubSeq(Block.data, 1, kept) \in Seq(Nat)
        /\ Len(SubSeq(Block.data, 1, kept)) = IF 1 <= kept THEN kept - 1 + 1 ELSE 0
    BY <2>1, SubSeqProperties
  <2> QED
    BY <1>2, <1>6, <2>2
<1> DEFINE m == Block.length - Overhead
           end == offset + m
           write_len == IF end > f.filesize THEN m - (end - f.filesize) ELSE m
<1>8. files' = [files EXCEPT ![L] = AddData(f, SubSeq(Block.data, 1, write_len))]
  BY DEF DataBlock, WriteLen, CurrentFile
<1>9. write_len = kept /\ offset' = offset + kept
  <2>1. offset' = Min2(end, f.filesize)
    BY DEF DataBlock, CurrentFile
  <2>2. m = n
    BY <1>2
  <2>3. n \in Nat /\ offset \in Nat /\ f.filesize \in Nat /\ offset <= f.filesize
    BY <1>2, <1>4, <1>5
  <2> HIDE DEF n, f, m
  <2> QED
    BY <2>1, <2>2, <2>3 DEF Min2
<1>10. AddData(f, part) = [f EXCEPT !.data = @ \o part]
  <2> HIDE DEF part, f, kept
  <2> QED
    BY <1>4, <1>5, <1>6, <1>7 DEF AddData
<1>11. Grown = [f EXCEPT !.data = @ \o part]
  BY <1>4 DEF Grown, Kept, CurrentFile
<1>12. files' = [files EXCEPT ![L] = Grown]
  <2> HIDE DEF f, part, kept, write_len
  <2> QED
    BY <1>8, <1>9, <1>10, <1>11 DEF part
<1>13. f.data \o part \in Seq(Nat) /\ Len(f.data \o part) = offset + kept
  <2> HIDE DEF f, part, kept
  <2> QED
    BY <1>5, <1>7, ConcatProperties
<1>14. /\ Grown \in File /\ Grown.filename = f.filename /\ Grown.filesize = f.filesize
       /\ Received(Grown) = offset + kept
  <2> HIDE DEF f, part, kept
  <2> QED
    BY <1>4, <1>11, <1>13 DEF File, Received
<1>15. f = CurrentFile
  BY DEF CurrentFile
<1>16. Len(Block.data) = Block.length - Overhead
  BY <1>2
<1>17. /\ Received(Grown) = offset' /\ Received(Grown) <= Grown.filesize
       /\ Received(Grown) >= Received(f)
  <2> HIDE DEF f, kept, n
  <2> QED
    BY <1>2, <1>4, <1>5, <1>6, <1>9, <1>14
<1> QED
  BY <1>2, <1>3, <1>4, <1>12, <1>14, <1>15, <1>16, <1>17

\* A data block keeps every part of the invariant: the current file grows, the
\* others stay, and the loop's offset ends where the buffer's does.
LEMMA DataStep ==
  ASSUME Inv, DataBlock PROVE Inv'
<1>1. Heard /\ Block.blocktype # CAN
  BY DEF DataBlock, WholeBlockHeard, HeardBlock, StartsBlock, SOH, STX, CAN
<1>2. blocknumber' \in 0 .. SeqCount - 1
  BY WireAssumption DEF DataBlock, NextNumber, Inv, TypeOK, WireAssumption
<1>3. tx' \in Seq(Nat)
  BY WriteType DEF DataBlock, Write, Inv, TypeOK
<1>4. /\ files' \in Seq(File) /\ Len(files') = Len(files) /\ files' # <<>>
      /\ DOMAIN files' = 1 .. Len(files)
      /\ \A i \in 1 .. Len(files) : files'[i] = IF i = Len(files) THEN Grown ELSE files[i]
  <2>1. /\ files' \in Seq(File) /\ Len(files') = Len(files)
        /\ \A i \in 1 .. Len(files) : files'[i] = IF i = Len(files) THEN Grown ELSE files[i]
    <3>1. files \in Seq(File) /\ Len(files) \in 1 .. Len(files) /\ Grown \in File
      BY DataFacts DEF Inv, TypeOK
    <3>2. files' = [files EXCEPT ![Len(files)] = Grown]
      BY DataFacts
    <3> HIDE DEF Grown
    <3>3. /\ [files EXCEPT ![Len(files)] = Grown] \in Seq(File)
          /\ Len([files EXCEPT ![Len(files)] = Grown]) = Len(files)
          /\ \A i \in 1 .. Len(files) :
               [files EXCEPT ![Len(files)] = Grown][i] = IF i = Len(files) THEN Grown ELSE files[i]
      BY <3>1, ExceptSeq
    <3> QED
      BY <3>2, <3>3
  <2>2. Len(files) \in 1 .. Len(files)
    BY DataFacts
  <2> QED
    BY <2>1, <2>2, EmptySeq, LenProperties
<1>5. \A i \in DOMAIN files' : Received(files'[i]) <= files'[i].filesize
  <2>1. DOMAIN files = 1 .. Len(files)
    BY LenProperties DEF Inv, TypeOK
  <2> QED
    BY <1>4, <2>1, DataFacts DEF Inv, StoreSound
<1>6. offset' = Received(files'[Len(files')]) /\ offset' \in Nat
  <2>1. Grown \in File /\ Received(Grown) = offset' /\ files'[Len(files')] = Grown
    BY <1>4, DataFacts
  <2>2. Received(Grown) \in Nat
    BY <2>1, LenProperties DEF File, Received
  <2> QED
    BY <2>1, <2>2
<1>7. receiving_data' = TRUE /\ UNCHANGED <<errors, session_done, aborted>>
  BY DataFacts DEF DataBlock, outcome, Inv, TypeOK
<1>8. TypeOK'
  BY <1>1, <1>2, <1>3, <1>4, <1>6, <1>7, HeardFacts DEF Inv, TypeOK
<1>9. StoreSound'
  BY <1>4, <1>5, <1>6, <1>7 DEF StoreSound, CurrentFile
<1>10. Bounded'
  BY <1>1, <1>7, HeardFacts DEF Inv, Bounded, Running
<1> QED
  BY <1>8, <1>9, <1>10 DEF Inv

\* The turns that hear something and leave the session alone.
LEMMA HearStep ==
  ASSUME Inv, EndOfBatch \/ IncompleteBlock \/ BadBlock \/ Cancel \/ StrayByte
  PROVE  Inv'
<1>1. Heard /\ UNCHANGED session
  BY DEF EndOfBatch, IncompleteBlock, BadBlock, Cancel, StrayByte, WholeBlockHeard, HeardBlock
<1>2. tx' \in Seq(Nat)
  BY WriteType DEF EndOfBatch, IncompleteBlock, BadBlock, Cancel, StrayByte, Write, Inv, TypeOK
<1>3. /\ session_done' \in BOOLEAN /\ aborted' \in BOOLEAN /\ errors' \in Nat
      /\ ~aborted' => errors' <= MaxErrors /\ cancel_counter' <= 1
  <2>1. CASE EndOfBatch \/ BadBlock
    <3>1. Block.blocktype # CAN
      BY <2>1 DEF EndOfBatch, BadBlock, WholeBlockHeard, HeardBlock, StartsBlock, SOH, STX, CAN
    <3>2. session_done' \in BOOLEAN /\ UNCHANGED <<errors, aborted>>
      BY <2>1 DEF EndOfBatch, BadBlock, outcome, Inv, TypeOK
    <3> QED
      BY <1>1, <3>1, <3>2, HeardFacts DEF Inv, TypeOK
  <2>2. CASE IncompleteBlock \/ StrayByte
    <3>1. Block.blocktype # CAN /\ UNCHANGED session_done /\ CountError
      BY <2>2 DEF IncompleteBlock, StrayByte, HeardBlock, StartsBlock, SOH, STX, CAN
    <3> QED
      BY <1>1, <3>1, HeardFacts, CountErrorFacts DEF Inv, TypeOK
  <2>3. CASE Cancel
    <3>1. UNCHANGED <<errors, session_done>> /\ cancel_counter' \in Nat
      BY <1>1, <2>3, HeardFacts DEF Cancel
    <3>2. (cancel_counter' > 1) \in BOOLEAN
      BY <3>1
    <3>3. aborted' \in BOOLEAN /\ (~aborted' => ~(cancel_counter' > 1))
      BY <2>3, <3>2, Zenon DEF Cancel
    <3> QED
      BY <1>1, <3>1, <3>3, HeardFacts DEF Inv, TypeOK
  <2> QED
    BY <2>1, <2>2, <2>3
<1>4. TypeOK'
  BY <1>1, <1>2, <1>3, HeardFacts DEF Inv, TypeOK, session
<1>5. StoreSound'
  BY <1>1, HeardFacts, SessionUnchanged
<1>6. Bounded'
  BY <1>1, <1>3, HeardFacts DEF Bounded, Running
<1> QED
  BY <1>4, <1>5, <1>6 DEF Inv

\* EOT leaves the file where it is and starts over at block 0.
LEMMA EndOfTransmissionStep ==
  ASSUME Inv, EndOfTransmission PROVE Inv'
<1>1. Heard /\ Block.blocktype # CAN /\ UNCHANGED <<files, errors, session_done, aborted>>
  BY DEF EndOfTransmission, outcome, EOT, CAN
<1>2. tx' \in Seq(Nat)
  BY WriteType DEF EndOfTransmission, Write, Inv, TypeOK
<1>3. receiving_data' = FALSE /\ blocknumber' = 0 /\ offset' = 0
  BY DEF EndOfTransmission
<1>4. TypeOK'
  <2>1. 0 \in 0 .. SeqCount - 1
    BY WireAssumption DEF WireAssumption
  <2> QED
    BY <1>1, <1>2, <1>3, <2>1, HeardFacts DEF Inv, TypeOK
<1>5. StoreSound'
  BY <1>1, <1>3 DEF Inv, StoreSound, Received
<1>6. Bounded'
  BY <1>1, HeardFacts DEF Bounded, Running
<1> QED
  BY <1>4, <1>5, <1>6 DEF Inv

\* Silence counts only while a block number other than 0 is expected.
LEMMA SilenceStep ==
  ASSUME Inv, Silence PROVE Inv'
<1>1. /\ UNCHANGED <<pc, session, errors, cancel_counter, session_done, disk, rx>>
      /\ ~aborted /\ pc = "receive" /\ ~session_done
  BY DEF Silence, Running
<1>2. /\ timeout_counter' \in Nat /\ aborted' \in BOOLEAN /\ tx' \in Seq(Nat)
      /\ ~aborted' => timeout_counter' <= MaxRetry
  <2>1. tx' \in Seq(Nat)
    BY WriteType DEF Silence, Write, Inv, TypeOK
  <2>2. timeout_counter' \in Nat /\ MaxRetry \in Nat
    BY ReceiverAssumption DEF Silence, CountsSilence, Inv, TypeOK, ReceiverAssumption
  <2>3. CASE aborted' = TRUE
    BY <2>1, <2>2, <2>3
  <2>4. CASE aborted' = FALSE /\ ~(blocknumber # 0 /\ timeout_counter' > MaxRetry)
    <3>1. timeout_counter <= MaxRetry
      BY <1>1 DEF Inv, Bounded, Running
    <3>2. timeout_counter' <= MaxRetry
      <4>1. CASE blocknumber = 0
        BY <3>1, <4>1 DEF Silence, CountsSilence
      <4>2. CASE blocknumber # 0
        BY <2>2, <2>4, <4>2
      <4> QED
        BY <4>1, <4>2
    <3> QED
      BY <2>1, <2>2, <2>4, <3>2
  <2> QED
    BY <2>3, <2>4 DEF Silence, CountsSilence
<1>3. TypeOK'
  BY <1>1, <1>2 DEF Inv, TypeOK, session
<1>4. StoreSound'
  BY <1>1, SessionUnchanged
<1>5. Bounded'
  BY <1>1, <1>2 DEF Inv, Bounded, Running
<1> QED
  BY <1>3, <1>4, <1>5 DEF Inv

\* The order of the natural numbers, as a set of pairs.
LessThan == {ss \in Nat \X Nat : ss[1] < ss[2]}

\* The library states this of an operator the provers cannot compare.
LEMMA LessThanWellFounded == IsWellFoundedOn(LessThan, Nat)
  BY NatLessThanWellFounded DEF OpToRel, LessThan

\* A nonempty set of indices has a largest one.
LEMMA Largest ==
  ASSUME NEW n \in Nat, NEW S, \A i \in S : i \in 1 .. n, S # {}
  PROVE  \E m \in S : \A j \in S : j <= m
<1> DEFINE below == {n - i : i \in S}
<1>1. \A i \in S : i \in Nat /\ n - i \in Nat
  <2> SUFFICES ASSUME NEW i \in S PROVE i \in Nat /\ n - i \in Nat
    OBVIOUS
  <2>1. i \in 1 .. n
    OBVIOUS
  <2> QED
    BY <2>1
<1>2. below \subseteq Nat /\ below # {}
  BY <1>1
<1>3. PICK d \in below : \A e \in below : ~(<<e, d>> \in LessThan)
  <2> HIDE DEF below
  <2> QED
    BY <1>2, LessThanWellFounded, WFMin
<1>4. PICK m \in S : d = n - m
  OBVIOUS
<1>5. ASSUME NEW j \in S PROVE j <= m
  <2>1. n - j \in below /\ n - j \in Nat /\ n - m \in Nat
    BY <1>1
  <2>2. ~(<<n - j, n - m>> \in LessThan)
    BY <1>3, <1>4, <2>1
  <2>3. ~(n - j < n - m)
    BY <2>1, <2>2 DEF LessThan
  <2>4. j \in Nat /\ m \in Nat
    BY <1>1
  <2> QED
    BY <2>3, <2>4
<1> QED
  BY <1>5

\* Of the files open for writing that have one name, one is the latest.
LEMMA Latest ==
  ASSUME NEW fs \in Seq(File), NEW openable \in SUBSET DOMAIN fs, NEW name,
         name \in {fs[i].filename : i \in openable}
  PROVE  \E i \in openable :
           /\ fs[i].filename = name
           /\ \A j \in openable : fs[j].filename = name => j <= i
<1> DEFINE named == {i \in openable : fs[i].filename = name}
<1>1. named # {}
  OBVIOUS
<1>2. Len(fs) \in Nat /\ \A i \in named : i \in 1 .. Len(fs)
  BY LenProperties
<1>3. PICK m \in named : \A j \in named : j <= m
  <2> HIDE DEF named
  <2> QED
    BY <1>1, <1>2, Largest
<1> QED
  BY <1>3

\* writeFiles writes the session, except a last file that is not whole.
LEMMA ToWriteFacts ==
  ASSUME Inv
  PROVE  /\ ToWrite \in Seq(File) /\ Len(files) \in Nat /\ DOMAIN files = 1 .. Len(files)
         /\ \A i \in DOMAIN ToWrite :
              /\ i \in DOMAIN files /\ ToWrite[i] = files[i]
              /\ i = Len(files) => Received(files[i]) = files[i].filesize
         /\ \A i \in DOMAIN files :
              Received(files[i]) = files[i].filesize => i \in DOMAIN ToWrite
<1>1. /\ files \in Seq(File) /\ Len(files) \in Nat /\ DOMAIN files = 1 .. Len(files)
      /\ Received(CurrentFile) # CurrentFile.filesize
           <=> Received(files[Len(files)]) # files[Len(files)].filesize
  BY LenProperties DEF Inv, TypeOK, CurrentFile
<1>2. CASE ToWrite = files /\ ~(files # <<>> /\ Received(CurrentFile) # CurrentFile.filesize)
  <2>1. \A i \in DOMAIN files : i = Len(files) => files # <<>>
    BY <1>1, EmptySeq
  <2> QED
    BY <1>1, <1>2, <2>1
<1>3. CASE /\ ToWrite = SubSeq(files, 1, Len(files) - 1)
           /\ files # <<>> /\ Received(CurrentFile) # CurrentFile.filesize
  <2>1. Len(files) # 0
    BY <1>1, <1>3, EmptySeq
  <2>2. /\ ToWrite \in Seq(File) /\ Len(ToWrite) = Len(files) - 1
        /\ \A i \in 1 .. Len(files) - 1 : ToWrite[i] = files[i]
    BY <1>1, <1>3, <2>1, SubSeqProperties
  <2>3. DOMAIN ToWrite = 1 .. Len(files) - 1
    BY <2>2, LenProperties
  <2> QED
    BY <1>1, <1>3, <2>2, <2>3
<1> QED
  BY <1>2, <1>3 DEF ToWrite

\* What fopen and fwrite may do to the files of a session.
Fate(opened, written) ==
  /\ opened \in SUBSET DOMAIN ToWrite
  /\ \A i \in opened : written[i] \in WrittenLengths(ToWrite[i])
  /\ WriteFiles(opened, written)

LEMMA FinishFate ==
  ASSUME Finish
  PROVE  \E opened, written :
           Fate(opened, written) /\ (HostFails \/ opened = DOMAIN ToWrite)
<1>1. PICK opened \in SUBSET DOMAIN ToWrite :
        /\ HostFails \/ opened = DOMAIN ToWrite
        /\ \E written \in [opened -> UNION {WrittenLengths(ToWrite[i]) : i \in opened}] :
             /\ \A i \in opened : written[i] \in WrittenLengths(ToWrite[i])
             /\ WriteFiles(opened, written)
  BY Zenon DEF Finish
<1> QED
  BY <1>1, Zenon DEF Fate

\* What is written under a name is of the latest file of that name.
LEMMA WrittenIsLatest ==
  ASSUME Inv, NEW opened, NEW written, Fate(opened, written),
         NEW name \in DOMAIN disk'
  PROVE  \E i \in opened :
           /\ i \in DOMAIN ToWrite
           /\ ToWrite[i].filename = name /\ disk'[name] = Beginning(ToWrite[i], written[i])
           /\ written[i] \in WrittenLengths(ToWrite[i])
           /\ \A j \in opened : ToWrite[j].filename = name => j <= i
<1> DEFINE latest(i) == /\ ToWrite[i].filename = name
                        /\ \A j \in opened : ToWrite[j].filename = name => j <= i
<1> HIDE DEF ToWrite
<1>0. opened \in SUBSET DOMAIN ToWrite /\ WriteFiles(opened, written)
  BY DEF Fate
<1>1. name \in {ToWrite[i].filename : i \in opened}
  BY <1>0 DEF WriteFiles
<1>2. \E i \in opened : latest(i)
  <2>1. ToWrite \in Seq(File)
    BY ToWriteFacts
  <2> QED
    BY <1>0, <1>1, <2>1, Latest
<1> DEFINE last == CHOOSE i \in opened : latest(i)
<1>3. disk'[name] = Beginning(ToWrite[last], written[last])
  BY <1>0, <1>1 DEF WriteFiles
<1>4. last \in opened /\ latest(last)
  <2> HIDE DEF latest
  <2> QED
    BY <1>2
<1> HIDE DEF last
<1> QED
  BY <1>0, <1>3, <1>4 DEF Fate

\* Any beginning of a buffer is a sequence of bytes, the whole of it included.
LEMMA BeginningType ==
  ASSUME NEW f \in File
  PROVE  /\ \A n \in WrittenLengths(f) :
              /\ n \in 0 .. f.filesize /\ Beginning(f, n) \in Seq(Int)
              /\ ~HostFails => Beginning(f, n) = Buffer(f)
<1> SUFFICES ASSUME NEW n \in WrittenLengths(f)
             PROVE  /\ n \in 0 .. f.filesize /\ Beginning(f, n) \in Seq(Int)
                    /\ ~HostFails => Beginning(f, n) = Buffer(f)
  OBVIOUS
<1>1. f.filesize \in Nat /\ f.data \in Seq(Nat) /\ Received(f) = Len(f.data)
  BY DEF File, Received
<1>2. n \in 0 .. f.filesize /\ n \in Nat /\ (~HostFails => n = f.filesize)
  BY <1>1 DEF WrittenLengths
<1>3. \A i \in 1 .. n : (IF i <= Received(f) THEN f.data[i] ELSE Uninit) \in Int
  BY <1>1, <1>2, LenProperties, ReceiverAssumption DEF ReceiverAssumption
<1>4. Beginning(f, n) \in [1 .. n -> Int]
  BY <1>3 DEF Beginning
<1> QED
  BY <1>2, <1>4, SeqDef DEF Buffer

\* What Finish leaves on disk is under file names and made of bytes.
LEMMA DiskType ==
  ASSUME Inv, NEW opened, NEW written, Fate(opened, written)
  PROVE  \A name \in DOMAIN disk' : name \in Nat /\ disk'[name] \in Seq(Int)
<1> HIDE DEF ToWrite
<1>1. \A i \in DOMAIN ToWrite : ToWrite[i] \in File
  <2>1. ToWrite \in Seq(File)
    BY ToWriteFacts
  <2> QED
    BY <2>1, LenProperties, ElementOfSeq
<1> SUFFICES ASSUME NEW name \in DOMAIN disk' PROVE name \in Nat /\ disk'[name] \in Seq(Int)
  OBVIOUS
<1>2. PICK i \in DOMAIN ToWrite :
        /\ ToWrite[i].filename = name /\ disk'[name] = Beginning(ToWrite[i], written[i])
        /\ written[i] \in WrittenLengths(ToWrite[i])
  BY WrittenIsLatest
<1>3. disk'[name] \in Seq(Int)
  BY <1>1, <1>2, BeginningType
<1> QED
  BY <1>1, <1>2, <1>3 DEF File

\* Closing writes the files down and leaves every count as it was.
LEMMA FinishStep ==
  ASSUME Inv, Finish PROVE Inv'
<1>1. pc' = "closed" /\ rx' = <<>> /\ UNCHANGED <<session, counters, outcome>>
  BY DEF Finish
<1>2. tx' \in Seq(Nat)
  BY WriteType DEF Finish, Write, Inv, TypeOK
<1>3. \A name \in DOMAIN disk' : name \in Nat /\ disk'[name] \in Seq(Int)
  BY FinishFate, DiskType
<1>4. TypeOK'
  BY <1>1, <1>2, <1>3, EmptySeq DEF Inv, TypeOK, session, counters, outcome
<1>5. StoreSound'
  BY <1>1, SessionUnchanged DEF outcome
<1>6. Bounded'
  BY <1>1 DEF Bounded, Running
<1> QED
  BY <1>4, <1>5, <1>6 DEF Inv

\* The steps that touch nothing but the line keep the invariant as long as they
\* leave bytes on it: the line's own, and whatever runs at its other end.
LineMoves == UNCHANGED <<pc, session, counters, outcome, disk>>

LEMMA LineKeeps ==
  ASSUME Inv, LineMoves, rx' \in Seq(Nat), tx' \in Seq(Nat)
  PROVE  Inv'
<1>1. TypeOK'
  BY DEF LineMoves, Inv, TypeOK, session, counters, outcome
<1>2. StoreSound'
  BY SessionUnchanged DEF LineMoves, outcome
<1>3. Bounded'
  BY DEF LineMoves, Bounded, Inv, counters, outcome
<1> QED
  BY <1>1, <1>2, <1>3 DEF Inv

\* The first request.
LEMMA StartStep ==
  ASSUME Inv, Start PROVE Inv'
<1>1. /\ UNCHANGED <<session, counters, outcome, disk>>
      /\ pc # "closed" /\ pc' \in {"start", "receive", "closed"}
  BY DEF Start
<1>2. rx' \in Seq(Nat) /\ tx' \in Seq(Nat)
  BY WriteType, EmptySeq DEF Start, Write, Inv, TypeOK
<1>3. TypeOK'
  BY <1>1, <1>2 DEF Inv, TypeOK, session, counters, outcome
<1>4. StoreSound'
  BY <1>1, SessionUnchanged DEF outcome
<1>5. Bounded'
  BY <1>1 DEF Bounded, Inv, counters, outcome
<1> QED
  BY <1>3, <1>4, <1>5 DEF Inv

\* Every step of the program keeps the invariant.
LEMMA StepKeeps ==
  ASSUME Inv, Step PROVE Inv'
<1>1. CASE EndOfBatch \/ IncompleteBlock \/ BadBlock \/ Cancel \/ StrayByte
  BY <1>1, HearStep
<1> QED
  BY <1>1, StartStep, SilenceStep, HeaderStep, DataStep, EndOfTransmissionStep, FinishStep
     DEF Step, Hear

\* A receiver on its own takes its own steps or leaves them to the line.
LEMMA StepOrLine ==
  ASSUME Inv, [Next]_vars
  PROVE  Step \/ (LineMoves /\ rx' \in Seq(Nat) /\ tx' \in Seq(Nat))
<1>1. CASE Deliver
  <2>1. PICK u \in Units : rx' = rx \o u
    BY <1>1 DEF Deliver
  <2>2. u \in Seq(Nat)
    BY <2>1, ReceiverAssumption DEF ReceiverAssumption
  <2> QED
    BY <1>1, <2>1, <2>2, ConcatProperties DEF Deliver, LineMoves, Inv, TypeOK
<1>2. CASE CarryAway
  BY <1>2, EmptySeq DEF CarryAway, LineMoves, Inv, TypeOK
<1>3. CASE UNCHANGED vars
  BY <1>3 DEF vars, LineMoves, Inv, TypeOK
<1> QED
  BY <1>1, <1>2, <1>3 DEF Next

\* Nothing is announced, stored or counted before the first step.
LEMMA Initially == Init => Inv
<1> SUFFICES ASSUME Init PROVE Inv
  OBVIOUS
<1>1. 0 \in 0 .. SeqCount - 1 /\ 0 <= MaxRetry /\ 0 <= MaxErrors /\ 0 <= MaxFiles
  BY WireAssumption, ReceiverAssumption DEF WireAssumption, ReceiverAssumption
<1>2. DOMAIN disk = {} /\ DOMAIN files = {} /\ Len(files) = 0
  BY EmptySeq, LenProperties DEF Init
<1>3. TypeOK
  BY <1>1, <1>2, EmptySeq DEF Init, TypeOK
<1>4. StoreSound
  BY <1>2 DEF Init, StoreSound
<1> QED
  BY <1>1, <1>3, <1>4 DEF Init, Inv, Bounded

\* Every step, and doing nothing, keeps the invariant.
LEMMA Inductive == Inv /\ [Next]_vars => Inv'
  BY StepOrLine, StepKeeps, LineKeeps

\* In every behaviour of a receiver every state satisfies the invariant.
LEMMA Invariance == Spec => []Inv
  BY Initially, Inductive, PTL DEF Spec

-----------------------------------------------------------------------------
(* The theorems. *)

\* The locals, the session and the disk keep their types: in particular the
\* expected block number is always one a uint8_t holds, and the session never
\* holds more files than its array has room for.
THEOREM TypeCorrect == Spec => []TypeOK
<1>1. Inv => TypeOK
  BY DEF Inv
<1> QED
  BY <1>1, Invariance, PTL

\* The loop's count of the current file and the buffer's never part, and no
\* buffer is filled beyond its size.
THEOREM StoreIsSound == Spec => []StoreSound
<1>1. Inv => StoreSound
  BY DEF Inv
<1> QED
  BY <1>1, Invariance, PTL

-----------------------------------------------------------------------------
(* What the counter of CANs remembers. *)

\* The counter is at zero unless the last byte heard was a CAN, and while the
\* receiver listens no two in a row have been heard.
Remembers ==
  /\ cancel_counter > 0 <=> heard[2] = CAN
  /\ ~aborted => heard # <<CAN, CAN>>
  /\ aborted /\ heard[2] = CAN /\ timeout_counter = 0 => heard[1] = CAN
  /\ heard = <<heard[1], heard[2]>>

HInv == Inv /\ Remembers

LEMMA HeardTurnKeeps ==
  ASSUME HInv, HeardTurn PROVE Remembers'
<1>1. Heard
  BY DEF HeardTurn, Hear, EndOfBatch, IncompleteBlock, HeaderBlock, DataBlock, BadBlock,
     EndOfTransmission, Cancel, StrayByte, WholeBlockHeard, HeardBlock
<1>2. /\ ~aborted /\ cancel_counter \in Nat /\ cancel_counter <= 1
      /\ timeout_counter' = 0
      /\ cancel_counter' = IF Block.blocktype # CAN THEN 0 ELSE cancel_counter + 1
  BY <1>1 DEF HInv, Inv, TypeOK, Bounded, Heard, Running
<1>3. heard' = <<heard[2], Block.blocktype>>
  BY <1>1 DEF HeardTurn, Heard, Block, GetBlock, NoBlock, ControlByte, ShortBlock, WholeBlock
<1>4. CASE Cancel
  <2>1. Block.blocktype = CAN /\ aborted' = (cancel_counter' > 1)
    BY <1>4 DEF Cancel
  <2>2. cancel_counter' = cancel_counter + 1
    BY <1>2, <2>1
  <2>3. cancel_counter' > 1 <=> cancel_counter > 0
    BY <1>2, <2>2
  <2>4. aborted' <=> cancel_counter > 0
    BY <2>1, <2>3, Zenon
  <2>5. cancel_counter' > 0
    BY <1>2, <2>2
  <2> QED
    BY <1>2, <1>3, <2>1, <2>4, <2>5 DEF HInv, Remembers
<1>5. CASE ~Cancel
  <2>1. Block.blocktype # CAN
    BY <1>5 DEF HeardTurn, Hear, EndOfBatch, IncompleteBlock, HeaderBlock, DataBlock, BadBlock,
       EndOfTransmission, StrayByte, WholeBlockHeard, HeardBlock, StartsBlock, SOH, STX, EOT, CAN
  <2> QED
    BY <1>2, <1>3, <2>1 DEF HInv, Remembers
<1> QED
  BY <1>4, <1>5

LEMMA OtherTurnKeeps ==
  ASSUME HInv, OtherTurn \/ UNCHANGED hvars PROVE Remembers'
<1>1. CASE Silence
  <2>1. UNCHANGED <<cancel_counter, heard>> /\ aborted \in BOOLEAN /\ ~aborted
    BY <1>1 DEF OtherTurn, hvars, vars, counters, Silence, Running, HInv, Inv, TypeOK, Start, Finish, Deliver, CarryAway
  <2>2. aborted' => timeout_counter' # 0
    BY <1>1, ReceiverAssumption DEF Silence, ReceiverAssumption, HInv, Inv, TypeOK
  <2> QED
    BY <2>1, <2>2 DEF HInv, Remembers
<1>2. CASE ~Silence
  <2>1. UNCHANGED <<cancel_counter, heard, aborted, timeout_counter>>
    BY <1>2 DEF OtherTurn, hvars, vars, counters, outcome, Start, Finish, Deliver, CarryAway
  <2> QED
    BY <2>1 DEF HInv, Remembers
<1> QED
  BY <1>1, <1>2

\* A history variable changes nothing of what the receiver does.
LEMMA HistoryIsReceiver ==
  ASSUME HeardTurn \/ OtherTurn \/ UNCHANGED hvars PROVE [Next]_vars
  BY DEF HeardTurn, OtherTurn, hvars, Next, Step

\* A session is cancelled by two CANs with nothing heard between them, and by
\* nothing less.
THEOREM CancelTakesTwo == HSpec => []CancelledByTwo
<1>1. HInit => HInv
  <2> SUFFICES ASSUME HInit PROVE HInv
    OBVIOUS
  <2>1. Inv
    BY Initially DEF HInit
  <2> QED
    BY <2>1 DEF HInit, Init, HInv, Remembers, CAN
<1>2. HInv /\ [HeardTurn \/ OtherTurn]_hvars => HInv'
  BY HistoryIsReceiver, Inductive, HeardTurnKeeps, OtherTurnKeeps DEF HInv
<1>3. HInv => CancelledByTwo
  <2> SUFFICES ASSUME HInv PROVE CancelledByTwo
    OBVIOUS
  <2>1. aborted \in BOOLEAN
    BY DEF HInv, Inv, TypeOK
  <2> QED
    BY <2>1 DEF HInv, Remembers, CancelledByTwo
<1> QED
  BY <1>1, <1>2, <1>3, PTL DEF HSpec

-----------------------------------------------------------------------------
(* What is on disk in the end. *)

\* A file that is whole fills its buffer with the bytes that came.
LEMMA WholeBuffer ==
  ASSUME NEW f \in File, Received(f) = f.filesize
  PROVE  Buffer(f) = f.data
<1>1. f.data \in Seq(Nat) /\ Len(f.data) \in Nat /\ Received(f) = Len(f.data)
      /\ DOMAIN f.data = 1 .. Len(f.data)
  BY LenProperties DEF File, Received
<1>2. Buffer(f) = [i \in 1 .. Len(f.data) |-> f.data[i]]
  BY <1>1 DEF Buffer, Beginning
<1>3. f.data = [i \in 1 .. Len(f.data) |-> f.data[i]]
  BY <1>1, SeqDef
<1> QED
  BY <1>2, <1>3

\* Nothing is written before Finish has taken place, and then what the two
\* properties of the disk say.
NothingYet == pc # "closed" => DOMAIN disk = {}
OnDisk == NothingYet /\ DiskFromSession /\ WholeFilesWritten

LEMMA FinishWrites ==
  ASSUME Inv, Finish PROVE OnDisk'
<1>1. UNCHANGED files
  BY DEF Finish, session
<1>2. PICK opened, written :
        Fate(opened, written) /\ (HostFails \/ opened = DOMAIN ToWrite)
  BY FinishFate
<1>3. ToWrite' = ToWrite
  BY <1>1 DEF ToWrite, CurrentFile, Received
<1> HIDE DEF ToWrite
<1>4. \A i \in DOMAIN ToWrite :
        /\ i \in DOMAIN files /\ ToWrite[i] = files[i] /\ i \in Nat
        /\ i = Len(files) => Received(files[i]) = files[i].filesize
  BY ToWriteFacts
<1>9. \A i \in DOMAIN files : files[i] \in File
  BY LenProperties, ElementOfSeq DEF Inv, TypeOK
<1>5. DiskFromSession'
  <2> SUFFICES ASSUME NEW name \in DOMAIN disk'
               PROVE  \E i \in DOMAIN files :
                        /\ files[i].filename = name
                        /\ \E n \in 0 .. files[i].filesize : disk'[name] = Beginning(files[i], n)
                        /\ ~HostFails => disk'[name] = Buffer(files[i])
                        /\ i = Len(files) => Received(files[i]) = files[i].filesize
    BY <1>1 DEF DiskFromSession, Received, Buffer, Beginning
  <2>1. PICK i \in DOMAIN ToWrite :
          /\ ToWrite[i].filename = name /\ disk'[name] = Beginning(ToWrite[i], written[i])
          /\ written[i] \in WrittenLengths(ToWrite[i])
    BY <1>2, WrittenIsLatest
  <2>2. i \in DOMAIN files /\ ToWrite[i] = files[i]
        /\ (i = Len(files) => Received(files[i]) = files[i].filesize)
    BY <1>4
  <2>3. /\ written[i] \in 0 .. files[i].filesize
        /\ ~HostFails => Beginning(files[i], written[i]) = Buffer(files[i])
    BY <1>9, <2>1, <2>2, BeginningType
  <2> QED
    BY <2>1, <2>2, <2>3
<1>6. WholeFilesWritten'
  <2> SUFFICES ASSUME ~HostFails, NEW i \in DOMAIN files,
                      Received(files[i]) = files[i].filesize,
                      \A j \in DOMAIN ToWrite : j > i => files[j].filename # files[i].filename
               PROVE  files[i].filename \in DOMAIN disk'
                      /\ disk'[files[i].filename] = files[i].data
    BY <1>1, <1>3 DEF WholeFilesWritten, Received
  <2> DEFINE name == files[i].filename
  <2>1. i \in DOMAIN ToWrite /\ ToWrite[i].filename = name /\ i \in Nat
    BY <1>4, ToWriteFacts
  <2>2. name \in DOMAIN disk'
    BY <1>2, <2>1 DEF Fate, WriteFiles
  <2>3. PICK k \in DOMAIN ToWrite :
          /\ ToWrite[k].filename = name /\ disk'[name] = Beginning(ToWrite[k], written[k])
          /\ written[k] \in WrittenLengths(ToWrite[k])
          /\ \A j \in DOMAIN ToWrite : ToWrite[j].filename = name => j <= k
    BY <1>2, <2>2, WrittenIsLatest
  <2>4. ToWrite[k] = files[k] /\ k \in Nat /\ i <= k
    BY <1>4, <2>1, <2>3
  <2>5. ~(k > i)
    BY <2>3, <2>4
  <2>6. k = i
    BY <2>1, <2>4, <2>5
  <2>7. Buffer(files[i]) = files[i].data
    BY <1>9, WholeBuffer
  <2>8. Beginning(files[i], written[i]) = Buffer(files[i])
    BY <1>9, <2>3, <2>4, <2>6, BeginningType
  <2> QED
    BY <2>2, <2>3, <2>4, <2>6, <2>7, <2>8
<1>7. NothingYet'
  BY DEF Finish, NothingYet
<1> QED
  BY <1>5, <1>6, <1>7 DEF OnDisk

\* Only Finish closes the session, and nothing touches it afterwards.
LEMMA OnDiskStays ==
  ASSUME Inv, OnDisk, Step \/ LineMoves PROVE OnDisk'
<1>1. CASE Finish
  BY <1>1, FinishWrites
<1>2. CASE LineMoves
  BY <1>2 DEF LineMoves, session, OnDisk, NothingYet, DiskFromSession, WholeFilesWritten,
     ToWrite, CurrentFile, Received, Buffer, Beginning
<1>3. CASE Start \/ Silence \/ Hear
  <2>1. pc # "closed" /\ pc' # "closed" /\ UNCHANGED disk
    BY <1>3 DEF Start, Silence, Hear, EndOfBatch, IncompleteBlock, HeaderBlock, DataBlock,
       BadBlock, EndOfTransmission, Cancel, StrayByte, WholeBlockHeard, HeardBlock, Heard, Running
  <2> QED
    BY <2>1 DEF OnDisk, NothingYet, DiskFromSession, WholeFilesWritten
<1> QED
  BY <1>1, <1>2, <1>3 DEF Step

LEMMA NothingOnDisk ==
  ASSUME Init PROVE OnDisk
  BY EmptySeq, LenProperties DEF Init, OnDisk, NothingYet, DiskFromSession, WholeFilesWritten

\* In every behaviour the disk is what the session says, once it is closed.
LEMMA DiskInvariance == Spec => []OnDisk
  BY NothingOnDisk, Invariance, OnDiskStays, StepOrLine, PTL DEF Spec

\* However the session ends, a name on the disk holds the buffer of a file
\* announced under it, or where a write failed a beginning of it, and never any
\* of a last file cut short.
THEOREM DiskHoldsSession == Spec => []DiskFromSession
<1>1. OnDisk => DiskFromSession
  BY DEF OnDisk
<1> QED
  BY <1>1, DiskInvariance, PTL

\* A file that came whole is on the disk with the bytes that came, unless a
\* later file of its name is.
THEOREM WholeFilesReachDisk == Spec => []WholeFilesWritten
<1>1. OnDisk => WholeFilesWritten
  BY DEF OnDisk
<1> QED
  BY <1>1, DiskInvariance, PTL

-----------------------------------------------------------------------------
(* What a step may do to the files. *)

\* How many bytes get_block takes does not depend on the number expected.
LEMMA SameLength ==
  ASSUME NEW bytes \in Seq(Nat), NEW expected \in Nat
  PROVE  GetBlock(bytes, 0).length = GetBlock(bytes, expected).length
<1>1. WholeBlock(bytes, 0).length = WholeBlock(bytes, expected).length
  BY DEF WholeBlock
<1> QED
  BY <1>1 DEF GetBlock

\* The beginning of a part of a sequence.
LEMMA PartOfPart ==
  ASSUME NEW s \in Seq(Nat), NEW m \in Nat, NEW n \in Nat, NEW k \in Nat,
         m + n <= Len(s), k <= n
  PROVE  SubSeq(SubSeq(s, m + 1, m + n), 1, k) = SubSeq(s, m + 1, m + k)
<1> DEFINE t == SubSeq(s, m + 1, m + n)
           u == SubSeq(t, 1, k)
           v == SubSeq(s, m + 1, m + k)
<1>1. Len(s) \in Nat /\ \A i \in 1 .. Len(s) : s[i] \in Nat
  BY LenProperties
<1>2. t \in Seq(Nat) /\ Len(t) = n /\ \A i \in 1 .. n : t[i] = s[m + i]
  <2>1. m + 1 \in Int /\ m + n \in Int /\ \A i \in m + 1 .. m + n : s[i] \in Nat
    BY <1>1
  <2>2. /\ t \in Seq(Nat)
        /\ Len(t) = IF m + 1 <= m + n THEN m + n - (m + 1) + 1 ELSE 0
        /\ \A i \in 1 .. m + n - (m + 1) + 1 : t[i] = s[m + 1 + i - 1]
    BY <2>1, SubSeqProperties
  <2> HIDE DEF t
  <2> QED
    BY <2>2
<1>3. v \in Seq(Nat) /\ Len(v) = k /\ \A i \in 1 .. k : v[i] = s[m + i]
  <2>1. m + 1 \in Int /\ m + k \in Int /\ \A i \in m + 1 .. m + k : s[i] \in Nat
    BY <1>1
  <2>2. /\ v \in Seq(Nat)
        /\ Len(v) = IF m + 1 <= m + k THEN m + k - (m + 1) + 1 ELSE 0
        /\ \A i \in 1 .. m + k - (m + 1) + 1 : v[i] = s[m + 1 + i - 1]
    BY <2>1, SubSeqProperties
  <2> HIDE DEF v
  <2> QED
    BY <2>2
<1>4. u \in Seq(Nat) /\ Len(u) = k /\ \A i \in 1 .. k : u[i] = t[i]
  <2> HIDE DEF t
  <2>1. 1 \in Int /\ k \in Int /\ \A i \in 1 .. k : t[i] \in Nat
    BY <1>2, LenProperties
  <2>2. /\ u \in Seq(Nat)
        /\ Len(u) = IF 1 <= k THEN k - 1 + 1 ELSE 0
        /\ \A i \in 1 .. k - 1 + 1 : u[i] = t[1 + i - 1]
    BY <1>2, <2>1, SubSeqProperties
  <2> HIDE DEF u
  <2> QED
    BY <1>2, <2>2
<1>5. \A i \in 1 .. k : u[i] = v[i]
  <2> HIDE DEF t, u, v
  <2> SUFFICES ASSUME NEW i \in 1 .. k PROVE u[i] = v[i]
    OBVIOUS
  <2>1. i \in 1 .. n
    OBVIOUS
  <2>2. u[i] = t[i] /\ v[i] = s[m + i]
    BY <1>3, <1>4
  <2>3. t[i] = s[m + i]
    BY <1>2, <2>1
  <2> QED
    BY <2>2, <2>3
<1> QED
  <2> HIDE DEF t, u, v
  <2>1. u = v
    BY <1>3, <1>4, <1>5, SeqEqual
  <2> QED
    BY <2>1 DEF t, u, v

\* Within a file, only an accepted data block moves the expected number.
LEMMA OnlyDataAdvances ==
  ASSUME Inv, Step \/ LineMoves, receiving_data, receiving_data', blocknumber' # blocknumber
  PROVE  DataBlock
  BY DEF Step, Hear, Start, Silence, EndOfBatch, IncompleteBlock, HeaderBlock, BadBlock,
     EndOfTransmission, Cancel, StrayByte, Finish, LineMoves, session

\* What AckedIsStored says of one step.
Appended ==
  LET f == CurrentFile
      n == Len(rx) - Len(rx') - Overhead
      kept == Min2(n, f.filesize - Received(f))
  IN  files' = [files EXCEPT ![Len(files)].data =
                  @ \o SubSeq(rx, HeaderLen + 1, HeaderLen + kept)]

\* An accepted data block appends its bytes to the current file.
LEMMA DataAppends ==
  ASSUME Inv, DataBlock PROVE Appended
<1> DEFINE n == Len(Block.data)
           kept == Min2(n, CurrentFile.filesize - Received(CurrentFile))
<1>1. rx \in Seq(Nat) /\ blocknumber \in Nat
  BY WireAssumption DEF Inv, TypeOK, WireAssumption
<1>2. /\ rx # <<>> /\ Head(rx) \in Nat /\ FullLength(Head(rx)) <= Len(rx)
      /\ Block = WholeBlock(rx, blocknumber)
  <2>1. Block.length > 0 /\ StartsBlock(Block.blocktype) /\ ~Block.timed_out
    BY DEF DataBlock, WholeBlockHeard, HeardBlock, Heard
  <2> QED
    BY <1>1, <2>1, NotCutIsWhole DEF Block
<1>3. /\ n \in Nat /\ Block.length = n + Overhead
      /\ Block.data = SubSeq(rx, HeaderLen + 1, HeaderLen + n)
      /\ HeaderLen + n <= Len(rx)
  <2>1. PayloadSize(Head(rx)) \in Nat /\ n = PayloadSize(Head(rx))
    BY <1>1, <1>2, WholeBlockFields
  <2>2. Block.length = PayloadSize(Head(rx)) + Overhead
    BY <1>1, <1>2, WholeBlockFields
  <2>3. Block.data = SubSeq(rx, HeaderLen + 1, HeaderLen + PayloadSize(Head(rx)))
    BY <1>1, <1>2, WholeBlockFields
  <2>4. HeaderLen + PayloadSize(Head(rx)) <= Len(rx)
    BY <1>1, <1>2, <2>1, LenProperties DEF FullLength, Overhead, HeaderLen
  <2> HIDE DEF n
  <2> QED
    BY <2>1, <2>2, <2>3, <2>4
<1>4. Len(rx) - Len(rx') - Overhead = n
  <2>1. Heard
    BY DEF DataBlock, WholeBlockHeard, HeardBlock
  <2>2. rx' = SubSeq(rx, Block.length + 1, Len(rx))
    BY <1>1, <2>1, SameLength DEF Heard, AfterBlock, Block
  <2>3. Block.length \in 0 .. Len(rx) /\ Len(rx) \in Nat
    BY <1>1, BlockLength, LenProperties DEF Block
  <2>4. Len(rx') = IF Block.length + 1 <= Len(rx)
                   THEN Len(rx) - (Block.length + 1) + 1 ELSE 0
    <3>1. /\ Block.length + 1 \in Int /\ Len(rx) \in Int
          /\ \A i \in Block.length + 1 .. Len(rx) : rx[i] \in Nat
      BY <1>1, <2>3, LenProperties
    <3> QED
      BY <2>2, <3>1, SubSeqProperties
  <2>5. Block.length = n + 4 /\ n \in Nat
    BY <1>3 DEF Overhead, HeaderLen
  <2> HIDE DEF n
  <2>6. Len(rx') = Len(rx) - (n + 4)
    BY <2>3, <2>4, <2>5
  <2> QED
    BY <2>3, <2>5, <2>6 DEF Overhead, HeaderLen
<1>5. CurrentFile \in File /\ Received(CurrentFile) <= CurrentFile.filesize
  <2>1. Len(files) \in DOMAIN files
    BY DataFacts, LenProperties DEF Inv, TypeOK
  <2> QED
    BY <2>1, DataFacts DEF Inv, StoreSound, CurrentFile
<1>6. kept \in 0 .. n
  <2>1. CurrentFile.filesize \in Nat /\ Received(CurrentFile) \in Nat
    BY <1>5, LenProperties DEF File, Received
  <2> HIDE DEF n
  <2> QED
    BY <1>3, <1>5, <2>1 DEF Min2
<1>7. SubSeq(Block.data, 1, kept) = SubSeq(rx, HeaderLen + 1, HeaderLen + kept)
  <2> HIDE DEF n, kept
  <2> QED
    BY <1>1, <1>3, <1>6, PartOfPart DEF HeaderLen
<1>8. Grown = [CurrentFile EXCEPT !.data = @ \o SubSeq(rx, HeaderLen + 1, HeaderLen + kept)]
  BY <1>7 DEF Grown, Kept
<1>9. files' = [files EXCEPT ![Len(files)] = Grown]
  BY DataFacts
<1> QED
  <2> HIDE DEF kept
  <2>1. files' = [files EXCEPT ![Len(files)].data =
                    @ \o SubSeq(rx, HeaderLen + 1, HeaderLen + kept)]
    BY <1>8, <1>9 DEF CurrentFile
  <2> QED
    BY <1>4, <2>1 DEF Appended, kept

\* A data block whose ACK moves the expected number on is in the buffer, cut
\* at the announced size, for every block size and every contents.
THEOREM AckedDataIsStored == Spec => AckedIsStored
<1>1. Inv /\ [Next]_vars =>
        [receiving_data /\ receiving_data' /\ blocknumber' # blocknumber => Appended]_vars
  BY OnlyDataAdvances, DataAppends, StepOrLine
<1> QED
  BY <1>1, Invariance, PTL DEF Spec, AckedIsStored, Appended

\* The part of an accepted block that is stored is a string of bytes.
LEMMA PartStored ==
  ASSUME Inv, DataBlock PROVE SubSeq(Block.data, 1, Kept) \in Seq(Nat)
<1>1. Grown \in File /\ CurrentFile \in File /\ Block \in Result
  BY DataFacts, HeardFacts DEF DataBlock, WholeBlockHeard, HeardBlock
<1>2. Block.data \in Seq(Nat) /\ Len(Block.data) \in Nat /\ \A i \in 1 .. Len(Block.data) : Block.data[i] \in Nat
  BY <1>1, LenProperties DEF Result
<1>3. Received(CurrentFile) \in Nat /\ CurrentFile.filesize \in Nat
  BY <1>1, LenProperties DEF File, Received
<1>4. Kept \in Int /\ Kept <= Len(Block.data)
  BY <1>2, <1>3 DEF Kept, Min2
<1> QED
  BY <1>2, <1>4, SubSeqProperties

\* The part of a concatenation that its first operand makes up.
LEMMA FirstPart ==
  ASSUME NEW s \in Seq(Nat), NEW t \in Seq(Nat)
  PROVE  SubSeq(s \o t, 1, Len(s)) = s
<1> DEFINE c == s \o t
           u == SubSeq(c, 1, Len(s))
<1>1. /\ c \in Seq(Nat) /\ Len(c) = Len(s) + Len(t)
      /\ Len(s) \in Nat /\ Len(t) \in Nat
      /\ \A i \in 1 .. Len(s) : c[i] = s[i]
  <2>1. c \in Seq(Nat) /\ Len(c) = Len(s) + Len(t)
    BY ConcatProperties
  <2>2. Len(s) \in Nat /\ Len(t) \in Nat
    BY LenProperties
  <2>3. \A i \in 1 .. Len(s) + Len(t) : c[i] = IF i <= Len(s) THEN s[i] ELSE t[i - Len(s)]
    BY ConcatProperties
  <2> HIDE DEF c
  <2>4. ASSUME NEW i \in 1 .. Len(s) PROVE c[i] = s[i]
    <3>1. i \in 1 .. Len(s) + Len(t) /\ i <= Len(s)
      BY <2>2
    <3> QED
      BY <2>3, <3>1
  <2> QED
    BY <2>1, <2>2, <2>4
<1>2. u \in Seq(Nat) /\ Len(u) = Len(s) /\ \A i \in 1 .. Len(s) : u[i] = c[i]
  <2> HIDE DEF c
  <2>1. 1 \in Int /\ Len(s) \in Int /\ \A i \in 1 .. Len(s) : c[i] \in Nat
    BY <1>1, LenProperties
  <2>2. /\ u \in Seq(Nat)
        /\ Len(u) = IF 1 <= Len(s) THEN Len(s) - 1 + 1 ELSE 0
        /\ \A i \in 1 .. Len(s) - 1 + 1 : u[i] = c[1 + i - 1]
    BY <1>1, <2>1, SubSeqProperties
  <2> HIDE DEF u
  <2> QED
    BY <1>1, <2>2
<1> HIDE DEF u, c
<1>3. u = s
  BY <1>1, <1>2, SeqEqual
<1> QED
  BY <1>3 DEF u, c

\* A file that is the other, or the other with bytes appended, extends it.
Extends(g, f) ==
  Received(f) <= Received(g) /\ SubSeq(g.data, 1, Received(f)) = f.data

LEMMA ExtendsFacts ==
  ASSUME NEW f \in File
  PROVE  /\ Extends(f, f)
         /\ \A t \in Seq(Nat) : Extends([f EXCEPT !.data = @ \o t], f)
<1>1. f.data \in Seq(Nat)
  BY DEF File
<1>2. ASSUME NEW t \in Seq(Nat) PROVE Extends([f EXCEPT !.data = @ \o t], f)
  <2>1. [f EXCEPT !.data = @ \o t].data = f.data \o t
    BY DEF File
  <2>2. Len(f.data \o t) = Len(f.data) + Len(t) /\ Len(f.data) \in Nat /\ Len(t) \in Nat
    BY <1>1, ConcatProperties, LenProperties
  <2>3. SubSeq(f.data \o t, 1, Len(f.data)) = f.data
    BY <1>1, FirstPart
  <2> QED
    BY <2>1, <2>2, <2>3 DEF Extends, Received
<1>3. Extends(f, f)
  <2>1. SubSeq(f.data \o <<>>, 1, Len(f.data)) = f.data /\ f.data \o <<>> = f.data
    BY <1>1, EmptySeq, FirstPart, ConcatEmptySeq
  <2> QED
    BY <1>1, <2>1, LenProperties DEF Extends, Received
<1> QED
  BY <1>2, <1>3

\* What FilesOnlyGrow says of one step.
Growing ==
  /\ Len(files) <= Len(files')
  /\ \A i \in DOMAIN files :
       /\ Extends(files'[i], files[i])
       /\ i < Len(files) \/ ~receiving_data => files'[i] = files[i]

\* Opening a file and storing a block leave every earlier file alone.
LEMMA FilesGrow ==
  ASSUME Inv, Step \/ LineMoves PROVE Growing
<1>1. /\ files \in Seq(File) /\ Len(files) \in Nat /\ DOMAIN files = 1 .. Len(files)
      /\ \A i \in DOMAIN files : files[i] \in File
  BY LenProperties, ElementOfSeq DEF Inv, TypeOK
<1>2. CASE UNCHANGED files
  BY <1>1, <1>2, ExtendsFacts DEF Growing
<1>3. CASE HeaderBlock /\ ~UNCHANGED files
  <2> DEFINE f == [filename |-> Block.filename, filesize |-> Block.filesize, data |-> <<>>]
  <2>1. files' = Append(files, f)
    BY <1>3 DEF HeaderBlock, AddFile
  <2>2. f \in File
    <3>1. Block \in Result
      BY <1>3, HeardFacts DEF HeaderBlock, WholeBlockHeard, HeardBlock
    <3> QED
      BY <3>1, EmptySeq DEF Result, File
  <2> HIDE DEF f
  <2>3. Len(files') = Len(files) + 1 /\ \A i \in 1 .. Len(files) : files'[i] = files[i]
    BY <1>1, <2>1, <2>2, AppendProperties
  <2> QED
    BY <1>1, <2>3, ExtendsFacts DEF Growing
<1>4. CASE DataBlock
  <2>1. receiving_data /\ Len(files) \in 1 .. Len(files) /\ Grown \in File
        /\ files' = [files EXCEPT ![Len(files)] = Grown]
    BY <1>4, DataFacts
  <2>2. Len(files') = Len(files)
        /\ \A i \in 1 .. Len(files) : files'[i] = IF i = Len(files) THEN Grown ELSE files[i]
    <3> HIDE DEF Grown
    <3>1. /\ Len([files EXCEPT ![Len(files)] = Grown]) = Len(files)
          /\ \A i \in 1 .. Len(files) :
               [files EXCEPT ![Len(files)] = Grown][i] = IF i = Len(files) THEN Grown ELSE files[i]
      BY <1>1, <2>1, ExceptSeq
    <3> QED
      BY <2>1, <3>1
  <2>3. Extends(Grown, files[Len(files)])
    <3>1. SubSeq(Block.data, 1, Kept) \in Seq(Nat)
      BY <1>4, PartStored
    <3> QED
      BY <1>1, <2>1, <3>1, ExtendsFacts DEF Grown, CurrentFile
  <2> QED
    BY <1>1, <2>1, <2>2, <2>3, ExtendsFacts DEF Growing
<1> QED
  BY <1>2, <1>3, <1>4 DEF Step, Hear, Start, Silence, EndOfBatch, IncompleteBlock, BadBlock,
     EndOfTransmission, Cancel, StrayByte, Finish, LineMoves, session

\* A file another has followed is closed, and the last only grows at its end.
THEOREM FilesGrowOnly == Spec => FilesOnlyGrow
<1>1. Inv /\ [Next]_vars =>
        [/\ Len(files) <= Len(files')
         /\ \A i \in DOMAIN files :
              /\ Received(files[i]) <= Received(files'[i])
              /\ SubSeq(files'[i].data, 1, Received(files[i])) = files[i].data
              /\ i < Len(files) \/ ~receiving_data => files'[i] = files[i]]_vars
  BY FilesGrow, StepOrLine DEF Growing, Extends
<1> QED
  BY <1>1, Invariance, PTL DEF Spec, FilesOnlyGrow
==============================================================================
