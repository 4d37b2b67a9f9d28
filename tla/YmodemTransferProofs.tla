------------------------- MODULE YmodemTransferProofs -------------------------
(***************************************************************************)
(* A transfer, in three parts.                                             *)
(*                                                                         *)
(* First, what the two programs keep to whatever happens between them:     *)
(* bytes lost or changed, answers that come late, either program           *)
(* interrupted.  Nothing is assumed of `trouble'.  Each program's own      *)
(* invariant speaks of its locals and asks of the line only that it        *)
(* carries bytes; so the lemmas about the steps of a program on its own    *)
(* hold of its steps here, and the rest of the system, which leaves its    *)
(* locals alone, is to it nothing but a line.                              *)
(*                                                                         *)
(* Then the invariant of a transfer whose line loses whole messages, and   *)
(* what each step of the two programs does to the part of the state that   *)
(* it speaks of.  The invariant: unless the receiver has ended, what is on *)
(* the line is the last message sent or its answer, and an ACK on it says  *)
(* that the receiver has done what the message asked; so the receiver's    *)
(* session is where the sender is in the batch, or one message further.    *)
(*                                                                         *)
(* Last, that the two, their line losing any number of whole messages in   *)
(* both directions and either interrupted at any moment, deliver a batch:  *)
(* for any files, block sizes, widths of the block number, limits,         *)
(* capacities and failures of the host.                                    *)
(***************************************************************************)
EXTENDS YmodemTransfer, YmodemWireProofs


SP == INSTANCE YmodemSenderProofs WITH
        pc <- spc, offset <- soffset, blocknumber <- snumber,
        rx <- up, tx <- down, Answers <- {}, MaxQueue <- 0

RP == INSTANCE YmodemReceiverProofs WITH
        pc <- rpc, blocknumber <- rnumber, offset <- roffset,
        rx <- down, tx <- up, Units <- {}, MaxLine <- 0, heard <- <<0, 0>>

-----------------------------------------------------------------------------
(* What the two programs assume of their constants holds here. *)

LEMMA WireFits == RP!WireAssumption /\ SP!WireAssumption
  BY WireAssumption DEF WireAssumption, RP!WireAssumption, SP!WireAssumption

LEMMA ReceiverFits == RP!ReceiverAssumption
  BY TransferAssumption DEF TransferAssumption, RP!ReceiverAssumption

LEMMA SenderFits == SP!SenderAssumption /\ SP!TrailerAssumption
  BY TransferAssumption
     DEF TransferAssumption, SP!SenderAssumption, SP!TrailerAssumption,
         Trailer, SP!Trailer, Sendable, SP!Sendable, Padded, SP!Padded, PayloadSize, SP!PayloadSize,
         EmptyBlock0, SP!EmptyBlock0, Block0, SP!Block0, SOH, SP!SOH, STX, SP!STX, Pad, SP!Pad

-----------------------------------------------------------------------------
(* The steps of the two programs are those the lemmas speak of. *)

LEMMA ReadsAlike ==
  ASSUME NEW bytes, NEW expected
  PROVE  R!GetBlock(bytes, expected) = RP!GetBlock(bytes, expected)
  BY DEF R!GetBlock, RP!GetBlock, R!WholeBlock, RP!WholeBlock,
         R!ShortBlock, RP!ShortBlock, R!ControlByte, RP!ControlByte,
         R!NoBlock, RP!NoBlock, R!StartsBlock, RP!StartsBlock,
         R!FullLength, RP!FullLength, R!PayloadSize, RP!PayloadSize, R!SOH, RP!SOH,
         R!STX, RP!STX, R!HeaderLen, RP!HeaderLen, R!Overhead, RP!Overhead,
         R!IsEndOfBatch, RP!IsEndOfBatch, R!CrcVerified, RP!CrcVerified

LEMMA BlockAlike ==
  R!Block = RP!Block /\ R!AfterBlock(down) = RP!AfterBlock(down)
  BY ReadsAlike DEF R!Block, RP!Block, R!AfterBlock, RP!AfterBlock

LEMMA HearAlike == R!Hear => RP!Hear
  BY BlockAlike
  DEF R!Hear, RP!Hear, R!EndOfBatch, RP!EndOfBatch,
         R!IncompleteBlock, RP!IncompleteBlock, R!BadBlock, RP!BadBlock,
         R!EndOfTransmission, RP!EndOfTransmission, R!Cancel, RP!Cancel,
         R!StrayByte, RP!StrayByte, R!HeaderBlock, RP!HeaderBlock,
         R!DataBlock, RP!DataBlock, R!Accepted, RP!Accepted, R!Write, RP!Write,
         R!ACK, RP!ACK, R!NAK, RP!NAK, R!CAN, RP!CAN, R!EOT, RP!EOT, R!REQ, RP!REQ,
         R!SOH, RP!SOH, R!STX, RP!STX, R!NextNumber, RP!NextNumber,
         R!Overhead, RP!Overhead, R!HeaderLen, RP!HeaderLen, R!AddFile, RP!AddFile,
         R!AddData, RP!AddData, R!WriteLen, RP!WriteLen, R!CurrentFile, RP!CurrentFile,
         R!Received, RP!Received, R!Min2, RP!Min2, R!CountError, RP!CountError,
         R!session, RP!session, R!outcome, RP!outcome, R!Running, RP!Running,
         R!Heard, RP!Heard, R!HeardBlock, RP!HeardBlock,
         R!WholeBlockHeard, RP!WholeBlockHeard, R!StartsBlock, RP!StartsBlock

LEMMA FinishAlike == R!Finish => RP!Finish
  BY DEF R!Finish, RP!Finish, R!Write, RP!Write, R!CAN, RP!CAN, R!ToWrite, RP!ToWrite,
         R!WriteFiles, RP!WriteFiles, R!Beginning, RP!Beginning,
         R!WrittenLengths, RP!WrittenLengths, R!CurrentFile, RP!CurrentFile,
         R!Received, RP!Received, R!session, RP!session, R!counters, RP!counters,
         R!outcome, RP!outcome

LEMMA ReceiverAlike == R!Step => RP!Step
  BY HearAlike, FinishAlike, BlockAlike
  DEF R!Step, RP!Step, R!Start, RP!Start, R!Silence, RP!Silence,
         R!CountsSilence, RP!CountsSilence, R!Running, RP!Running, R!Write, RP!Write,
         R!REQ, RP!REQ, R!session, RP!session, R!counters, RP!counters,
         R!outcome, RP!outcome

LEMMA SendsAlike ==
  ASSUME NEW start, NEW number, NEW data
  PROVE  S!SendBlock(start, number, data) = SP!SendBlock(start, number, data)
  BY DEF S!SendBlock, SP!SendBlock, S!Trailer, SP!Trailer, S!Padded, SP!Padded,
         S!PayloadSize, SP!PayloadSize, S!SOH, SP!SOH, S!Pad, SP!Pad

LEMMA SendAlike == S!Send => SP!Send
  BY SendsAlike
  DEF S!Send, SP!Send, S!SendHeader, SP!SendHeader, S!SendData, SP!SendData,
         S!SendEot, SP!SendEot, S!SendFinal, SP!SendFinal, S!Write, SP!Write,
         S!Block0, SP!Block0, S!EmptyBlock0, SP!EmptyBlock0, S!SOH, SP!SOH, S!STX, SP!STX,
         S!EOT, SP!EOT, S!File, SP!File, S!filesize, SP!filesize,
         S!ChunkStart, SP!ChunkStart, S!Chunk, SP!Chunk, S!Remaining, SP!Remaining,
         S!Min2, SP!Min2, S!PayloadSize, SP!PayloadSize

LEMMA ReplyAlike == S!Reply => SP!Reply
  BY DEF S!Reply, SP!Reply, S!WaitRequest, SP!WaitRequest, S!HeaderReply, SP!HeaderReply,
         S!DataReply, SP!DataReply, S!EotReply, SP!EotReply, S!FinalReply, SP!FinalReply,
         S!AwaitingRequest, SP!AwaitingRequest, S!TakeAnswer, SP!TakeAnswer,
         S!Answer, SP!Answer, S!NoByte, SP!NoByte, S!Enter, SP!Enter, S!Close, SP!Close,
         S!TryAgain, SP!TryAgain, S!NextData, SP!NextData, S!NextNumber, SP!NextNumber,
         S!ACK, SP!ACK, S!CAN, SP!CAN, S!REQ, SP!REQ, S!SOH, SP!SOH, S!STX, SP!STX,
         S!File, SP!File, S!filesize, SP!filesize, S!ChunkStart, SP!ChunkStart,
         S!Chunk, SP!Chunk, S!Remaining, SP!Remaining, S!Min2, SP!Min2,
         S!PayloadSize, SP!PayloadSize

LEMMA SenderAlike == S!Step => SP!Step
  BY SendAlike, ReplyAlike
  DEF S!Step, SP!Step, S!Start, SP!Start, S!WaitReceiver, SP!WaitReceiver,
         S!Enter, SP!Enter, S!REQ, SP!REQ

-----------------------------------------------------------------------------
(* The invariant: each program's own. *)

OfReceiver == RP!Inv /\ RP!OnDisk
Always == SP!Inv /\ OfReceiver
Bytes == down \in Seq(Nat) /\ up \in Seq(Nat)

LEMMA LineHasBytes == (SP!Inv \/ RP!Inv) => Bytes
  BY DEF SP!Inv, SP!TypeOK, RP!Inv, RP!TypeOK, Bytes

LEMMA SenderStarts == S!Init => SP!Inv
<1>1. S!Init => SP!Init
  BY DEF S!Init, SP!Init
<1> QED
  BY <1>1, SP!Initially, WireFits, SenderFits

LEMMA ReceiverStarts == R!Init => OfReceiver
<1>1. R!Init => RP!Init
  BY DEF R!Init, RP!Init
<1>2. RP!Init => RP!Inv
  BY RP!Initially, WireFits, ReceiverFits
<1>3. RP!Init => RP!OnDisk
  BY RP!NothingOnDisk, WireFits, ReceiverFits
<1> QED
  BY <1>1, <1>2, <1>3 DEF OfReceiver

\* To the sender the rest of the system is a line, and so it is to the receiver.
LEMMA SenderIdle ==
  ASSUME SP!Inv, UNCHANGED svars, Bytes' PROVE SP!Inv'
<1>1. SP!LineMoves
  BY DEF svars, SP!LineMoves
<1> QED
  BY <1>1, SP!LineKeeps, WireFits, SenderFits DEF Bytes

LEMMA ReceiverIdle ==
  ASSUME OfReceiver, UNCHANGED rvars, Bytes' PROVE OfReceiver'
<1>1. RP!LineMoves
  BY DEF rvars, RP!LineMoves, RP!session, RP!counters, RP!outcome
<1>2. RP!Inv'
  BY <1>1, RP!LineKeeps, WireFits, ReceiverFits DEF Bytes, OfReceiver
<1>3. RP!OnDisk'
  BY <1>1, RP!OnDiskStays, WireFits, ReceiverFits DEF OfReceiver
<1> QED
  BY <1>2, <1>3 DEF OfReceiver

\* A step of the sender is one of ymodem_send_cpp's.
LEMMA SenderStepKeeps ==
  ASSUME Always, SenderStep PROVE Always'
<1>1. S!Step /\ UNCHANGED rvars
  BY DEF SenderStep, S!Step
<1>2. SP!Inv'
  BY <1>1, SenderAlike, SP!StepKeeps, WireFits, SenderFits DEF Always
<1>3. Bytes'
  BY <1>2 DEF SP!Inv, SP!TypeOK, Bytes
<1> QED
  BY <1>1, <1>2, <1>3, ReceiverIdle DEF Always

\* A step of the receiver is one of ymodem_receive_cpp's.
LEMMA ReceiverStepKeeps ==
  ASSUME Always, ReceiverStep PROVE Always'
<1>1. RP!Step /\ UNCHANGED svars
  BY ReceiverAlike DEF ReceiverStep, R!Step
<1>2. RP!Inv'
  BY <1>1, RP!StepKeeps, WireFits, ReceiverFits DEF Always, OfReceiver
<1>3. RP!OnDisk'
  BY <1>1, RP!OnDiskStays, WireFits, ReceiverFits DEF Always, OfReceiver
<1>4. Bytes'
  BY <1>2 DEF RP!Inv, RP!TypeOK, Bytes
<1> QED
  BY <1>1, <1>2, <1>3, <1>4, SenderIdle DEF Always, OfReceiver

\* A byte less is a string of bytes still, and so is one with a byte changed.
LEMMA WithoutType ==
  ASSUME NEW s \in Seq(Nat), NEW i \in DOMAIN s
  PROVE  Without(s, i) \in Seq(Nat)
<1>1. Len(s) \in Nat /\ i \in 1 .. Len(s) /\ \A j \in 1 .. Len(s) : s[j] \in Nat
  BY LenProperties
<1>2. SubSeq(s, 1, i - 1) \in Seq(Nat)
  BY <1>1, SubSeqProperties
<1>3. SubSeq(s, i + 1, Len(s)) \in Seq(Nat)
  BY <1>1, SubSeqProperties
<1> QED
  BY <1>2, <1>3, ConcatProperties DEF Without

LEMMA ChangedType ==
  ASSUME NEW s \in Seq(Nat), NEW i \in DOMAIN s, NEW b \in Nat
  PROVE  [s EXCEPT ![i] = b] \in Seq(Nat)
  BY ExceptSeq

\* Whatever befalls the line or a program, bytes stay bytes.
LEMMA TroubleKeeps ==
  ASSUME Always,
         \/ Burst \/ LoseAnswer \/ Lose \/ Corrupt \/ Discard
         \/ \E program \in Programs : Die(program)
  PROVE  Always'
<1>1. UNCHANGED <<svars, rvars>>
  BY DEF Burst, LoseAnswer, Lose, Corrupt, Discard, Die, Fault
<1>2. Bytes
  BY LineHasBytes DEF Always
<1>3. Bytes'
  <2>1. CASE Burst \/ Discard
    BY <1>2, <2>1, EmptySeq DEF Burst, Discard, Bytes
  <2>2. CASE LoseAnswer \/ Lose
    BY <1>2, <2>2, WithoutType DEF LoseAnswer, Lose, Bytes
  <2>3. CASE Corrupt
    <3>1. Noise \subseteq Nat
      BY TransferAssumption DEF TransferAssumption
    <3> QED
      BY <1>2, <2>3, <3>1, ChangedType DEF Corrupt, Bytes
  <2>4. CASE \E program \in Programs : Die(program)
    BY <1>2, <2>4 DEF Die, line, Bytes
  <2> QED
    BY <2>1, <2>2, <2>3, <2>4
<1> QED
  BY <1>1, <1>3, SenderIdle, ReceiverIdle DEF Always

LEMMA AlwaysHolds == Spec => []Always
<1>1. Init => Always
  BY SenderStarts, ReceiverStarts DEF Init, Always
<1>2. Always /\ [Next]_vars => Always'
  <2> SUFFICES ASSUME Always, [Next]_vars PROVE Always'
    OBVIOUS
  <2>1. CASE UNCHANGED vars
    <3>1. Bytes'
      BY <2>1, LineHasBytes DEF Always, Bytes, vars, line
    <3> QED
      BY <2>1, <3>1, SenderIdle, ReceiverIdle DEF Always, vars
  <2> QED
    BY <2>1, SenderStepKeeps, ReceiverStepKeeps, TroubleKeeps DEF Next
<1> QED
  BY <1>1, <1>2, PTL DEF Spec

-----------------------------------------------------------------------------
(* The theorems. *)

\* However the transfer ended on the receiving side, whatever the line did to
\* it, the files that arrived whole are written.
THEOREM WholeFilesReachDisk == Spec => []WholeFilesWritten
<1>1. Always => WholeFilesWritten
  BY DEF Always, OfReceiver, RP!OnDisk, WholeFilesWritten, R!WholeFilesWritten, RP!WholeFilesWritten,
     R!Received, RP!Received, R!ToWrite, RP!ToWrite, R!CurrentFile, RP!CurrentFile
<1> QED
  BY <1>1, AlwaysHolds, PTL

\* Under any trouble the receiver's two counts of a file agree, no buffer is
\* filled beyond its size; and what is on disk under a name is the buffer of one
\* announced file, or a beginning of it where a write failed, never that of a
\* last file cut short.
THEOREM ReceiverStaysSound ==
  Spec => [](R!TypeOK /\ R!StoreSound /\ R!DiskFromSession)
<1>1. RP!Inv => R!TypeOK
  BY DEF RP!Inv, RP!TypeOK, R!TypeOK, R!File, RP!File
<1>2. RP!Inv => R!StoreSound
  BY DEF RP!Inv, RP!StoreSound, R!StoreSound, R!Received, RP!Received, R!CurrentFile, RP!CurrentFile
<1>3. RP!OnDisk => R!DiskFromSession
  BY DEF RP!OnDisk, RP!DiskFromSession, R!DiskFromSession, R!Received, RP!Received,
     R!Buffer, RP!Buffer, R!Beginning, RP!Beginning
<1>4. Always => R!TypeOK /\ R!StoreSound /\ R!DiskFromSession
  BY <1>1, <1>2, <1>3 DEF Always, OfReceiver
<1> QED
  BY <1>4, AlwaysHolds, PTL

\* Under any trouble the sender's offset stays within the file, its block
\* number counts the blocks before it, and EOT, the closing block and Done come
\* only when all before them was acknowledged, by whatever byte it took for an
\* ACK.
THEOREM SenderStaysSound ==
  Spec => [](S!TypeOK /\ S!NumberMatchesOffset /\ S!EotAfterAll)
<1>1. SP!Inv => S!TypeOK
  BY DEF SP!Inv, SP!TypeOK, S!TypeOK, S!Loops, SP!Loops, S!Awaiting, SP!Awaiting,
     S!AwaitingRequest, SP!AwaitingRequest, S!AwaitingAnswer, SP!AwaitingAnswer,
     S!DataLoop, SP!DataLoop, S!filesize, SP!filesize, S!File, SP!File
<1>2. SP!Inv => S!EotAfterAll
  BY DEF SP!Inv, SP!EotAfterAll, S!EotAfterAll, S!Finished, SP!Finished
<1>3. SP!Inv => S!NumberMatchesOffset
  <2>1. SP!Inv => SP!NumberMatchesOffset
    BY SP!PositionIsNumbered, WireFits, SenderFits
  <2> QED
    BY <2>1 DEF SP!NumberMatchesOffset, S!NumberMatchesOffset, S!DataLoop, SP!DataLoop,
       S!BlocksBefore, SP!BlocksBefore, S!Whole1K, SP!Whole1K, S!filesize, SP!filesize, S!File, SP!File
<1>4. Always => S!TypeOK /\ S!NumberMatchesOffset /\ S!EotAfterAll
  BY <1>1, <1>2, <1>3 DEF Always
<1> QED
  BY <1>4, AlwaysHolds, PTL

\* What any step of the system is to the receiver.
LEMMA ItsStepOrLine == [Next]_vars => RP!Step \/ RP!LineMoves
<1>1. RP!LineMoves <=> UNCHANGED rvars
  BY DEF rvars, RP!LineMoves, RP!session, RP!counters, RP!outcome
<1>2. R!Start \/ R!Finish \/ R!Silence \/ R!Hear => RP!Step
  BY ReceiverAlike DEF R!Step
<1> QED
  BY <1>1, <1>2 DEF Next, SenderStep, ReceiverStep, Burst, LoseAnswer, Lose, Corrupt, Fault, Discard, Die, vars

\* Under any trouble a block whose ACK moves the expected number on is in the
\* buffer, cut at the file size; and no file is touched again when another has
\* followed it, or shrinks.
THEOREM AckedStaysStored == Spec => R!AckedIsStored /\ R!FilesOnlyGrow
<1> DEFINE stores ==
             receiving_data /\ receiving_data' /\ rnumber' # rnumber =>
               LET f == R!CurrentFile
                   n == Len(down) - Len(down') - R!Overhead
                   kept == R!Min2(n, f.filesize - R!Received(f))
               IN  files' = [files EXCEPT ![Len(files)].data =
                               @ \o SubSeq(down, R!HeaderLen + 1, R!HeaderLen + kept)]
           grows ==
             /\ Len(files) <= Len(files')
             /\ \A i \in DOMAIN files :
                  /\ R!Received(files[i]) <= R!Received(files'[i])
                  /\ SubSeq(files'[i].data, 1, R!Received(files[i])) = files[i].data
                  /\ i < Len(files) \/ ~receiving_data => files'[i] = files[i]
<1>1. ASSUME Always, [Next]_vars PROVE stores
  <2> SUFFICES ASSUME receiving_data, receiving_data', rnumber' # rnumber
               PROVE  RP!Appended
    BY DEF RP!Appended, R!CurrentFile, RP!CurrentFile, R!Overhead, RP!Overhead, R!HeaderLen,
       RP!HeaderLen, R!Received, RP!Received, R!Min2, RP!Min2
  <2>1. RP!DataBlock
    BY <1>1, ItsStepOrLine, RP!OnlyDataAdvances, WireFits, ReceiverFits DEF Always, OfReceiver
  <2> QED
    BY <1>1, <2>1, RP!DataAppends, WireFits, ReceiverFits DEF Always, OfReceiver
<1>2. ASSUME Always, [Next]_vars PROVE grows
  <2>1. RP!Growing
    BY <1>2, ItsStepOrLine, RP!FilesGrow, WireFits, ReceiverFits DEF Always, OfReceiver
  <2> QED
    BY <2>1 DEF RP!Growing, RP!Extends, R!Received, RP!Received
<1>3. Always /\ [Next]_vars => [stores]_R!vars /\ [grows]_R!vars
  BY <1>1, <1>2
<1> QED
  BY <1>3, AlwaysHolds, PTL DEF Spec, R!AckedIsStored, R!FilesOnlyGrow

-----------------------------------------------------------------------------
(* A line that loses whole messages. *)


\* Blocks are lost whole, answers byte by byte, and answers come in time.
WholeMessages == trouble.late = 0 /\ BlocksWhole

-----------------------------------------------------------------------------
(* The receiver's session, measured by the batch. *)

Size(i) == Len(Files[i].data)

\* The first k files of the batch, the last of them up to its n-th byte.
Entry(i, n) ==
  [filename |-> Files[i].filename, filesize |-> Size(i), data |-> SubSeq(Files[i].data, 1, n)]
Got(k, n) == [i \in 1 .. k |-> Entry(i, IF i < k THEN Size(i) ELSE n)]

HoldsWhole(k) == files = Got(k, Size(k))
Idle(k) == HoldsWhole(k) /\ receiving_data = FALSE /\ rnumber = 0 /\ roffset = 0
Receiving(k, n) == files = Got(k, n) /\ receiving_data = TRUE /\ roffset = n

HoldsPrefix ==
  \E k \in 0 .. Len(Files), n \in Nat : (k > 0 => n <= Size(k)) /\ files = Got(k, n)

Over == session_done = TRUE \/ aborted = TRUE
CutShort == Over /\ Excuse /\ HoldsPrefix

-----------------------------------------------------------------------------
(* The sender's place and the message it sends there. *)

Left == Size(filecounter) - soffset
Start == IF Left >= Block1K THEN STX ELSE SOH
Piece == SubSeq(Files[filecounter].data, soffset + 1, soffset + ChunkOf(Left))
Header(i) == Block0(Files[i].filename, Size(i))

\* What is on the line once it was sent, by the loop that awaits the answer.
Sent(loop) ==
  CASE loop = "headerReply" -> SendBlock(SOH, 0, Header(filecounter))
    [] loop = "dataReply"   -> SendBlock(Start, snumber, Piece)
    [] loop = "eotReply"    -> <<EOT>>
    [] loop = "finalReply"  -> SendBlock(SOH, 0, EmptyBlock0)

Sending  == {"header", "data", "eot", "final"}
Replying == {"headerReply", "dataReply", "eotReply", "finalReply"}
Waiting  == {"waitC", "waitDataC", "waitFinalC"}
InData   == {"data", "dataReply"}
InEot    == {"eot", "eotReply"}
InFinal  == {"final", "finalReply"}

-----------------------------------------------------------------------------
(* The inductive invariant. *)

Types ==
  /\ spc \in Sending \cup Replying \cup Waiting \cup {"start", "waitReceiver", "closed"}
  /\ filecounter \in 1 .. Len(Files)
  /\ soffset \in Nat /\ snumber \in 0 .. SeqCount - 1
  /\ message \in {"none", "Done", "MaxRetries", "ReceiverAborts"}
  /\ (message = "none") <=> (spc # "closed")
  /\ rpc \in {"start", "receive", "closed"} /\ rnumber \in 0 .. SeqCount - 1
  /\ session_done \in BOOLEAN /\ aborted \in BOOLEAN
  /\ up \in Seq(Nat) /\ down \in Seq(Nat)
  /\ late = 0

\* While data are sent the block number counts the blocks before it.
Place ==
  spc \in InData =>
    \E k, m \in Nat :
      /\ AtBlock(soffset, Size(filecounter), k, m) /\ soffset < Size(filecounter)
      /\ snumber = (1 + k + m) % SeqCount

\* The block the sender repeats has been stored; its ACK is on the way or lost.
OneAhead ==
  Receiving(filecounter, soffset + ChunkOf(Left)) /\ rnumber = NextNumber(snumber)

\* Where the receiver is, by where the sender is.
Stage ==
  /\ spc \in {"start", "waitReceiver"} => filecounter = 1 /\ Idle(0)
  /\ spc = "waitC" => Idle(filecounter - 1)
  /\ spc \in {"header", "headerReply"} =>
       \/ Idle(filecounter - 1)
       \/ Receiving(filecounter, 0) /\ rnumber = 1
       \/ CutShort
  /\ spc = "waitDataC" => (Receiving(filecounter, 0) /\ rnumber = 1) \/ CutShort
  /\ spc \in InData =>
       (Receiving(filecounter, soffset) /\ rnumber = snumber) \/ OneAhead \/ CutShort
  /\ spc \in InEot =>
       /\ soffset = Size(filecounter)
       /\ Receiving(filecounter, soffset) \/ Idle(filecounter) \/ CutShort
  /\ spc \in InFinal \cup {"waitFinalC"} =>
       filecounter = Len(Files) /\ Idle(filecounter)
  /\ spc = "closed" => HoldsPrefix /\ (message = "Done" => HoldsWhole(Len(Files)))

\* An ACK is read first, by a sender that awaits it, and means what it says.
Quiet == up # <<>> => Head(up) # ACK
Acks ==
  /\ \A j \in 2 .. Len(up) : up[j] # ACK
  /\ ~Quiet =>
       \/ spc = "headerReply" /\ ((Receiving(filecounter, 0) /\ rnumber = 1) \/ CutShort)
       \/ spc = "dataReply" /\ (OneAhead \/ CutShort)
       \/ spc = "eotReply" /\ Idle(filecounter)
       \/ spc = "finalReply"

\* Before the receiver starts nothing has been said; while it listens there is
\* one message or one answer on the line.
Listening == rpc = "receive" /\ ~Over /\ "receiver" \in alive
OneMessage ==
  /\ rpc = "start" =>
       spc \in {"start", "waitReceiver"} /\ up = <<>> /\ down = <<>> /\ ~Over
  /\ Listening =>
       /\ down # <<>> => spc \in Replying /\ up = <<>> /\ down = Sent(spc)
       /\ spc \in Sending /\ "sender" \in alive => up = <<>>
       /\ Len(up) <= 1 \/ (spc \in {"headerReply", "eotReply"} /\ up = <<ACK, REQ>>)

\* A session ends done when the sender has nothing more to send.
EndsLast ==
  session_done = TRUE =>
    (spc \in InFinal \cup {"closed"} /\ filecounter = Len(Files)) \/ LooksLikeEnd

Inv == Types /\ Place /\ Stage /\ Acks /\ OneMessage /\ EndsLast

-----------------------------------------------------------------------------
(* The instances' operators are those of the line. *)

LEMMA SameSendBlock ==
  ASSUME NEW start, NEW number, NEW data
  PROVE  S!SendBlock(start, number, data) = SendBlock(start, number, data)
  BY DEF S!SendBlock, SendBlock, S!Trailer, Trailer, S!Padded, Padded,
         S!PayloadSize, PayloadSize, S!SOH, SOH, S!Pad, Pad

LEMMA SameBlock0 ==
  ASSUME NEW filename, NEW filesize
  PROVE  S!Block0(filename, filesize) = Block0(filename, filesize)
  BY DEF S!Block0, Block0

LEMMA SameGetBlock ==
  ASSUME NEW bytes, NEW expected
  PROVE  R!GetBlock(bytes, expected) = GetBlock(bytes, expected)
  BY DEF R!GetBlock, GetBlock, R!WholeBlock, WholeBlock, R!ShortBlock, ShortBlock,
         R!ControlByte, ControlByte, R!NoBlock, NoBlock, R!StartsBlock, StartsBlock,
         R!FullLength, FullLength, R!PayloadSize, PayloadSize, R!SOH, SOH, R!STX, STX,
         R!IsEndOfBatch, IsEndOfBatch, R!CrcVerified, CrcVerified,
         R!HeaderLen, HeaderLen, R!Overhead, Overhead

LEMMA SameAfterBlock ==
  ASSUME NEW bytes
  PROVE  R!AfterBlock(bytes) = AfterBlock(bytes)
  BY SameGetBlock DEF R!AfterBlock, AfterBlock

-----------------------------------------------------------------------------
(* The files, and the sender's terms. *)

LEMMA FileType ==
  /\ Len(Files) \in Nat \ {0} /\ DOMAIN Files = 1 .. Len(Files)
  /\ \A i \in 1 .. Len(Files) :
       /\ Files[i] = [filename |-> Files[i].filename, data |-> Files[i].data]
       /\ Files[i].filename \in Nat \ {0} /\ Files[i].data \in Seq(Nat) /\ Size(i) \in Nat
<1> DEFINE Item == [filename : Nat \ {0}, data : Seq(Nat)]
<1>1. Files \in Seq(Item) /\ Files # <<>>
  BY TransferAssumption DEF TransferAssumption
<1>2. Len(Files) \in Nat \ {0} /\ DOMAIN Files = 1 .. Len(Files)
  <2> HIDE DEF Item
  <2> QED
    BY <1>1, EmptySeq, LenProperties
<1>3. ASSUME NEW i \in 1 .. Len(Files)
      PROVE  Files[i] \in Item
  <2> HIDE DEF Item
  <2> QED
    BY <1>1, <1>2, ElementOfSeq
<1>4. ASSUME NEW i \in 1 .. Len(Files)
      PROVE  /\ Files[i] = [filename |-> Files[i].filename, data |-> Files[i].data]
             /\ Files[i].filename \in Nat \ {0} /\ Files[i].data \in Seq(Nat)
  BY <1>3
<1>5. ASSUME NEW i \in 1 .. Len(Files) PROVE Size(i) \in Nat
  BY <1>4, LenProperties DEF Size
<1> QED
  BY <1>2, <1>4, <1>5

LEMMA CurrentType ==
  ASSUME Types
  PROVE  /\ filecounter \in 1 .. Len(Files) /\ Len(Files) \in Nat
         /\ Size(filecounter) \in Nat /\ soffset \in Nat
         /\ Files[filecounter].data \in Seq(Nat) /\ Files[filecounter].filename \in Nat \ {0}
         /\ Size(filecounter) = Len(Files[filecounter].data)
  BY FileType DEF Types, Size

LEMMA SenderTerms ==
  /\ S!File = Files[filecounter] /\ S!filesize = Size(filecounter) /\ S!Remaining = Left
  /\ S!ChunkStart = Start /\ S!Chunk = ChunkOf(Left)
<1>1. S!File = Files[filecounter] /\ S!filesize = Size(filecounter) /\ S!Remaining = Left
  BY DEF S!File, S!filesize, S!Remaining, Size, Left
<1>2. S!ChunkStart = Start
  BY <1>1 DEF S!ChunkStart, Start, S!SOH, SOH, S!STX, STX
<1>3. S!Chunk = ChunkOf(Left)
  BY <1>1, <1>2 DEF S!Chunk, ChunkOf, S!Min2, Min2, S!PayloadSize, Start, S!SOH, SOH, STX
<1> QED
  BY <1>1, <1>2, <1>3

-----------------------------------------------------------------------------
(* What a step of the sender does to the place, the line and the message.  *)

Unmoved == UNCHANGED <<filecounter, soffset, snumber>>
ReadsOne == up # <<>> /\ up' = Tail(up) /\ UNCHANGED down

SenderBegins ==
  /\ spc = "start" /\ spc' = "waitReceiver"
  /\ up' = <<>> /\ UNCHANGED <<down, message>> /\ Unmoved

HearsReceiver ==
  /\ spc = "waitReceiver" /\ spc' \in {"waitReceiver", "header"}
  /\ ReadsOne /\ UNCHANGED message /\ Unmoved

Sends ==
  /\ \/ spc = "header" /\ spc' = "headerReply"
     \/ spc = "data" /\ spc' = "dataReply"
     \/ spc = "eot" /\ spc' = "eotReply"
     \/ spc = "final" /\ spc' = "finalReply"
  /\ down' = down \o Sent(spc')
  /\ UNCHANGED <<up, message>> /\ Unmoved

IsAsked ==
  /\ ReadsOne /\ Head(up) = REQ /\ UNCHANGED <<filecounter, message>>
  /\ \/ spc = "waitC" /\ spc' = "header" /\ UNCHANGED <<soffset, snumber>>
     \/ spc = "waitFinalC" /\ spc' = "final" /\ UNCHANGED <<soffset, snumber>>
     \/ /\ spc = "waitDataC" /\ soffset' = 0 /\ snumber' = 1
        /\ spc' = IF Size(filecounter) > 0 THEN "data" ELSE "eot"

IsAcked ==
  /\ ReadsOne /\ Head(up) = ACK
  /\ \/ spc = "headerReply" /\ spc' = "waitDataC" /\ UNCHANGED message /\ Unmoved
     \/ /\ spc = "dataReply" /\ soffset' = soffset + ChunkOf(Left)
        /\ snumber' = NextNumber(snumber)
        /\ spc' = IF Left - ChunkOf(Left) > 0 THEN "data" ELSE "eot"
        /\ UNCHANGED <<filecounter, message>>
     \/ /\ spc = "eotReply" /\ UNCHANGED <<soffset, snumber, message>>
        /\ \/ filecounter < Len(Files) /\ filecounter' = filecounter + 1 /\ spc' = "waitC"
           \/ filecounter = Len(Files) /\ filecounter' = filecounter /\ spc' = "waitFinalC"
     \/ spc = "finalReply" /\ spc' = "closed" /\ message' = "Done" /\ Unmoved

\* A wrong answer, or none from a receiver that will give none.
Retries ==
  /\ \/ up = <<>> /\ ReceiverStuck /\ UNCHANGED <<up, down>>
     \/ ReadsOne /\ (Head(up) # ACK \/ spc \in Waiting)
  /\ Unmoved
  /\ \/ /\ UNCHANGED message
        /\ \/ spc \in Waiting /\ spc' = spc
           \/ spc = "headerReply" /\ spc' = "header"
           \/ spc = "dataReply" /\ spc' = "data"
           \/ spc = "eotReply" /\ spc' = "eot"
           \/ spc = "finalReply" /\ spc' = "final"
     \/ /\ spc \in Waiting \cup Replying /\ spc' = "closed"
        /\ message' \in {"Done", "MaxRetries", "ReceiverAborts"}
        /\ message' = "Done" => spc = "finalReply"

LEMMA SendActs ==
  ASSUME Types, S!Send PROVE Sends
<1>1. CASE S!SendHeader
  <2>1. down' = down \o Sent(spc')
    BY <1>1, SenderTerms, SameSendBlock, SameBlock0
       DEF S!SendHeader, S!Write, Sent, Header, S!SOH, SOH
  <2> QED
    BY <1>1, <2>1 DEF S!SendHeader, Sends, Unmoved
<1>2. CASE S!SendData
  <2>1. down' = down \o Sent(spc')
    BY <1>2, SenderTerms, SameSendBlock DEF S!SendData, S!Write, Sent, Piece
  <2> QED
    BY <1>2, <2>1 DEF S!SendData, Sends, Unmoved
<1>3. CASE S!SendEot
  <2>1. down' = down \o Sent(spc')
    BY <1>3 DEF S!SendEot, S!Write, Sent, S!EOT, EOT
  <2> QED
    BY <1>3, <2>1 DEF S!SendEot, Sends, Unmoved
<1>4. CASE S!SendFinal
  <2>1. down' = down \o Sent(spc')
    BY <1>4, SameSendBlock, SameBlock0
       DEF S!SendFinal, S!Write, Sent, S!EmptyBlock0, EmptyBlock0, S!SOH, SOH
  <2> QED
    BY <1>4, <2>1 DEF S!SendFinal, Sends, Unmoved
<1> QED
  BY <1>1, <1>2, <1>3, <1>4 DEF S!Send

\* Every loop that waits for an answer goes on or gives up.
LEMMA RetryActs ==
  ASSUME spc \in Waiting \cup Replying,
         NEW loop, NEW text \in {"Done", "MaxRetries"}, S!TryAgain(loop, text),
         text = "Done" => spc = "finalReply"
  PROVE  \/ UNCHANGED message /\ spc' = loop
         \/ /\ spc \in Waiting \cup Replying /\ spc' = "closed"
            /\ message' \in {"Done", "MaxRetries", "ReceiverAborts"}
            /\ message' = "Done" => spc = "finalReply"
  BY DEF S!TryAgain, S!Close

LEMMA ReplyActs ==
  ASSUME Types, S!Reply, up # <<>> \/ ReceiverStuck
  PROVE  IsAsked \/ IsAcked \/ Retries
<1> DEFINE nothing == up = <<>> /\ UNCHANGED <<up, down>>
           NotAcked == nothing \/ (ReadsOne /\ (Head(up) # ACK \/ spc \in Waiting))
<1> USE DEF Waiting, Replying
<1>1. /\ UNCHANGED down /\ S!TakeAnswer /\ spc \in Waiting \cup Replying
  BY DEF S!Reply, S!WaitRequest, S!HeaderReply, S!DataReply, S!EotReply, S!FinalReply,
         S!AwaitingRequest
<1>2. \/ nothing /\ S!Answer = -1
      \/ ReadsOne /\ S!Answer = Head(up) /\ Head(up) \in Nat
  BY <1>1, HeadTailProperties DEF S!TakeAnswer, S!Answer, S!NoByte, ReadsOne, Types
<1>3. S!REQ = REQ /\ S!ACK = ACK /\ S!CAN = CAN /\ REQ # ACK /\ CAN # ACK /\ REQ # -1 /\ ACK # -1
  BY DEF S!REQ, REQ, S!ACK, ACK, S!CAN, CAN
<1>4. ASSUME NotAcked, Unmoved,
             NEW loop, NEW text \in {"Done", "MaxRetries"}, S!TryAgain(loop, text),
             text = "Done" => spc = "finalReply",
             \/ spc \in Waiting /\ loop = spc
             \/ spc = "headerReply" /\ loop = "header"
             \/ spc = "dataReply" /\ loop = "data"
             \/ spc = "eotReply" /\ loop = "eot"
             \/ spc = "finalReply" /\ loop = "final"
      PROVE  Retries
  <2>1. \/ UNCHANGED message /\ spc' = loop
        \/ /\ spc \in Waiting \cup Replying /\ spc' = "closed"
           /\ message' \in {"Done", "MaxRetries", "ReceiverAborts"}
           /\ message' = "Done" => spc = "finalReply"
    BY <1>1, <1>4, RetryActs
  <2> QED
    BY <1>4, <2>1 DEF Retries
<1>5. ASSUME S!Answer # ACK \/ spc \in Waiting PROVE NotAcked
  BY <1>2, <1>5
<1>6. ASSUME S!Answer = CAN, S!Close("ReceiverAborts"), Unmoved, spc \in Replying PROVE Retries
  BY <1>2, <1>3, <1>6 DEF S!Close, Retries, CAN
<1> HIDE DEF NotAcked
<1>7. CASE S!WaitRequest
  <2>1. CASE S!Answer = S!REQ
    <3>1. ReadsOne /\ Head(up) = REQ
      BY <1>2, <1>3, <2>1
    <3>2. /\ UNCHANGED <<filecounter, message>>
          /\ \/ spc = "waitC" /\ S!Enter("header") /\ UNCHANGED <<soffset, snumber>>
             \/ spc = "waitFinalC" /\ S!Enter("final") /\ UNCHANGED <<soffset, snumber>>
             \/ /\ spc = "waitDataC" /\ S!Enter(S!NextData(S!filesize))
                /\ soffset' = 0 /\ snumber' = 1
      BY <1>7, <2>1, Zenon DEF S!WaitRequest
    <3>3. IsAsked
      BY <3>1, <3>2, SenderTerms DEF IsAsked, S!Enter, S!NextData
    <3> QED
      BY <3>3
  <2>2. CASE S!Answer # S!REQ
    <3>1. S!TryAgain(spc, "MaxRetries") /\ Unmoved /\ spc \in Waiting
      BY <1>7, <2>2 DEF S!WaitRequest, Unmoved, S!AwaitingRequest
    <3> QED
      BY <1>4, <1>5, <3>1
  <2> QED
    BY <2>1, <2>2
<1>8. CASE S!HeaderReply
  <2>1. spc = "headerReply" /\ Unmoved
    BY <1>8 DEF S!HeaderReply, Unmoved
  <2>2. CASE S!Answer = ACK
    <3>1. spc' = "waitDataC" /\ UNCHANGED message
      BY <1>3, <1>8, <2>2 DEF S!HeaderReply, S!Enter
    <3> QED
      BY <1>2, <1>3, <2>1, <2>2, <3>1 DEF IsAcked
  <2>3. CASE S!Answer = CAN
    <3>1. S!Close("ReceiverAborts")
      BY <1>3, <1>8, <2>3 DEF S!HeaderReply
    <3> QED
      BY <1>6, <2>1, <2>3, <3>1
  <2>4. CASE S!Answer \notin {ACK, CAN}
    <3>1. S!TryAgain("header", "MaxRetries")
      BY <1>3, <1>8, <2>4 DEF S!HeaderReply
    <3> QED
      BY <1>4, <1>5, <2>1, <2>4, <3>1
  <2> QED
    BY <2>2, <2>3, <2>4
<1>9. CASE S!DataReply
  <2>1. spc = "dataReply" /\ UNCHANGED filecounter
    BY <1>9 DEF S!DataReply
  <2>2. CASE S!Answer = ACK
    <3>1. /\ soffset' = soffset + ChunkOf(Left) /\ snumber' = NextNumber(snumber)
          /\ spc' = IF Left - ChunkOf(Left) > 0 THEN "data" ELSE "eot"
          /\ UNCHANGED message
      <4>1. /\ soffset' = soffset + S!Chunk /\ snumber' = S!NextNumber(snumber)
            /\ S!Enter(S!NextData(S!Remaining - S!Chunk)) /\ UNCHANGED message
        BY <1>3, <1>9, <2>2 DEF S!DataReply
      <4>2. S!NextNumber(snumber) = NextNumber(snumber)
        BY DEF S!NextNumber, NextNumber
      <4>3. spc' = S!NextData(Left - ChunkOf(Left))
        BY <4>1, SenderTerms, Zenon DEF S!Enter
      <4> QED
        BY <4>1, <4>2, <4>3, SenderTerms, Zenon DEF S!NextData
    <3> QED
      <4>1. ReadsOne /\ Head(up) = ACK
        BY <1>2, <1>3, <2>2
      <4> QED
        BY <2>1, <3>1, <4>1 DEF IsAcked
  <2>3. CASE S!Answer = CAN
    <3>1. S!Close("ReceiverAborts") /\ Unmoved
      BY <1>3, <1>9, <2>3 DEF S!DataReply, Unmoved
    <3> QED
      BY <1>6, <2>1, <2>3, <3>1
  <2>4. CASE S!Answer \notin {ACK, CAN}
    <3>1. S!TryAgain("data", "MaxRetries") /\ Unmoved
      BY <1>3, <1>9, <2>4 DEF S!DataReply, Unmoved
    <3> QED
      BY <1>4, <1>5, <2>1, <2>4, <3>1
  <2> QED
    BY <2>2, <2>3, <2>4
<1>10. CASE S!EotReply
  <2>1. spc = "eotReply" /\ UNCHANGED <<soffset, snumber>>
    BY <1>10 DEF S!EotReply
  <2>2. CASE S!Answer = ACK
    <3>1. /\ UNCHANGED message
          /\ \/ filecounter < Len(Files) /\ filecounter' = filecounter + 1 /\ spc' = "waitC"
             \/ ~(filecounter < Len(Files)) /\ filecounter' = filecounter /\ spc' = "waitFinalC"
      BY <1>3, <1>10, <2>2 DEF S!EotReply, S!Enter
    <3>2. ~(filecounter < Len(Files)) => filecounter = Len(Files)
      BY CurrentType
    <3> QED
      BY <1>2, <1>3, <2>1, <2>2, <3>1, <3>2 DEF IsAcked
  <2>3. CASE S!Answer # ACK
    <3>1. S!TryAgain("eot", "MaxRetries") /\ Unmoved
      BY <1>3, <1>10, <2>3 DEF S!EotReply, Unmoved
    <3> QED
      BY <1>4, <1>5, <2>1, <2>3, <3>1
  <2> QED
    BY <2>2, <2>3
<1>11. CASE S!FinalReply
  <2>1. spc = "finalReply" /\ Unmoved
    BY <1>11 DEF S!FinalReply, Unmoved
  <2>2. CASE S!Answer = ACK
    <3>1. spc' = "closed" /\ message' = "Done"
      BY <1>3, <1>11, <2>2 DEF S!FinalReply, S!Close
    <3> QED
      BY <1>2, <1>3, <2>1, <2>2, <3>1 DEF IsAcked
  <2>3. CASE S!Answer # ACK
    <3>1. S!TryAgain("final", "Done")
      BY <1>3, <1>11, <2>3 DEF S!FinalReply
    <3> QED
      BY <1>4, <1>5, <2>1, <2>3, <3>1
  <2> QED
    BY <2>2, <2>3
<1> QED
  BY <1>7, <1>8, <1>9, <1>10, <1>11 DEF S!Reply

LEMMA SenderActs ==
  ASSUME Types, trouble.late = 0, SenderStep
  PROVE  /\ "sender" \in alive /\ UNCHANGED <<rvars, trouble, faults, late, alive>>
         /\ SenderBegins \/ HearsReceiver \/ Sends \/ IsAsked \/ IsAcked \/ Retries
<1>1. /\ "sender" \in alive /\ UNCHANGED <<rvars, trouble, faults, alive>>
  BY DEF SenderStep, Dead
<1>2. CASE S!Start /\ UNCHANGED late
  BY <1>1, <1>2 DEF S!Start, SenderBegins, Unmoved
<1>3. CASE S!WaitReceiver /\ UNCHANGED late
  <2>1. HearsReceiver
    BY <1>3 DEF S!WaitReceiver, S!Enter, HearsReceiver, ReadsOne, Unmoved
  <2> QED
    BY <1>1, <1>3, <2>1
<1>4. CASE S!Send /\ UNCHANGED late
  BY <1>1, <1>4, SendActs
<1>5. CASE S!Reply /\ InTime(up # <<>>, ReceiverStuck)
  <2>1. UNCHANGED late /\ (up # <<>> \/ ReceiverStuck)
    <3>1. late = 0 /\ ~(late < trouble.late)
      BY DEF Types
    <3> QED
      BY <1>5, <3>1 DEF InTime, TimeoutAllowed
  <2> QED
    BY <1>1, <1>5, <2>1, ReplyActs
<1> QED
  BY <1>2, <1>3, <1>4, <1>5 DEF SenderStep

-----------------------------------------------------------------------------
(* What a step of the receiver does. *)

SessionStays == UNCHANGED <<files, rnumber, roffset, receiving_data>>
OutcomeStays == UNCHANGED <<session_done, aborted>>

ReceiverBegins ==
  /\ rpc = "start" /\ rpc' = "receive"
  /\ down' = <<>> /\ up' = up \o <<REQ>> /\ SessionStays /\ OutcomeStays

ReceiverFinishes ==
  /\ rpc' = "closed" /\ Over
  /\ down' = <<>> /\ (up' = up \/ up' = up \o <<CAN, CAN>>) /\ SessionStays /\ OutcomeStays

\* Silence is counted only while the sender can do nothing but wait.
HearsNothing ==
  /\ rpc = "receive" /\ rpc' = rpc /\ ~Over /\ down = <<>> /\ down' = <<>>
  /\ up = <<>> /\ (spc \notin Sending \/ "sender" \notin alive)
  /\ \/ aborted' = TRUE /\ up' = up
     \/ aborted' = FALSE /\ up' = up \o <<REQ>>
  /\ SessionStays /\ UNCHANGED session_done

HearsEnd == up' = up \o <<ACK>> /\ session_done' = TRUE /\ SessionStays /\ UNCHANGED aborted

HearsHeader(filename, filesize) ==
  /\ up' = up \o <<ACK, REQ>>
  /\ receiving_data' = TRUE /\ roffset' = 0 /\ rnumber' = NextNumber(rnumber)
  /\ UNCHANGED session_done
  /\ \/ /\ files' = Append(files, [filename |-> filename, filesize |-> filesize, data |-> <<>>])
        /\ aborted' = FALSE
     \/ /\ Len(files) = MaxFiles \/ HostFails = TRUE
        /\ files' = files /\ aborted' = TRUE

HearsData(n, payload) ==
  /\ up' = up \o <<ACK>>
  /\ roffset' = Min2(roffset + n, R!CurrentFile.filesize)
  /\ files' = [files EXCEPT ![Len(files)] =
                 R!AddData(@, SubSeq(payload, 1, R!WriteLen(n)))]
  /\ rnumber' = NextNumber(rnumber)
  /\ UNCHANGED receiving_data /\ OutcomeStays

HearsAgain == up' = up \o <<NAK>> /\ SessionStays /\ OutcomeStays

HearsEot ==
  /\ up' = up \o <<ACK, REQ>>
  /\ receiving_data' = FALSE /\ rnumber' = 0 /\ roffset' = 0
  /\ UNCHANGED files /\ OutcomeStays

\* One turn of the receive loop on a whole block, by what the block is.
LEMMA HearsBlock ==
  ASSUME NEW start \in {SOH, STX}, NEW number \in 0 .. SeqCount - 1, NEW data \in Seq(Nat),
         Trailer(start, data) \in Nat, rnumber \in 0 .. SeqCount - 1,
         down = SendBlock(start, number, data), R!Hear
  PROVE  LET payload == Padded(data, PayloadSize(start))
         IN  /\ down' = <<>> /\ rpc' = rpc
             /\ \/ number = 0 /\ payload[1] = 0 /\ HearsEnd
                \/ /\ ~(number = 0 /\ payload[1] = 0) /\ number = 0 /\ rnumber = 0
                   /\ receiving_data # TRUE /\ HearsHeader(payload[1], payload[2])
                \/ /\ ~(number = 0 /\ payload[1] = 0) /\ number = rnumber
                   /\ ~(receiving_data # TRUE /\ number = 0)
                   /\ HearsData(PayloadSize(start), payload)
                \/ ~(number = 0 /\ payload[1] = 0) /\ number # rnumber /\ HearsAgain
<1> DEFINE payload == Padded(data, PayloadSize(start))
           b == R!Block
           end == number = 0 /\ payload[1] = 0
<1>1. b = ReadAs(start, number, payload, rnumber)
  BY SentIsRead, SameGetBlock, Sizes DEF R!Block
<1>2. /\ b.length = PayloadSize(start) + Overhead /\ b.blocktype = start
      /\ b.blocknumber = number /\ ~b.timed_out /\ b.crc_verified
      /\ b.end_of_batch <=> end
      /\ b.correct_blocknumber <=> number = rnumber
      /\ b.filename = payload[1] /\ b.filesize = payload[2] /\ b.data = payload
  <2> HIDE DEF b, payload
  <2> QED
    BY <1>1 DEF ReadAs
<1>3. R!Accepted <=> number = rnumber
  <2> HIDE DEF b
  <2>1. R!Accepted <=> b.crc_verified /\ b.correct_blocknumber
    BY Zenon DEF R!Accepted, b
  <2> QED
    BY <1>2, <2>1
<1>4. start \notin {EOT, CAN} /\ R!StartsBlock(start)
  BY DEF SOH, STX, EOT, CAN, R!StartsBlock, R!SOH, R!STX
<1>5. down' = <<>> /\ rpc' = rpc
  <2>1. down' = AfterBlock(down) /\ rpc' = rpc
    BY SameAfterBlock DEF R!Hear, R!EndOfBatch, R!IncompleteBlock, R!HeaderBlock, R!DataBlock,
       R!BadBlock, R!EndOfTransmission, R!Cancel, R!StrayByte, R!WholeBlockHeard, R!HeardBlock, R!Heard
  <2> QED
    BY <2>1, SentIsTaken
<1> HIDE DEF b
<1>6. CASE R!EndOfBatch
  <2>1. b.end_of_batch /\ HearsEnd
    BY <1>6 DEF R!EndOfBatch, HearsEnd, SessionStays, R!Write, R!ACK, ACK, R!session, b
  <2> QED
    BY <1>2, <1>5, <2>1
<1>7. CASE R!IncompleteBlock
  <2>1. b.timed_out
    BY <1>7 DEF R!IncompleteBlock, b
  <2> QED
    BY <1>2, <2>1
<1>8. CASE R!HeaderBlock
  <2>1. /\ ~b.end_of_batch /\ R!Accepted /\ ~receiving_data /\ b.blocknumber = 0
    BY <1>8, Zenon DEF R!HeaderBlock, R!WholeBlockHeard, b
  <2>2. HearsHeader(b.filename, b.filesize)
    BY <1>8 DEF R!HeaderBlock, R!AddFile, HearsHeader, R!Write, R!ACK, ACK, R!REQ, REQ,
       R!NextNumber, NextNumber, b
  <2> QED
    BY <1>2, <1>3, <1>5, <2>1, <2>2
<1>9. CASE R!DataBlock
  <2>1. /\ ~b.end_of_batch /\ R!Accepted /\ ~(~receiving_data /\ b.blocknumber = 0)
    BY <1>9, Zenon DEF R!DataBlock, R!WholeBlockHeard, b
  <2>2. HearsData(b.length - Overhead, b.data)
    BY <1>9 DEF R!DataBlock, HearsData, R!Write, R!ACK, ACK, R!NextNumber, NextNumber,
       R!Overhead, Overhead, R!HeaderLen, HeaderLen, R!Min2, Min2, OutcomeStays, R!outcome, b
  <2>3. b.length - Overhead = PayloadSize(start)
    BY <1>2, Sizes DEF Overhead, HeaderLen
  <2> QED
    BY <1>2, <1>3, <1>5, <2>1, <2>2, <2>3
<1>10. CASE R!BadBlock
  <2>1. ~b.end_of_batch /\ ~R!Accepted
    BY <1>10, Zenon DEF R!BadBlock, R!WholeBlockHeard, b
  <2>2. HearsAgain
    BY <1>10 DEF R!BadBlock, HearsAgain, R!Write, R!NAK, NAK, SessionStays, OutcomeStays,
       R!session, R!outcome
  <2> QED
    BY <1>2, <1>3, <1>5, <2>1, <2>2
<1>11. CASE R!EndOfTransmission \/ R!Cancel \/ R!StrayByte
  <2>1. b.blocktype = EOT \/ b.blocktype = CAN \/ b.blocktype \notin {SOH, STX}
    BY <1>11 DEF R!EndOfTransmission, R!Cancel, R!StrayByte, R!EOT, EOT, R!CAN, CAN,
       R!SOH, SOH, R!STX, STX, b
  <2> QED
    BY <1>2, <1>4, <2>1
<1> QED
  BY <1>6, <1>7, <1>8, <1>9, <1>10, <1>11 DEF R!Hear

\* One turn of the receive loop on an EOT.
LEMMA HearsEotByte ==
  ASSUME rnumber \in 0 .. SeqCount - 1, down = <<EOT>>, R!Hear
  PROVE  down' = <<>> /\ rpc' = rpc /\ HearsEot
<1> DEFINE b == R!Block
<1>1. b = ControlByte(EOT) /\ GetBlock(<<EOT>>, 0) = ControlByte(EOT)
  <2>1. ~StartsBlock(EOT) /\ Head(<<EOT>>) = EOT /\ <<EOT>> # <<>>
    BY DEF StartsBlock, EOT, SOH, STX
  <2>2. \A expected : GetBlock(<<EOT>>, expected) = ControlByte(EOT)
    BY <2>1 DEF GetBlock
  <2> QED
    BY <2>2, SameGetBlock DEF R!Block
<1>2. b.blocktype = EOT /\ ControlByte(EOT).length = 1
  BY <1>1 DEF ControlByte, NoBlock
<1>3. down' = <<>> /\ rpc' = rpc
  <2>1. down' = AfterBlock(down) /\ rpc' = rpc
    BY SameAfterBlock DEF R!Hear, R!EndOfBatch, R!IncompleteBlock, R!HeaderBlock, R!DataBlock,
       R!BadBlock, R!EndOfTransmission, R!Cancel, R!StrayByte, R!WholeBlockHeard, R!HeardBlock, R!Heard
  <2>2. Len(<<EOT>>) = 1 /\ AfterBlock(<<EOT>>) = SubSeq(<<EOT>>, 2, 1)
    BY <1>1, <1>2 DEF AfterBlock
  <2>3. SubSeq(<<EOT>>, 2, 1) = <<>>
    BY SubSeqEmpty
  <2> QED
    BY <2>1, <2>2, <2>3
<1>4. EOT \notin {SOH, STX, CAN} /\ R!EOT = EOT /\ R!CAN = CAN /\ ~R!StartsBlock(EOT)
  BY DEF SOH, STX, EOT, CAN, R!EOT, R!CAN, R!StartsBlock, R!SOH, R!STX
<1> HIDE DEF b
<1>5. ASSUME R!HeardBlock PROVE FALSE
  BY <1>2, <1>4, <1>5, Zenon DEF R!HeardBlock, b
<1>6. R!EndOfTransmission
  <2>1. R!EndOfTransmission \/ R!Cancel \/ R!StrayByte
    BY <1>5, Zenon DEF R!Hear, R!EndOfBatch, R!IncompleteBlock, R!HeaderBlock, R!DataBlock,
       R!BadBlock, R!WholeBlockHeard
  <2>2. ~R!Cancel
    BY <1>2, <1>4 DEF R!Cancel, b
  <2>3. ~R!StrayByte
    BY <1>2, <1>4 DEF R!StrayByte, b
  <2> QED
    BY <2>1, <2>2, <2>3
<1> QED
  BY <1>3, <1>6 DEF R!EndOfTransmission, HearsEot, R!Write, R!ACK, ACK, R!REQ, REQ,
     OutcomeStays, R!outcome

LEMMA ReceiverActs ==
  ASSUME Types, trouble.late = 0, ReceiverStep
  PROVE  /\ "receiver" \in alive /\ UNCHANGED <<svars, trouble, faults, late, alive>>
         /\ \/ ReceiverBegins \/ ReceiverFinishes \/ HearsNothing
            \/ Listening /\ down # <<>> /\ R!Hear
<1>1. /\ "receiver" \in alive /\ UNCHANGED <<svars, trouble, faults, alive>>
  BY DEF ReceiverStep, Dead
<1>2. CASE R!Start /\ UNCHANGED late
  <2>1. ReceiverBegins
    BY <1>2 DEF R!Start, ReceiverBegins, R!Write, R!REQ, REQ, SessionStays, OutcomeStays,
       R!session, R!outcome
  <2> QED
    BY <1>1, <1>2, <2>1
<1>3. CASE R!Finish /\ UNCHANGED late
  <2>1. ReceiverFinishes
    BY <1>3 DEF R!Finish, ReceiverFinishes, Over, Types, R!Write, R!CAN, CAN,
       SessionStays, OutcomeStays, R!session, R!outcome
  <2> QED
    BY <1>1, <1>3, <2>1
<1>4. rnumber \in Nat /\ down \in Seq(Nat) /\ late = 0 /\ ~(late < trouble.late)
  BY Sizes DEF Types
<1>5. R!Running => rpc = "receive" /\ ~Over
  BY DEF R!Running, Over, Types
<1>6. R!Block = GetBlock(down, rnumber)
  BY SameGetBlock DEF R!Block
<1>7. CASE R!Silence /\ InTime(~Incomplete(down), SenderStuck)
  <2>1. R!Running /\ GetBlock(down, rnumber).length = 0
    BY <1>6, <1>7 DEF R!Silence
  <2>2. down = <<>>
    BY <1>4, <2>1, BlockLength
  <2>3. UNCHANGED late /\ SenderStuck
    BY <1>4, <1>7, <2>2 DEF InTime, TimeoutAllowed, Incomplete
  <2>4. up = <<>> /\ (spc \notin Sending \/ "sender" \notin alive)
    BY <2>3 DEF SenderStuck, Dead, Sending, S!Awaiting, S!AwaitingRequest, S!AwaitingAnswer
  <2>5. /\ \/ aborted' = TRUE /\ up' = up
           \/ aborted' = FALSE /\ up' = up \o <<REQ>>
        /\ SessionStays /\ UNCHANGED <<session_done, rpc, down>>
    BY <1>7 DEF R!Silence, R!Write, R!REQ, REQ, SessionStays, R!session
  <2>6. HearsNothing
    BY <1>5, <2>1, <2>2, <2>4, <2>5 DEF HearsNothing
  <2> QED
    BY <1>1, <2>3, <2>6
<1>8. CASE R!Hear /\ InTime(~Incomplete(down), SenderStuck)
  <2>1. R!Running /\ GetBlock(down, rnumber).length > 0
    BY <1>6, <1>8 DEF R!Hear, R!EndOfBatch, R!IncompleteBlock, R!HeaderBlock, R!DataBlock,
       R!BadBlock, R!EndOfTransmission, R!Cancel, R!StrayByte, R!WholeBlockHeard, R!HeardBlock, R!Heard
  <2>2. down # <<>>
    BY <1>4, <2>1, BlockLength
  <2>3. UNCHANGED late
    BY <1>4, <1>8 DEF InTime, TimeoutAllowed
  <2> QED
    BY <1>1, <1>5, <1>8, <2>1, <2>2, <2>3 DEF Listening
<1> QED
  BY <1>2, <1>3, <1>7, <1>8 DEF ReceiverStep

-----------------------------------------------------------------------------
(* The messages. *)

LEMMA HeaderFacts ==
  ASSUME NEW i \in 1 .. Len(Files)
  PROVE  /\ Header(i) \in Seq(Nat) /\ Trailer(SOH, Header(i)) \in Nat
         /\ Padded(Header(i), PayloadSize(SOH))[1] = Files[i].filename
         /\ Padded(Header(i), PayloadSize(SOH))[2] = Size(i)
<1>1. /\ Files[i].filename \in Nat /\ Size(i) \in Nat
      /\ Sendable(Files[i]) /\ Size(i) = Len(Files[i].data)
  BY FileType, TransferAssumption DEF TransferAssumption, Size
<1>2. /\ Header(i) \in Seq(Nat) /\ Len(Header(i)) = Block128
      /\ Header(i)[1] = Files[i].filename /\ Header(i)[2] = Size(i)
  BY <1>1, Block0Type DEF Header
<1>3. Trailer(SOH, Header(i)) \in Nat
  BY <1>1 DEF Sendable, Header
<1>4. ASSUME NEW j \in {1, 2} PROVE Padded(Header(i), PayloadSize(SOH))[j] = Header(i)[j]
  BY <1>2, Sizes DEF Padded
<1> QED
  BY <1>2, <1>3, <1>4

LEMMA FinalFacts ==
  /\ EmptyBlock0 \in Seq(Nat) /\ Trailer(SOH, EmptyBlock0) \in Nat
  /\ Padded(EmptyBlock0, PayloadSize(SOH))[1] = 0
<1>1. /\ EmptyBlock0 \in Seq(Nat) /\ Len(EmptyBlock0) = Block128 /\ EmptyBlock0[1] = 0
  BY Block0Type DEF EmptyBlock0
<1>2. Trailer(SOH, EmptyBlock0) \in Nat
  BY TransferAssumption DEF TransferAssumption
<1>3. Padded(EmptyBlock0, PayloadSize(SOH))[1] = EmptyBlock0[1]
  BY <1>1, Sizes DEF Padded
<1> QED
  BY <1>1, <1>2, <1>3

LEMMA DataFacts ==
  ASSUME Types, Place, spc \in InData
  PROVE  /\ Left = Size(filecounter) - soffset /\ Left \in Nat \ {0}
         /\ ChunkOf(Left) \in 1 .. Left
         /\ Start \in {SOH, STX} /\ PayloadSize(Start) \in Nat
         /\ ChunkOf(Left) = Min2(Left, PayloadSize(Start))
         /\ Piece \in Seq(Nat) /\ Len(Piece) = ChunkOf(Left) /\ Trailer(Start, Piece) \in Nat
         /\ Padded(Piece, PayloadSize(Start))[1] = Files[filecounter].data[soffset + 1]
         /\ SubSeq(Padded(Piece, PayloadSize(Start)), 1, ChunkOf(Left)) = Piece
<1> DEFINE s == Files[filecounter].data
           n == ChunkOf(Left)
<1>1. /\ filecounter \in 1 .. Len(Files) /\ soffset \in Nat /\ s \in Seq(Nat)
      /\ Size(filecounter) = Len(s) /\ Len(s) \in Nat
  BY CurrentType, LenProperties
<1>2. PICK k, m \in Nat : AtBlock(soffset, Size(filecounter), k, m) /\ soffset < Size(filecounter)
  BY DEF Place
<1>3. Left = Size(filecounter) - soffset /\ Left \in Nat \ {0}
  BY <1>1, <1>2 DEF Left
<1>4. n \in 1 .. Left
  BY <1>1, <1>2, <1>3, NextPosition
<1>5. Start \in {SOH, STX} /\ PayloadSize(Start) \in Nat /\ n = Min2(Left, PayloadSize(Start))
  BY Sizes DEF Start, ChunkOf
<1>6. n <= PayloadSize(Start)
  BY <1>3, <1>5 DEF Min2
<1> HIDE DEF n
<1>7. /\ soffset + 1 \in 1 .. Len(s) /\ soffset + n \in 1 .. Len(s) /\ n \in Nat \ {0}
      /\ soffset + n <= Len(s)
  BY <1>1, <1>3, <1>4
<1>8. Piece = SubSeq(s, soffset + 1, soffset + n)
  BY DEF Piece, n
<1>9. Piece \in Seq(Nat) /\ Piece[1] = s[soffset + 1] /\ Len(Piece) = n
  <2> HIDE DEF s
  <2>1. \A i \in soffset + 1 .. soffset + n : i \in 1 .. Len(s)
    BY <1>1, <1>7
  <2>2. \A i \in soffset + 1 .. soffset + n : s[i] \in Nat
    BY <1>1, <2>1, ElementOfSeq
  <2>3. /\ soffset + 1 \in Int /\ soffset + n \in Int /\ 1 \in 1 .. (soffset + n) - (soffset + 1) + 1
        /\ soffset + 1 + 1 - 1 = soffset + 1 /\ soffset + 1 <= soffset + n
        /\ (soffset + n) - (soffset + 1) + 1 = n
    BY <1>1, <1>7
  <2>4. /\ Piece \in Seq(Nat) /\ Piece[1] = s[soffset + 1 + 1 - 1]
        /\ Len(Piece) = (soffset + n) - (soffset + 1) + 1
    BY <1>8, <2>2, <2>3, SubSeqProperties
  <2> QED
    BY <2>3, <2>4
<1>10. Trailer(Start, Piece) \in Nat
  <2>1. Sendable(Files[filecounter])
    BY <1>1, FileType, TransferAssumption DEF TransferAssumption
  <2> QED
    BY <1>5, <1>7, <1>8, <2>1 DEF Sendable
<1>11. Padded(Piece, PayloadSize(Start))[1] = Piece[1]
  <2>1. 1 \in 1 .. PayloadSize(Start) /\ 1 <= Len(Piece)
    BY <1>5, <1>6, <1>7, <1>9
  <2> QED
    BY <2>1 DEF Padded
<1>12. SubSeq(Padded(Piece, PayloadSize(Start)), 1, n) = Piece
  <2> HIDE DEF s
  <2> QED
    <3>1. SubSeq(Padded(SubSeq(s, soffset + 1, soffset + n), PayloadSize(Start)), 1, n)
            = SubSeq(s, soffset + 1, soffset + n)
      <4> DEFINE size == PayloadSize(Start)
      <4>1. size \in Nat /\ n <= size
        BY <1>5, <1>6
      <4> HIDE DEF size
      <4>2. SubSeq(Padded(SubSeq(s, soffset + 1, soffset + n), size), 1, n)
              = SubSeq(s, soffset + 1, soffset + n)
        BY <1>1, <1>7, <4>1, PaddedBegins
      <4> QED
        BY <4>2 DEF size
    <3> QED
      BY <1>8, <3>1
<1> QED
  BY <1>3, <1>4, <1>5, <1>9, <1>10, <1>11, <1>12 DEF n

\* A message is bytes, not empty, and leaves no read waiting for its end.
LEMMA MessageType ==
  ASSUME Types, Place, NEW loop \in Replying, loop = "dataReply" => spc \in InData
  PROVE  Sent(loop) \in Seq(Nat) /\ ~Incomplete(Sent(loop)) /\ Sent(loop) # <<>>
<1>1. ASSUME NEW start \in {SOH, STX}, NEW number \in 0 .. SeqCount - 1, NEW data \in Seq(Nat),
             Trailer(start, data) \in Nat
      PROVE  LET b == SendBlock(start, number, data)
             IN  b \in Seq(Nat) /\ ~Incomplete(b) /\ b # <<>>
  <2> DEFINE b == SendBlock(start, number, data)
  <2>1. b \in Seq(Nat) /\ Len(b) = FullLength(start) /\ b[1] = start /\ Len(b) > 0
    BY <1>1, SendBlockShape
  <2> HIDE DEF b
  <2>2. b # <<>> /\ Head(b) = start
    BY <2>1, EmptySeq
  <2> QED
    BY <2>1, <2>2 DEF Incomplete, b
<1>2. 0 \in 0 .. SeqCount - 1 /\ snumber \in 0 .. SeqCount - 1 /\ SOH \in {SOH, STX}
      /\ filecounter \in 1 .. Len(Files)
  BY Sizes DEF Types
<1>3. CASE loop = "headerReply"
  BY <1>1, <1>2, <1>3, HeaderFacts DEF Sent
<1>4. CASE loop = "dataReply"
  BY <1>1, <1>2, <1>4, DataFacts DEF Sent
<1>5. CASE loop = "eotReply"
  <2>1. <<EOT>> \in Seq(Nat) /\ <<EOT>> # <<>> /\ Head(<<EOT>>) = EOT
    BY DEF EOT
  <2>2. ~StartsBlock(EOT)
    BY DEF EOT, StartsBlock, SOH, STX
  <2> QED
    BY <1>5, <2>1, <2>2 DEF Sent, Incomplete
<1>6. CASE loop = "finalReply"
  BY <1>1, <1>2, <1>6, FinalFacts DEF Sent
<1> QED
  BY <1>3, <1>4, <1>5, <1>6 DEF Replying

-----------------------------------------------------------------------------
(* The session, one file and one block further. *)

Held == [filename : Nat, filesize : Nat, data : Seq(Nat)]

LEMMA EntryType ==
  ASSUME NEW i \in 1 .. Len(Files), NEW n \in 0 .. Size(i)
  PROVE  Entry(i, n) \in Held /\ Len(Entry(i, n).data) = n
<1> DEFINE s == Files[i].data
           part == SubSeq(s, 1, n)
<1>1. /\ s \in Seq(Nat) /\ Size(i) = Len(s) /\ Size(i) \in Nat
      /\ Files[i].filename \in Nat
  BY FileType DEF Size
<1>2. part \in Seq(Nat) /\ Len(part) = n
  <2> HIDE DEF s
  <2>1. \A j \in 1 .. n : j \in 1 .. Len(s)
    BY <1>1
  <2>2. \A j \in 1 .. n : s[j] \in Nat
    BY <1>1, <2>1, ElementOfSeq
  <2>3. part \in Seq(Nat) /\ Len(part) = IF 1 <= n THEN n - 1 + 1 ELSE 0
    BY <1>1, <2>2, SubSeqProperties
  <2> HIDE DEF part
  <2> QED
    BY <1>1, <2>3
<1> HIDE DEF part
<1>3. Entry(i, n) = [filename |-> Files[i].filename, filesize |-> Size(i), data |-> part]
  BY DEF Entry, part
<1> QED
  BY <1>1, <1>2, <1>3 DEF Held

LEMMA GotType ==
  ASSUME NEW k \in 0 .. Len(Files), NEW n \in Nat, k > 0 => n <= Size(k)
  PROVE  /\ Got(k, n) \in Seq(Held) /\ Len(Got(k, n)) = k /\ DOMAIN Got(k, n) = 1 .. k
         /\ \A i \in 1 .. k : Got(k, n)[i] = Entry(i, IF i < k THEN Size(i) ELSE n)
<1>1. Len(Files) \in Nat /\ k \in Nat /\ \A i \in 1 .. k : i \in 1 .. Len(Files) /\ Size(i) \in Nat
  BY FileType
<1>2. \A i \in 1 .. k : (IF i < k THEN Size(i) ELSE n) \in 0 .. Size(i)
  BY <1>1
<1>3. \A i \in 1 .. k : Entry(i, IF i < k THEN Size(i) ELSE n) \in Held
  BY <1>1, <1>2, EntryType
<1>4. Got(k, n) \in [1 .. k -> Held]
  BY <1>3 DEF Got
<1>5. Got(k, n) \in Seq(Held)
  BY <1>1, <1>4, SeqDef
<1>6. DOMAIN Got(k, n) = 1 .. k
  BY DEF Got
<1>7. Len(Got(k, n)) = k
  BY <1>1, <1>5, <1>6, LenProperties
<1> QED
  BY <1>5, <1>6, <1>7 DEF Got

LEMMA GotNothing ==
  ASSUME NEW n PROVE Got(0, n) = <<>>
  BY DEF Got

LEMMA GotNext ==
  ASSUME NEW k \in 1 .. Len(Files), NEW held, held = Got(k - 1, Size(k - 1))
  PROVE  Append(held, Entry(k, 0)) = Got(k, 0) /\ Len(held) = k - 1
<1>1. /\ Len(Files) \in Nat /\ k - 1 \in 0 .. Len(Files) /\ 0 \in 0 .. Size(k) /\ 0 \in Nat
      /\ (k - 1 > 0 => Size(k - 1) \in Nat) /\ 0 <= Size(k)
  BY FileType
<1>2. /\ held \in Seq(Held) /\ Len(held) = k - 1
      /\ \A i \in 1 .. k - 1 : held[i] = Entry(i, Size(i))
  <2>1. CASE k - 1 = 0
    <3>1. held = <<>>
      BY <2>1, GotNothing
    <3>2. 1 .. k - 1 = {}
      BY <2>1
    <3> QED
      BY <2>1, <3>1, <3>2, EmptySeq
  <2>2. CASE k - 1 > 0
    <3>1. /\ held \in Seq(Held) /\ Len(held) = k - 1
          /\ \A i \in 1 .. k - 1 : held[i] = Entry(i, IF i < k - 1 THEN Size(i) ELSE Size(k - 1))
      <4> DEFINE j == k - 1
                 n == Size(j)
      <4>1. j \in 0 .. Len(Files) /\ n \in Nat /\ n <= Size(j) /\ held = Got(j, n)
        BY <1>1, <2>2
      <4> HIDE DEF j, n
      <4>2. /\ held \in Seq(Held) /\ Len(held) = j
            /\ \A i \in 1 .. j : held[i] = Entry(i, IF i < j THEN Size(i) ELSE n)
        BY <4>1, GotType
      <4> QED
        BY <4>2 DEF j, n
    <3>2. \A i \in 1 .. k - 1 : i < k - 1 \/ i = k - 1
      BY <1>1
    <3> QED
      BY <3>1, <3>2
  <2> QED
    BY <1>1, <2>1, <2>2
<1>3. Entry(k, 0) \in Held
  BY <1>1, EntryType
<1>4. /\ Got(k, 0) \in Seq(Held) /\ Len(Got(k, 0)) = k
      /\ \A i \in 1 .. k : Got(k, 0)[i] = Entry(i, IF i < k THEN Size(i) ELSE 0)
  BY <1>1, GotType
<1> DEFINE longer == Append(held, Entry(k, 0))
<1>5. /\ longer \in Seq(Held) /\ Len(longer) = k - 1 + 1
      /\ \A i \in 1 .. k - 1 : longer[i] = held[i]
      /\ longer[k - 1 + 1] = Entry(k, 0)
  BY <1>2, <1>3, AppendProperties
<1> HIDE DEF longer
<1>6. \A i \in 1 .. k : longer[i] = Got(k, 0)[i]
  <2> SUFFICES ASSUME NEW i \in 1 .. k PROVE longer[i] = Got(k, 0)[i]
    OBVIOUS
  <2>1. CASE i < k
    <3>1. i \in 1 .. k - 1
      BY <1>1, <2>1
    <3> QED
      BY <1>2, <1>4, <1>5, <2>1, <3>1
  <2>2. CASE i = k
    <3>1. k - 1 + 1 = k /\ ~(k < k)
      BY <1>1
    <3> QED
      BY <1>4, <1>5, <2>2, <3>1
  <2> QED
    BY <1>1, <2>1, <2>2
<1>7. Len(longer) = Len(Got(k, 0))
  BY <1>1, <1>4, <1>5
<1>8. longer = Got(k, 0)
  <2>1. \A i \in 1 .. Len(longer) : longer[i] = Got(k, 0)[i]
    BY <1>4, <1>6, <1>7
  <2> QED
    BY <1>4, <1>5, <1>7, <2>1, SeqEqual
<1> QED
  BY <1>2, <1>8 DEF longer

LEMMA GotMore ==
  ASSUME NEW k \in 1 .. Len(Files), NEW n, NEW m
  PROVE  [Got(k, n) EXCEPT ![k] = Entry(k, m)] = Got(k, m)
<1>1. Len(Files) \in Nat
  BY FileType
<1> DEFINE changed == [Got(k, n) EXCEPT ![k] = Entry(k, m)]
<1>2. changed = [i \in 1 .. k |-> IF i = k THEN Entry(k, m) ELSE Got(k, n)[i]]
  BY DEF Got
<1>3. \A i \in 1 .. k : (IF i = k THEN Entry(k, m) ELSE Got(k, n)[i])
                         = Entry(i, IF i < k THEN Size(i) ELSE m)
  <2>1. \A i \in 1 .. k : i = k \/ (i # k /\ i < k)
    BY <1>1
  <2> QED
    BY <1>1, <2>1 DEF Got
<1> HIDE DEF changed
<1>4. changed = [i \in 1 .. k |-> Entry(i, IF i < k THEN Size(i) ELSE m)]
  BY <1>2, <1>3, Zenon
<1> QED
  BY <1>4 DEF Got, changed

\* Adjacent parts of a file make a longer part of it.
LEMMA EntryGrows ==
  ASSUME NEW i \in 1 .. Len(Files), NEW n \in Nat, NEW d \in Nat \ {0}, n + d <= Size(i)
  PROVE  [Entry(i, n) EXCEPT !.data = @ \o SubSeq(Files[i].data, n + 1, n + d)] = Entry(i, n + d)
<1> DEFINE s == Files[i].data
<1>1. s \in Seq(Nat) /\ Len(s) = Size(i) /\ Len(s) \in Nat
  BY FileType DEF Size
<1>2. SubSeq(s, 1, n) \o SubSeq(s, n + 1, n + d) = SubSeq(s, 1, n + d)
  <2> HIDE DEF s
  <2>1. 1 \in 1 .. Len(s) + 1 /\ n \in 1 - 1 .. Len(s) /\ n + d \in n .. Len(s)
    BY <1>1
  <2> QED
    BY <1>1, <2>1, ConcatAdjacentSubSeq
<1> DEFINE a == SubSeq(s, 1, n)
           b == SubSeq(s, n + 1, n + d)
           c == SubSeq(s, 1, n + d)
<1>3. Entry(i, n) = [filename |-> Files[i].filename, filesize |-> Size(i), data |-> a]
      /\ Entry(i, n + d) = [filename |-> Files[i].filename, filesize |-> Size(i), data |-> c]
  BY DEF Entry
<1> HIDE DEF a, b, c
<1>4. a \o b = c
  BY <1>2 DEF a, b, c
<1>5. [Entry(i, n) EXCEPT !.data = @ \o b]
        = [filename |-> Files[i].filename, filesize |-> Size(i), data |-> a \o b]
  <2> DEFINE r == [filename |-> Files[i].filename, filesize |-> Size(i), data |-> a]
  <2>1. [r EXCEPT !.data = r.data \o b]
          = [filename |-> Files[i].filename, filesize |-> Size(i), data |-> a \o b]
    OBVIOUS
  <2> QED
    BY <1>3, <2>1, Zenon
<1>6. [Entry(i, n) EXCEPT !.data = @ \o b] = Entry(i, n + d)
  BY <1>3, <1>4, <1>5, Zenon
<1> QED
  BY <1>6 DEF b


-----------------------------------------------------------------------------
(* The receiver answers the message the sender repeats until it is answered. *)

LEMMA WholeIsPrefix ==
  ASSUME NEW k \in 0 .. Len(Files), HoldsWhole(k)
  PROVE  HoldsPrefix
<1>1. CASE k = 0
  BY <1>1, GotNothing DEF HoldsWhole, HoldsPrefix
<1>2. CASE k # 0
  <2>1. Size(k) \in Nat /\ Size(k) <= Size(k)
    BY <1>2, FileType
  <2> QED
    BY <2>1 DEF HoldsWhole, HoldsPrefix
<1> QED
  BY <1>1, <1>2

\* After a turn of the receive loop only these are left to show.
LEMMA HearingKeeps ==
  ASSUME Inv, Listening, down # <<>>,
         UNCHANGED <<svars, trouble, late, alive>>, down' = <<>>, rpc' = rpc,
         rnumber' \in 0 .. SeqCount - 1, session_done' \in BOOLEAN, aborted' \in BOOLEAN,
         up' \in {<<ACK>>, <<NAK>>} \/ (up' = <<ACK, REQ>> /\ spc \in {"headerReply", "eotReply"}),
         Stage',
         \/ up' = <<NAK>>
         \/ spc = "headerReply" /\ ((Receiving(filecounter, 0) /\ rnumber = 1) \/ CutShort)'
         \/ spc = "dataReply" /\ (OneAhead \/ CutShort)'
         \/ spc = "eotReply" /\ Idle(filecounter)'
         \/ spc = "finalReply",
         EndsLast'
  PROVE  Inv'
<1>1. spc \in Replying /\ spc' = spc /\ rpc = "receive"
  BY DEF Inv, OneMessage, Listening, svars
<1>2. up' \in {<<ACK>>, <<NAK>>} \/ (up' = <<ACK, REQ>> /\ spc' \in {"headerReply", "eotReply"})
  BY <1>1
<1>3. /\ up' \in Seq(Nat) /\ (\A j \in 2 .. Len(up') : up'[j] # ACK)
      /\ Len(up') <= 1 \/ (up' = <<ACK, REQ>> /\ spc' \in {"headerReply", "eotReply"})
  <2>1. ACK \in Nat /\ NAK \in Nat /\ REQ \in Nat /\ REQ # ACK
    BY DEF ACK, NAK, REQ
  <2>2. ASSUME NEW a \in Nat
        PROVE  /\ <<a>> \in Seq(Nat) /\ Len(<<a>>) = 1
               /\ \A j \in 2 .. Len(<<a>>) : <<a>>[j] # ACK
    OBVIOUS
  <2>3. <<ACK, REQ>> \in Seq(Nat) /\ \A j \in 2 .. Len(<<ACK, REQ>>) : <<ACK, REQ>>[j] # ACK
    BY <2>1
  <2>4. CASE up' \in {<<ACK>>, <<NAK>>}
    <3>1. PICK a \in Nat : up' = <<a>>
      BY <2>1, <2>4
    <3>2. Len(up') = 1
      BY <2>2, <3>1, Zenon
    <3> QED
      BY <2>2, <3>1, <3>2
  <2>5. CASE up' = <<ACK, REQ>> /\ spc' \in {"headerReply", "eotReply"}
    BY <2>3, <2>5, Zenon
  <2> QED
    BY <1>2, <2>4, <2>5
<1>4. Types'
  <2>1. <<>> \in Seq(Nat) /\ up' \in Seq(Nat)
    BY <1>3
  <2>2. Types
    BY DEF Inv
  <2>3. rpc' \in {"start", "receive", "closed"}
    BY <1>1
  <2>4. /\ spc' = spc /\ filecounter' = filecounter /\ soffset' = soffset /\ snumber' = snumber
        /\ message' = message /\ late' = late
    BY DEF svars
  <2> QED
    BY <2>1, <2>2, <2>3, <2>4 DEF Types
<1>5. Place'
  <2>1. Place
    BY DEF Inv
  <2> QED
    BY <2>1 DEF Place, svars
<1>6. Acks'
  <2>1. \A j \in 2 .. Len(up') : up'[j] # ACK
    BY <1>3
  <2>2. up' = <<NAK>> => Head(up') # ACK
    BY DEF ACK, NAK
  <2> QED
    BY <1>1, <2>1, <2>2 DEF Acks, Quiet
<1>7. OneMessage'
  <2>1. rpc' # "start" /\ spc' \notin Sending
    BY <1>1 DEF Replying, Sending
  <2>2. Len(up') <= 1 \/ (spc' \in {"headerReply", "eotReply"} /\ up' = <<ACK, REQ>>)
    BY <1>3
  <2> QED
    BY <2>1, <2>2 DEF OneMessage
<1> QED
  BY <1>4, <1>5, <1>6, <1>7 DEF Inv

\* What a step may do to the receiver's files: begin the next file of the batch
\* when the last is whole, or make the last one longer by what comes next in it.
FilesGrow ==
  \/ files' = files
  \/ \E k \in 1 .. Len(Files) : files = Got(k - 1, Size(k - 1)) /\ files' = Got(k, 0)
  \/ \E k \in 1 .. Len(Files), n \in Nat, d \in Nat \ {0} :
       n + d <= Size(k) /\ files = Got(k, n) /\ files' = Got(k, n + d)

LEMMA HearsHeaderBlock ==
  ASSUME Inv, Listening, down # <<>>, R!Hear, UNCHANGED <<svars, trouble, late, alive>>,
         spc = "headerReply"
  PROVE  Inv' /\ FilesGrow
<1> DEFINE k == filecounter
           b == Padded(Header(k), PayloadSize(SOH))
<1>1. /\ Types /\ Stage /\ OneMessage /\ ~Over /\ session_done = FALSE /\ aborted = FALSE
      /\ rnumber \in 0 .. SeqCount - 1 /\ k \in 1 .. Len(Files)
      /\ up = <<>> /\ down = SendBlock(SOH, 0, Header(k))
      /\ spc' = spc /\ k' = k
  BY DEF Inv, Listening, Over, Types, OneMessage, Sent, svars
<1>2. /\ Header(k) \in Seq(Nat) /\ Trailer(SOH, Header(k)) \in Nat
      /\ b[1] = Files[k].filename /\ b[2] = Size(k) /\ Files[k].filename # 0
      /\ k - 1 \in 0 .. Len(Files) /\ Len(Files) \in Nat /\ Files[k].data \in Seq(Nat)
  BY <1>1, HeaderFacts, FileType
<1>3. /\ down' = <<>> /\ rpc' = rpc
      /\ \/ rnumber = 0 /\ receiving_data # TRUE /\ HearsHeader(b[1], b[2])
         \/ rnumber = 0 /\ receiving_data = TRUE
         \/ rnumber # 0 /\ HearsAgain
  <2>1. SOH \in {SOH, STX} /\ 0 \in 0 .. SeqCount - 1
    BY Sizes
  <2> HIDE DEF k
  <2> QED
    BY <1>1, <1>2, <2>1, HearsBlock
<1> HIDE DEF b
<1>4. \/ Idle(k - 1)
      \/ Receiving(k, 0) /\ rnumber = 1
  BY <1>1 DEF Stage, CutShort
<1>5. NextNumber(0) = 1 /\ 0 \in 0 .. SeqCount - 1 /\ 1 \in 0 .. SeqCount - 1
  BY Sizes DEF NextNumber
<1>6. CASE Idle(k - 1)
  <2>1. HearsHeader(Files[k].filename, Size(k)) /\ rnumber = 0
    BY <1>2, <1>3, <1>6 DEF Idle
  <2>2. up' = <<ACK, REQ>> /\ rnumber' = 1 /\ receiving_data' = TRUE /\ roffset' = 0 /\ session_done' = FALSE
    BY <1>1, <1>5, <2>1 DEF HearsHeader
  <2>3. CASE files' = Append(files, [filename |-> Files[k].filename, filesize |-> Size(k), data |-> <<>>])
             /\ aborted' = FALSE
    <3>1. SubSeq(Files[k].data, 1, 0) = <<>>
      BY <1>2, SubSeqEmpty
    <3>2. files' = Append(files, Entry(k, 0))
      BY <2>3, <3>1 DEF Entry
    <3>3. files' = Got(k, 0)
      BY <1>1, <1>6, <3>2, GotNext DEF Idle, HoldsWhole
    <3>4. (Receiving(filecounter, 0) /\ rnumber = 1)'
      BY <1>1, <2>2, <3>3 DEF Receiving
    <3>5. Stage'
      BY <1>1, <3>4 DEF Stage, InData, InEot, InFinal
    <3>6. EndsLast'
      BY <2>2 DEF EndsLast
    <3>7. FilesGrow
      <4>1. files = Got(k - 1, Size(k - 1))
        BY <1>6 DEF Idle, HoldsWhole
      <4> QED
        BY <1>1, <3>3, <4>1 DEF FilesGrow
    <3> QED
      BY <1>1, <1>3, <1>5, <2>2, <2>3, <3>4, <3>5, <3>6, <3>7, HearingKeeps
  <2>4. CASE (Len(files) = MaxFiles \/ HostFails = TRUE) /\ files' = files /\ aborted' = TRUE
    <3>1. Len(files) = k - 1
      BY <1>1, <1>6, GotNext DEF Idle, HoldsWhole
    <3>2. Excuse
      BY <1>1, <1>2, <2>4, <3>1 DEF Excuse
    <3>3. HoldsPrefix
      BY <1>2, <1>6, WholeIsPrefix DEF Idle
    <3>4. CutShort'
      BY <2>4, <3>2, <3>3 DEF CutShort, Over, HoldsPrefix
    <3>5. Stage'
      BY <1>1, <3>4 DEF Stage, InData, InEot, InFinal
    <3>6. EndsLast'
      BY <2>2 DEF EndsLast
    <3> QED
      BY <1>1, <1>3, <1>5, <2>2, <2>4, <3>4, <3>5, <3>6, HearingKeeps DEF FilesGrow
  <2> QED
    BY <2>1, <2>3, <2>4 DEF HearsHeader
<1>7. CASE Receiving(k, 0) /\ rnumber = 1
  <2>1. HearsAgain
    BY <1>3, <1>7
  <2>2. up' = <<NAK>> /\ UNCHANGED <<files, rnumber, roffset, receiving_data, session_done, aborted>>
    BY <1>1, <2>1 DEF HearsAgain, SessionStays, OutcomeStays
  <2>3. (Receiving(filecounter, 0) /\ rnumber = 1)'
    BY <1>1, <1>7, <2>2 DEF Receiving
  <2>4. Stage'
    BY <1>1, <2>3 DEF Stage, InData, InEot, InFinal
  <2>5. EndsLast'
    BY <1>1, <2>2 DEF EndsLast
  <2> QED
    BY <1>1, <1>3, <1>5, <1>7, <2>2, <2>4, <2>5, HearingKeeps DEF FilesGrow
<1> QED
  BY <1>4, <1>6, <1>7

LEMMA HearsEotMessage ==
  ASSUME Inv, Listening, down # <<>>, R!Hear, UNCHANGED <<svars, trouble, late, alive>>,
         spc = "eotReply"
  PROVE  Inv' /\ FilesGrow
<1> DEFINE k == filecounter
<1>1. /\ Types /\ Stage /\ ~Over /\ session_done = FALSE /\ aborted = FALSE
      /\ rnumber \in 0 .. SeqCount - 1 /\ up = <<>> /\ down = <<EOT>>
      /\ spc' = spc /\ k' = k /\ soffset' = soffset
  BY DEF Inv, Listening, Over, Types, OneMessage, Sent, svars
<1>2. down' = <<>> /\ rpc' = rpc /\ HearsEot
  BY <1>1, HearsEotByte
<1>3. /\ up' = <<ACK, REQ>> /\ receiving_data' = FALSE /\ rnumber' = 0 /\ roffset' = 0
      /\ files' = files /\ session_done' = FALSE /\ aborted' = FALSE
  BY <1>1, <1>2 DEF HearsEot, OutcomeStays
<1>4. soffset = Size(k) /\ HoldsWhole(k)
  BY <1>1 DEF Stage, InEot, Receiving, Idle, HoldsWhole, CutShort
<1>5. Idle(filecounter)'
  BY <1>1, <1>3, <1>4 DEF Idle, HoldsWhole
<1>6. Stage'
  BY <1>1, <1>4, <1>5 DEF Stage, InData, InEot, InFinal
<1>7. EndsLast' /\ 0 \in 0 .. SeqCount - 1
  BY <1>3, Sizes DEF EndsLast
<1> QED
  BY <1>1, <1>2, <1>3, <1>5, <1>6, <1>7, HearingKeeps DEF FilesGrow

LEMMA HearsFinalBlock ==
  ASSUME Inv, Listening, down # <<>>, R!Hear, UNCHANGED <<svars, trouble, late, alive>>,
         spc = "finalReply"
  PROVE  Inv' /\ FilesGrow
<1>1. /\ Stage /\ session_done = FALSE /\ aborted = FALSE
      /\ rnumber \in 0 .. SeqCount - 1 /\ up = <<>> /\ down = SendBlock(SOH, 0, EmptyBlock0)
      /\ spc' = spc /\ filecounter' = filecounter
  BY DEF Inv, Listening, Over, Types, OneMessage, Sent, svars
<1>2. down' = <<>> /\ rpc' = rpc /\ HearsEnd
  <2>1. SOH \in {SOH, STX} /\ 0 \in 0 .. SeqCount - 1
    BY Sizes
  <2> QED
    BY <1>1, <2>1, HearsBlock, FinalFacts
<1>3. /\ up' = <<ACK>> /\ session_done' = TRUE /\ aborted' = FALSE
      /\ UNCHANGED <<files, rnumber, roffset, receiving_data>>
  BY <1>1, <1>2 DEF HearsEnd, SessionStays
<1>4. filecounter = Len(Files) /\ Idle(filecounter)
  BY <1>1 DEF Stage, InFinal
<1>5. Stage'
  BY <1>1, <1>3, <1>4 DEF Stage, InData, InEot, InFinal, Idle, HoldsWhole
<1>6. EndsLast'
  BY <1>1, <1>4 DEF EndsLast, InFinal
<1> QED
  BY <1>1, <1>2, <1>3, <1>5, <1>6, HearingKeeps DEF FilesGrow

\* The file grows by what the block holds of it, padding cut off.
LEMMA StoresPiece ==
  ASSUME Types, Place, spc \in InData, Receiving(filecounter, soffset),
         HearsData(PayloadSize(Start), Padded(Piece, PayloadSize(Start)))
  PROVE  /\ files' = Got(filecounter, soffset + ChunkOf(Left))
         /\ roffset' = soffset + ChunkOf(Left)
<1> DEFINE k == filecounter
           n == ChunkOf(Left)
           full == PayloadSize(Start)
           payload == Padded(Piece, full)
           f == Entry(k, soffset)
<1>1. /\ k \in 1 .. Len(Files) /\ k \in 0 .. Len(Files) /\ soffset \in Nat /\ Size(k) \in Nat
      /\ Len(Files) \in Nat
  BY CurrentType
<1>2. Len(Piece) = n /\ SubSeq(payload, 1, n) = Piece
  BY DataFacts
<1>3. Piece = SubSeq(Files[k].data, soffset + 1, soffset + n)
  BY DEF Piece
<1>4. /\ Left \in Nat /\ Left = Size(k) - soffset /\ n \in 1 .. Left
      /\ full \in Nat /\ n = Min2(Left, full)
  BY DataFacts
<1> HIDE DEF full, n, payload
<1>5. soffset \in 0 .. Size(k) /\ n \in Nat \ {0} /\ soffset + n <= Size(k)
  BY <1>1, <1>4
<1>6. files = Got(k, soffset) /\ roffset = soffset
  BY DEF Receiving
<1>7. Len(files) = k /\ files[k] = f
  <2>1. (IF k < k THEN Size(k) ELSE soffset) = soffset /\ k \in 1 .. k /\ (k > 0 => soffset <= Size(k))
    BY <1>1, <1>5
  <2> QED
    BY <1>1, <1>6, <2>1, GotType
<1>8. f.filesize = Size(k) /\ Len(f.data) = soffset
  BY <1>1, <1>5, EntryType DEF Entry
<1> HIDE DEF f
<1>9. R!CurrentFile = f
  BY <1>7 DEF R!CurrentFile
<1>10. R!WriteLen(full) = n
  <2>1. R!WriteLen(full) = IF soffset + full > Size(k) THEN full - (soffset + full - Size(k)) ELSE full
    <3>1. f.filesize \in Nat /\ roffset \in Nat /\ full \in Nat
      BY <1>1, <1>4, <1>6, <1>8
    <3> QED
      BY <1>6, <1>8, <1>9, <3>1 DEF R!WriteLen
  <2> QED
    BY <1>1, <1>4, <2>1 DEF Min2
<1>11. roffset' = soffset + n
  <2>1. roffset' = Min2(soffset + full, Size(k))
    BY <1>6, <1>8, <1>9 DEF HearsData, full
  <2> QED
    BY <1>1, <1>4, <2>1 DEF Min2
<1>12. files' = [files EXCEPT ![k] = R!AddData(f, Piece)]
  <2>1. files' = [files EXCEPT ![Len(files)] =
                    R!AddData(files[Len(files)], SubSeq(payload, 1, R!WriteLen(full)))]
    BY Zenon DEF HearsData, payload, full
  <2> QED
    BY <1>2, <1>7, <1>10, <2>1, Zenon
<1>13. R!AddData(f, Piece) = Entry(k, soffset + n)
  <2>1. ~(R!Received(f) + Len(Piece) > f.filesize)
    BY <1>1, <1>2, <1>5, <1>8 DEF R!Received
  <2>2. R!AddData(f, Piece) = [f EXCEPT !.data = @ \o Piece]
    BY <2>1, Zenon DEF R!AddData
  <2> QED
    <3>1. [Entry(k, soffset) EXCEPT !.data = @ \o SubSeq(Files[k].data, soffset + 1, soffset + n)]
            = Entry(k, soffset + n)
      BY <1>1, <1>5, EntryGrows
    <3> QED
      BY <1>3, <2>2, <3>1, Zenon DEF f
<1>14. files' = Got(k, soffset + n)
  BY <1>1, <1>6, <1>12, <1>13, GotMore
<1> QED
  BY <1>11, <1>14 DEF n

LEMMA Multiples ==
  ASSUME NEW k \in Nat, NEW n \in Nat \ {0}
  PROVE  k * n \in Nat /\ k <= k * n
<1>1. k * n = k + k * (n - 1) /\ n - 1 \in Nat
  OBVIOUS
<1>2. \A a, b \in Nat : a * b \in Nat
  OBVIOUS
<1> QED
  BY <1>1, <1>2

\* A block's place is found within the bounds LooksLikeEnd searches.
LEMMA LooksLike ==
  ASSUME NEW i \in DOMAIN Files, NEW k \in Nat, NEW m \in Nat, NEW o,
         AtBlock(o, Size(i), k, m), o < Size(i), Size(i) \in Nat,
         (1 + k + m) % SeqCount = 0, Files[i].data[o + 1] = 0
  PROVE  LooksLikeEnd
<1> DEFINE size == Size(i)
           a == k * Block1K
           b == m * Block128
<1>1. /\ o = a + b /\ a <= size /\ (m > 0 => size - a < Block1K) /\ o < size /\ size \in Nat
      /\ size = Len(Files[i].data)
  BY DEF AtBlock, Size
<1>2. Block1K \in Nat \ {0} /\ Block128 \in Nat \ {0}
  BY Sizes
<1>3. a \in Nat /\ b \in Nat /\ k <= a /\ m <= b
  BY <1>2, Multiples
<1> HIDE DEF a, b, size
<1>4. k \in 0 .. size /\ m \in 0 .. size
  BY <1>1, <1>3
<1> QED
  BY <1>1, <1>4 DEF LooksLikeEnd, a, b

LEMMA HearsDataBlock ==
  ASSUME Inv, Listening, down # <<>>, R!Hear, UNCHANGED <<svars, trouble, late, alive>>,
         spc = "dataReply"
  PROVE  Inv' /\ FilesGrow
<1> DEFINE k == filecounter
           n == ChunkOf(Left)
           b == Padded(Piece, PayloadSize(Start))
<1>1. /\ Types /\ Place /\ Stage /\ ~Over /\ session_done = FALSE /\ aborted = FALSE
      /\ rnumber \in 0 .. SeqCount - 1 /\ snumber \in 0 .. SeqCount - 1 /\ spc \in InData
      /\ up = <<>> /\ down = SendBlock(Start, snumber, Piece)
      /\ spc' = spc /\ k' = k /\ soffset' = soffset /\ snumber' = snumber
  BY DEF Inv, Listening, Over, Types, OneMessage, Sent, svars, InData
<1>2. /\ Start \in {SOH, STX} /\ Piece \in Seq(Nat) /\ Trailer(Start, Piece) \in Nat
      /\ b[1] = Files[k].data[soffset + 1]
  BY <1>1, DataFacts
<1>3. /\ down' = <<>> /\ rpc' = rpc
      /\ \/ snumber = 0 /\ b[1] = 0 /\ HearsEnd
         \/ receiving_data # TRUE /\ rnumber = 0 /\ snumber = 0
         \/ snumber = rnumber /\ HearsData(PayloadSize(Start), b)
         \/ snumber # rnumber /\ HearsAgain
  <2> HIDE DEF b
  <2>1. /\ down' = <<>> /\ rpc' = rpc
        /\ \/ snumber = 0 /\ b[1] = 0 /\ HearsEnd
           \/ snumber = 0 /\ rnumber = 0 /\ receiving_data # TRUE /\ HearsHeader(b[1], b[2])
           \/ snumber = rnumber /\ HearsData(PayloadSize(Start), b)
           \/ snumber # rnumber /\ HearsAgain
    <3>1. ASSUME NEW start \in {SOH, STX}, NEW data \in Seq(Nat), Trailer(start, data) \in Nat,
                 down = SendBlock(start, snumber, data), NEW p, p = Padded(data, PayloadSize(start))
          PROVE  /\ down' = <<>> /\ rpc' = rpc
                 /\ \/ snumber = 0 /\ p[1] = 0 /\ HearsEnd
                    \/ snumber = 0 /\ rnumber = 0 /\ receiving_data # TRUE /\ HearsHeader(p[1], p[2])
                    \/ snumber = rnumber /\ HearsData(PayloadSize(start), p)
                    \/ snumber # rnumber /\ HearsAgain
      BY <1>1, <3>1, HearsBlock
    <3> QED
      BY <1>1, <1>2, <3>1, Zenon DEF b
  <2> QED
    BY <2>1
<1>4. \/ Receiving(k, soffset) /\ rnumber = snumber
      \/ OneAhead
  BY <1>1 DEF Stage, CutShort
<1>5. /\ NextNumber(snumber) \in 0 .. SeqCount - 1 /\ NextNumber(snumber) # snumber
      /\ k \in 0 .. Len(Files) /\ soffset \in Nat /\ soffset + n \in Nat
      /\ soffset <= Size(k) /\ soffset + n <= Size(k) /\ k > 0
  <2>1. snumber \in 0 .. SeqCount - 1 /\ SeqCount \in Nat /\ SeqCount >= 2
    BY <1>1, Sizes
  <2>2. (snumber + 1) % SeqCount \in 0 .. SeqCount - 1 /\ (snumber + 1) % SeqCount # snumber
    BY <2>1
  <2>3. /\ k \in 1 .. Len(Files) /\ Len(Files) \in Nat /\ soffset \in Nat /\ Size(k) \in Nat
    BY <1>1, CurrentType
  <2>4. /\ Left \in Nat /\ Left = Size(k) - soffset /\ n \in 1 .. Left
    BY <1>1, DataFacts
  <2> HIDE DEF n
  <2> QED
    BY <2>2, <2>3, <2>4 DEF NextNumber
<1> HIDE DEF b
<1>6. CASE snumber = 0 /\ b[1] = 0 /\ HearsEnd
  <2>1. /\ up' = <<ACK>> /\ session_done' = TRUE /\ aborted' = FALSE
        /\ UNCHANGED <<files, rnumber, roffset, receiving_data>>
    BY <1>1, <1>6 DEF HearsEnd, SessionStays
  <2>2. LooksLikeEnd
    <3>1. PICK i, m \in Nat :
            /\ AtBlock(soffset, Size(k), i, m) /\ soffset < Size(k)
            /\ snumber = (1 + i + m) % SeqCount
      BY <1>1 DEF Place
    <3>2. k \in DOMAIN Files /\ soffset = i * Block1K + m * Block128
      BY <1>1, <3>1, CurrentType, FileType DEF AtBlock
    <3>3. Files[k].data[soffset + 1] = 0 /\ (1 + i + m) % SeqCount = 0
      BY <1>2, <1>6, <3>1
    <3>4. Size(k) \in Nat
      BY <1>1, CurrentType
    <3> HIDE DEF k
    <3> QED
      BY <3>1, <3>2, <3>3, <3>4, LooksLike
  <2>3. HoldsPrefix
    <3>1. files = Got(k, soffset) \/ files = Got(k, soffset + n)
      BY <1>4 DEF OneAhead, Receiving
    <3> HIDE DEF k, n
    <3> QED
      BY <1>5, <3>1 DEF HoldsPrefix
  <2>4. CutShort'
    BY <2>1, <2>2, <2>3 DEF CutShort, Over, HoldsPrefix, Excuse
  <2>5. Stage'
    BY <1>1, <2>4 DEF Stage, InData, InEot, InFinal
  <2>6. EndsLast'
    BY <2>2 DEF EndsLast, LooksLikeEnd
  <2> QED
    BY <1>1, <1>3, <2>1, <2>4, <2>5, <2>6, HearingKeeps DEF FilesGrow
<1>7. CASE snumber = rnumber /\ HearsData(PayloadSize(Start), b)
  <2>1. Receiving(k, soffset)
    BY <1>4, <1>5, <1>7 DEF OneAhead
  <2>2. files' = Got(k, soffset + n) /\ roffset' = soffset + n
    BY <1>1, <1>7, <2>1, StoresPiece DEF b
  <2>3. /\ up' = <<ACK>> /\ rnumber' = NextNumber(snumber) /\ receiving_data' = TRUE
        /\ session_done' = FALSE /\ aborted' = FALSE
    BY <1>1, <1>7, <2>1 DEF HearsData, OutcomeStays, Receiving
  <2>4. OneAhead'
    BY <1>1, <2>2, <2>3 DEF OneAhead, Receiving, Left
  <2>5. Stage'
    BY <1>1, <2>4 DEF Stage, InData, InEot, InFinal
  <2>6. EndsLast'
    BY <2>3 DEF EndsLast
  <2>7. FilesGrow
    <3>1. /\ k \in 1 .. Len(Files) /\ n \in Nat \ {0}
          /\ files = Got(k, soffset) /\ soffset \in Nat /\ soffset + n <= Size(k)
      <4>1. Left \in Nat /\ n \in 1 .. Left /\ k \in 1 .. Len(Files)
        BY <1>1, DataFacts, CurrentType
      <4> HIDE DEF n, k
      <4> QED
        BY <1>5, <2>1, <4>1 DEF Receiving
    <3> HIDE DEF n, k
    <3> QED
      BY <2>2, <3>1 DEF FilesGrow
  <2> QED
    BY <1>1, <1>3, <1>5, <2>3, <2>4, <2>5, <2>6, <2>7, HearingKeeps
<1>8. CASE snumber # rnumber /\ HearsAgain
  <2>1. /\ up' = <<NAK>> /\ session_done' = FALSE /\ aborted' = FALSE
        /\ UNCHANGED <<files, rnumber, roffset, receiving_data>>
    BY <1>1, <1>8 DEF HearsAgain, SessionStays, OutcomeStays
  <2>2. OneAhead'
    BY <1>1, <1>4, <1>8, <2>1 DEF OneAhead, Receiving, Left
  <2>3. Stage'
    BY <1>1, <2>2 DEF Stage, InData, InEot, InFinal
  <2>4. EndsLast'
    BY <2>1 DEF EndsLast
  <2> QED
    BY <1>1, <1>3, <2>1, <2>2, <2>3, <2>4, HearingKeeps DEF FilesGrow
<1>9. ~(receiving_data # TRUE /\ rnumber = 0 /\ snumber = 0)
  BY <1>4 DEF OneAhead, Receiving
<1> QED
  BY <1>3, <1>6, <1>7, <1>8, <1>9

-----------------------------------------------------------------------------
(* What keeps the parts of the invariant. *)

\* Wherever the two programs are, the receiver holds a beginning of the batch.
LEMMA StagePrefix ==
  ASSUME Types, Place, Stage
  PROVE  HoldsPrefix
<1> DEFINE k == filecounter
<1>1. /\ k \in 1 .. Len(Files) /\ k \in 0 .. Len(Files) /\ k - 1 \in 0 .. Len(Files)
      /\ 0 \in 0 .. Len(Files) /\ soffset \in Nat /\ 0 <= Size(k) /\ Size(k) \in Nat
  BY CurrentType
<1>2. ASSUME NEW n \in Nat, n <= Size(k), files = Got(k, n) PROVE HoldsPrefix
  BY <1>1, <1>2 DEF HoldsPrefix
<1>3. ASSUME Idle(k) PROVE HoldsPrefix
  BY <1>1, <1>3, WholeIsPrefix DEF Idle
<1>4. ASSUME Idle(k - 1) PROVE HoldsPrefix
  BY <1>1, <1>4, WholeIsPrefix DEF Idle
<1>5. CASE spc \in {"start", "waitReceiver"}
  BY <1>1, <1>5, WholeIsPrefix DEF Stage, Idle
<1>6. CASE spc \in {"waitC", "header", "headerReply", "waitDataC"}
  <2>1. Idle(k - 1) \/ files = Got(k, 0) \/ CutShort
    BY <1>6 DEF Stage, Receiving
  <2> HIDE DEF k
  <2> QED
    BY <1>1, <1>2, <1>4, <2>1 DEF CutShort
<1>7. CASE spc \in InData
  <2>1. /\ Left \in Nat /\ Left = Size(k) - soffset /\ ChunkOf(Left) \in 1 .. Left
    BY <1>7, DataFacts
  <2>2. files = Got(k, soffset) \/ files = Got(k, soffset + ChunkOf(Left)) \/ CutShort
    BY <1>7 DEF Stage, Receiving, OneAhead
  <2> HIDE DEF k
  <2>3. /\ soffset <= Size(k) /\ soffset + ChunkOf(Left) \in Nat
        /\ soffset + ChunkOf(Left) <= Size(k)
    BY <1>1, <2>1
  <2> QED
    BY <1>1, <1>2, <2>2, <2>3 DEF CutShort
<1>8. CASE spc \in InEot
  <2>1. files = Got(k, Size(k)) \/ CutShort
    BY <1>8 DEF Stage, Receiving, Idle, HoldsWhole
  <2> QED
    BY <1>1, <1>2, <2>1 DEF CutShort
<1>9. CASE spc \in InFinal \cup {"waitFinalC"}
  BY <1>3, <1>9 DEF Stage
<1>10. CASE spc = "closed"
  BY <1>10 DEF Stage
<1>11. spc \in {"start", "waitReceiver"} \/ spc \in {"waitC", "header", "headerReply", "waitDataC"}
         \/ spc \in InData \/ spc \in InEot \/ spc \in InFinal \cup {"waitFinalC"} \/ spc = "closed"
  BY DEF Types, Sending, Replying, Waiting, InData, InEot, InFinal
<1> QED
  BY <1>5, <1>6, <1>7, <1>8, <1>9, <1>10, <1>11

\* Stage speaks of the session and the sender's place only, and of an ending.
LEMMA StageStays ==
  ASSUME Stage, UNCHANGED <<spc, filecounter, soffset, snumber, message>>,
         SessionStays, OutcomeStays \/ ~Over
  PROVE  Stage'
<1>1. CASE OutcomeStays
  BY <1>1 DEF Stage, Idle, Receiving, HoldsWhole, OneAhead, Left, CutShort, Over, OutcomeStays,
     HoldsPrefix, SessionStays
<1>2. CASE ~Over
  <2>1. ~CutShort
    BY <1>2 DEF CutShort
  <2>2. /\ UNCHANGED <<spc, filecounter, soffset, snumber, message>>
        /\ UNCHANGED <<files, rnumber, roffset, receiving_data>>
    BY DEF SessionStays
  <2> QED
    BY <2>1, <2>2 DEF Stage, Idle, Receiving, HoldsWhole, OneAhead, Left, HoldsPrefix
<1> QED
  BY <1>1, <1>2

\* What is read is gone, an ACK with it.
LEMMA ReadingKeeps ==
  ASSUME Types, Acks, OneMessage, ReadsOne
  PROVE  /\ up' \in Seq(Nat) /\ down' \in Seq(Nat) /\ Acks' /\ rpc # "start"
         /\ Listening => /\ down' = <<>> /\ Len(up') <= 1
                         /\ spc \notin {"headerReply", "eotReply"} \/ Head(up) # ACK => up' = <<>>
<1>1. up \in Seq(Nat) /\ up # <<>> /\ up' = Tail(up) /\ down' = down /\ down \in Seq(Nat)
  BY DEF Types, ReadsOne
<1>2. /\ up' \in Seq(Nat) /\ Len(up') = Len(up) - 1 /\ Len(up) \in Nat
      /\ \A j \in 1 .. Len(up') : up'[j] = up[j + 1]
  BY <1>1, HeadTailProperties, LenProperties
<1>3. \A j \in 1 .. Len(up') : up'[j] # ACK
  <2>1. \A j \in 1 .. Len(up') : j + 1 \in 2 .. Len(up)
    BY <1>2
  <2> QED
    BY <1>2, <2>1 DEF Acks
<1>4. Acks'
  <2>1. \A j \in 2 .. Len(up') : j \in 1 .. Len(up')
    BY <1>2
  <2>2. up' # <<>> => Head(up') = up'[1] /\ 1 \in 1 .. Len(up')
    BY <1>2, EmptySeq, LenProperties
  <2>3. Quiet'
    BY <1>3, <2>2 DEF Quiet
  <2> QED
    BY <1>3, <2>1, <2>3 DEF Acks
<1>5. rpc # "start"
  BY <1>1 DEF OneMessage
<1>6. ASSUME Listening
      PROVE  /\ down' = <<>> /\ Len(up') <= 1
             /\ spc \notin {"headerReply", "eotReply"} \/ Head(up) # ACK => up' = <<>>
  <2>1. down = <<>>
    BY <1>1, <1>6 DEF OneMessage
  <2>2. Len(up) <= 1 \/ (spc \in {"headerReply", "eotReply"} /\ up = <<ACK, REQ>>)
    BY <1>6 DEF OneMessage
  <2>3. Len(up) <= 1 => Len(up') = 0
    BY <1>2, LenProperties
  <2>4. Len(up') = 0 => up' = <<>>
    BY <1>2, EmptySeq
  <2>5. Len(<<ACK, REQ>>) = 2 /\ Head(<<ACK, REQ>>) = ACK
    OBVIOUS
  <2> QED
    BY <1>1, <1>2, <2>1, <2>2, <2>3, <2>4, <2>5
<1> QED
  BY <1>1, <1>2, <1>4, <1>5, <1>6

-----------------------------------------------------------------------------
(* The steps of the sender. *)

SenderAlone == "sender" \in alive /\ UNCHANGED <<rvars, trouble, late, alive>>

LEMMA BeginningKeeps ==
  ASSUME Inv, SenderAlone, SenderBegins
  PROVE  Inv'
<1>1. /\ spc = "start" /\ spc' = "waitReceiver" /\ up' = <<>> /\ down' = down /\ Unmoved
      /\ message' = message
      /\ UNCHANGED <<files, rnumber, roffset, receiving_data, rpc, session_done, aborted, late, alive>>
  BY DEF SenderBegins, SenderAlone, rvars
<1>2. Types' /\ Place' /\ Stage' /\ Acks' /\ OneMessage' /\ EndsLast'
  <2>1. Types'
    <3>1. <<>> \in Seq(Nat)
      OBVIOUS
    <3> QED
      BY <1>1, <3>1 DEF Inv, Types, Unmoved
  <2>2. Place' /\ Stage' /\ EndsLast'
    BY <1>1 DEF Inv, Place, Stage, EndsLast, Unmoved, InData, InEot, InFinal, Idle, HoldsWhole
  <2>3. Acks'
    BY <1>1 DEF Acks, Quiet
  <2>4. OneMessage'
    BY <1>1 DEF Inv, OneMessage, Replying, Sending, Listening, Over
  <2> QED
    BY <2>1, <2>2, <2>3, <2>4
<1> QED
  BY <1>2 DEF Inv

LEMMA HearingReceiverKeeps ==
  ASSUME Inv, SenderAlone, HearsReceiver
  PROVE  Inv'
<1>1. /\ spc = "waitReceiver" /\ spc' \in {"waitReceiver", "header"} /\ ReadsOne /\ Unmoved
      /\ message' = message
      /\ UNCHANGED <<files, rnumber, roffset, receiving_data, rpc, session_done, aborted, late, alive>>
  BY DEF HearsReceiver, SenderAlone, rvars
<1>2. /\ up' \in Seq(Nat) /\ down' \in Seq(Nat) /\ Acks' /\ rpc # "start"
      /\ (Listening => down' = <<>> /\ up' = <<>>)
  BY <1>1, ReadingKeeps DEF Inv
<1>3. Types'
  BY <1>1, <1>2 DEF Inv, Types, Unmoved, Sending, Replying, Waiting
<1>4. Place' /\ Stage' /\ EndsLast'
  <2>1. filecounter = 1 /\ Idle(0) /\ 1 - 1 = 0
    BY <1>1 DEF Inv, Stage
  <2>2. Place' /\ EndsLast'
    BY <1>1 DEF Inv, Place, EndsLast, Unmoved, InData, InFinal
  <2>3. Idle(0)' /\ filecounter' = 1
    BY <1>1, <2>1 DEF Idle, HoldsWhole, Unmoved
  <2>4. Idle(filecounter - 1)'
    BY <2>1, <2>3 DEF Idle, HoldsWhole
  <2> QED
    BY <1>1, <2>2, <2>3, <2>4 DEF Stage, InData, InEot, InFinal
<1>5. OneMessage'
  <2>1. Listening' => Listening
    BY <1>1 DEF Listening, Over
  <2>2. up' = <<>> => Len(up') <= 1
    BY EmptySeq
  <2> QED
    BY <1>1, <1>2, <2>1, <2>2 DEF OneMessage
<1> QED
  BY <1>2, <1>3, <1>4, <1>5 DEF Inv

LEMMA SendingKeeps ==
  ASSUME Inv, SenderAlone, Sends
  PROVE  Inv'
<1>1. /\ \/ spc = "header" /\ spc' = "headerReply"
         \/ spc = "data" /\ spc' = "dataReply"
         \/ spc = "eot" /\ spc' = "eotReply"
         \/ spc = "final" /\ spc' = "finalReply"
      /\ "sender" \in alive
      /\ down' = down \o Sent(spc') /\ UNCHANGED <<up, message, filecounter, soffset, snumber>>
      /\ UNCHANGED <<files, rnumber, roffset, receiving_data, rpc, session_done, aborted, late, alive>>
  BY DEF Sends, SenderAlone, rvars, Unmoved
<1>2. Types /\ Place /\ Stage /\ Acks /\ OneMessage /\ EndsLast
  BY DEF Inv
<1>3. spc' \in Replying /\ spc \in Sending /\ (spc' = "dataReply" => spc \in InData)
  BY <1>1 DEF Replying, Sending, InData
<1>4. Sent(spc') \in Seq(Nat)
  <2>1. ASSUME NEW loop \in Replying, loop = "dataReply" => spc \in InData
        PROVE  Sent(loop) \in Seq(Nat)
    BY <1>2, <2>1, MessageType
  <2> QED
    BY <1>3, <2>1
<1>5. Sent(spc)' = Sent(spc')
  BY <1>1 DEF Sent, Start, Left, Piece, Header
<1>6. Types'
  <2>1. down' \in Seq(Nat)
    <3> DEFINE more == Sent(spc')
    <3>1. more \in Seq(Nat) /\ down \in Seq(Nat) /\ down' = down \o more
      BY <1>1, <1>2, <1>4 DEF Types
    <3> HIDE DEF more
    <3> QED
      BY <3>1, ConcatProperties
  <2> QED
    BY <1>1, <1>2, <2>1 DEF Types, Sending, Replying, Waiting
<1>7. Place' /\ EndsLast'
  BY <1>1, <1>2 DEF Place, EndsLast, InData, InFinal
<1>8. Stage'
  BY <1>1, <1>2 DEF Stage, InData, InEot, InFinal, Idle, Receiving, HoldsWhole, OneAhead, Left,
     CutShort, Over, HoldsPrefix
<1>9. Acks'
  <2>1. Quiet
    BY <1>1, <1>2 DEF Acks
  <2> QED
    BY <1>1, <1>2, <2>1 DEF Acks, Quiet
<1>10. OneMessage'
  <2>1. rpc # "start"
    BY <1>1, <1>2 DEF OneMessage
  <2>2. ASSUME Listening PROVE up = <<>> /\ down = <<>>
    BY <1>1, <1>2, <1>3, <2>2 DEF OneMessage, Sending, Replying
  <2>3. ASSUME Listening PROVE down' = Sent(spc)'
    <3> DEFINE more == Sent(spc')
    <3>1. more \in Seq(Nat) /\ down' = <<>> \o more
      BY <1>1, <1>4, <2>2, <2>3
    <3> HIDE DEF more
    <3>2. down' = more
      BY <3>1, ConcatEmptySeq
    <3> QED
      BY <1>5, <3>2 DEF more
  <2>4. Listening' => Listening
    BY <1>1 DEF Listening, Over
  <2>5. up = <<>> => up' = <<>> /\ Len(up') <= 1
    BY <1>1, EmptySeq
  <2> QED
    BY <1>1, <1>3, <2>1, <2>2, <2>3, <2>4, <2>5 DEF OneMessage
<1> QED
  BY <1>6, <1>7, <1>8, <1>9, <1>10 DEF Inv

\* After an answer was read only these are left to show.
LEMMA AnswerKeeps ==
  ASSUME Inv, SenderAlone, ReadsOne,
         spc \notin {"headerReply", "eotReply"} \/ Head(up) # ACK \/ spc' \notin Sending,
         spc' \in Sending \cup Waiting \cup {"closed"},
         filecounter' \in 1 .. Len(Files), soffset' \in Nat, snumber' \in 0 .. SeqCount - 1,
         message' \in {"none", "Done", "MaxRetries", "ReceiverAborts"},
         (message' = "none") <=> (spc' # "closed"),
         Place', Stage', EndsLast'
  PROVE  Inv'
<1>1. UNCHANGED <<files, rnumber, roffset, receiving_data, rpc, session_done, aborted, late, alive>>
  BY DEF SenderAlone, rvars
<1>2. /\ up' \in Seq(Nat) /\ down' \in Seq(Nat) /\ Acks' /\ rpc # "start"
      /\ Listening => /\ down' = <<>> /\ Len(up') <= 1
                      /\ spc \notin {"headerReply", "eotReply"} \/ Head(up) # ACK => up' = <<>>
  BY ReadingKeeps DEF Inv
<1>3. Types'
  BY <1>1, <1>2 DEF Inv, Types
<1>4. OneMessage'
  <2>1. Listening' => Listening
    BY <1>1 DEF Listening, Over
  <2> QED
    BY <1>1, <1>2, <2>1 DEF OneMessage
<1> QED
  BY <1>2, <1>3, <1>4 DEF Inv

LEMMA AskedKeeps ==
  ASSUME Inv, SenderAlone, IsAsked
  PROVE  Inv'
<1> DEFINE k == filecounter
<1>1. /\ ReadsOne /\ Head(up) = REQ /\ REQ # ACK /\ k' = k /\ message' = message
      /\ UNCHANGED <<files, rnumber, roffset, receiving_data, rpc, session_done, aborted, late, alive>>
  BY DEF IsAsked, SenderAlone, rvars, REQ, ACK
<1>2. Types /\ Place /\ Stage /\ EndsLast
  BY DEF Inv
<1>3. /\ k \in 1 .. Len(Files) /\ soffset \in Nat /\ snumber \in 0 .. SeqCount - 1
      /\ Size(k) \in Nat /\ 1 \in 0 .. SeqCount - 1 /\ 1 = 1 % SeqCount
      /\ message \in {"none", "Done", "MaxRetries", "ReceiverAborts"}
      /\ ((message = "none") <=> (spc # "closed"))
  <2>1. 1 \in 0 .. SeqCount - 1 /\ 1 = 1 % SeqCount
    BY Sizes
  <2> QED
    BY <1>2, <2>1, CurrentType DEF Types
<1>4. CASE /\ (spc = "waitC" /\ spc' = "header") \/ (spc = "waitFinalC" /\ spc' = "final")
           /\ UNCHANGED <<soffset, snumber>>
  <2>1. Place' /\ EndsLast'
    BY <1>1, <1>2, <1>4 DEF Place, EndsLast, InData, InFinal
  <2>2. Stage'
    BY <1>1, <1>2, <1>4 DEF Stage, InData, InEot, InFinal, Idle, HoldsWhole
  <2> QED
    BY <1>1, <1>3, <1>4, <2>1, <2>2, AnswerKeeps DEF Sending
<1>5. CASE /\ spc = "waitDataC" /\ soffset' = 0 /\ snumber' = 1
           /\ spc' = IF Size(k) > 0 THEN "data" ELSE "eot"
  <2>1. spc' \in {"data", "eot"} /\ (spc' = "data" => 0 < Size(k)) /\ (spc' = "eot" => Size(k) = 0)
    BY <1>3, <1>5
  <2>2. Place'
    <3>1. 0 < Size(k) => AtBlock(0, Size(k), 0, 0) /\ 1 = (1 + 0 + 0) % SeqCount /\ 0 \in Nat
      BY <1>3, Sizes DEF AtBlock
    <3>2. spc' = "data" =>
            \E i, m \in Nat :
              AtBlock(0, Size(k), i, m) /\ 0 < Size(k) /\ 1 = (1 + i + m) % SeqCount
      BY <2>1, <3>1
    <3> QED
      BY <1>1, <1>5, <2>1, <3>2 DEF Place, InData
  <2>3. EndsLast'
    BY <1>1, <1>2, <1>5, <2>1 DEF EndsLast, InFinal
  <2>4. (files = Got(k, 0) /\ receiving_data = TRUE /\ roffset = 0 /\ rnumber = 1) \/ CutShort
    BY <1>2, <1>5 DEF Stage, Receiving
  <2>5. (Receiving(filecounter, soffset) /\ rnumber = snumber)' \/ CutShort'
    BY <1>1, <1>5, <2>4 DEF Receiving, CutShort, Over, HoldsPrefix
  <2>6. Stage'
    BY <1>1, <1>5, <2>1, <2>5 DEF Stage, InData, InEot, InFinal
  <2> QED
    BY <1>1, <1>3, <1>5, <2>1, <2>2, <2>3, <2>6, AnswerKeeps DEF Sending
<1> QED
  BY <1>4, <1>5 DEF IsAsked

LEMMA AckedKeeps ==
  ASSUME Inv, SenderAlone, IsAcked
  PROVE  Inv'
<1> DEFINE k == filecounter
           n == ChunkOf(Left)
<1>1. /\ ReadsOne /\ Head(up) = ACK /\ up # <<>>
      /\ UNCHANGED <<files, rnumber, roffset, receiving_data, rpc, session_done, aborted, late, alive>>
  BY DEF IsAcked, ReadsOne, SenderAlone, rvars
<1>2. Types /\ Place /\ Stage /\ Acks /\ EndsLast
  BY DEF Inv
<1>3. /\ k \in 1 .. Len(Files) /\ Len(Files) \in Nat /\ soffset \in Nat
      /\ snumber \in 0 .. SeqCount - 1 /\ Size(k) \in Nat
      /\ message \in {"none", "Done", "MaxRetries", "ReceiverAborts"}
      /\ ((message = "none") <=> (spc # "closed"))
  BY <1>2, CurrentType DEF Types
<1>4. \/ spc = "headerReply" /\ ((Receiving(k, 0) /\ rnumber = 1) \/ CutShort)
      \/ spc = "dataReply" /\ (OneAhead \/ CutShort)
      \/ spc = "eotReply" /\ Idle(k)
      \/ spc = "finalReply"
  BY <1>1, <1>2 DEF Acks, Quiet
<1>5. CASE spc = "headerReply" /\ spc' = "waitDataC" /\ UNCHANGED message /\ Unmoved
  <2>1. Place' /\ EndsLast'
    BY <1>1, <1>2, <1>5 DEF Place, EndsLast, InData, InFinal, Unmoved
  <2>2. Stage'
    BY <1>1, <1>4, <1>5 DEF Stage, InData, InEot, InFinal, Receiving, CutShort, Over, HoldsPrefix,
       Unmoved
  <2> QED
    BY <1>1, <1>3, <1>5, <2>1, <2>2, AnswerKeeps DEF Waiting, Sending, Unmoved
<1>6. CASE /\ spc = "dataReply" /\ soffset' = soffset + n /\ snumber' = NextNumber(snumber)
           /\ spc' = IF Left - n > 0 THEN "data" ELSE "eot"
           /\ UNCHANGED <<filecounter, message>>
  <2>1. /\ Left \in Nat /\ Left = Size(k) - soffset /\ n \in 1 .. Left
    BY <1>2, <1>6, DataFacts DEF InData
  <2> HIDE DEF n
  <2>2. /\ spc' \in {"data", "eot"} /\ soffset' \in Nat
        /\ (spc' = "data" => soffset' < Size(k)) /\ (spc' = "eot" => soffset' = Size(k))
    BY <1>3, <1>6, <2>1
  <2>3. snumber' \in 0 .. SeqCount - 1
    <3>1. (snumber + 1) % SeqCount \in 0 .. SeqCount - 1
      BY <1>3, Sizes
    <3> QED
      BY <1>6, <3>1 DEF NextNumber
  <2>4. Place'
    <3> SUFFICES ASSUME soffset' < Size(k)
                 PROVE  \E i, m \in Nat :
                          AtBlock(soffset', Size(k), i, m) /\ snumber' = (1 + i + m) % SeqCount
      BY <1>6, <2>2 DEF Place, InData
    <3>1. PICK i, m \in Nat :
            /\ AtBlock(soffset, Size(k), i, m) /\ soffset < Size(k)
            /\ snumber = (1 + i + m) % SeqCount
      BY <1>2, <1>6 DEF Place, InData
    <3>2. n = ChunkOf(Size(k) - soffset)
      BY <2>1 DEF n
    <3>3. AtBlock(soffset', Size(k), i + 1, m) \/ AtBlock(soffset', Size(k), i, m + 1)
      <4>1. \/ AtBlock(soffset + n, Size(k), i + 1, m)
            \/ AtBlock(soffset + n, Size(k), i, m + 1)
        BY <1>3, <1>6, <3>1, <3>2, NextPosition
      <4> QED
        BY <1>6, <4>1
    <3>4. snumber' = (1 + (i + 1) + m) % SeqCount /\ snumber' = (1 + i + (m + 1)) % SeqCount
      <4>1. 1 + i + m \in Nat /\ 1 + (i + 1) + m = (1 + i + m) + 1 /\ 1 + i + (m + 1) = (1 + i + m) + 1
        OBVIOUS
      <4>2. snumber' = (((1 + i + m) % SeqCount) + 1) % SeqCount
        BY <1>6, <3>1 DEF NextNumber
      <4>3. snumber' = ((1 + i + m) + 1) % SeqCount
        BY <4>1, <4>2, NextModulo, Sizes
      <4> QED
        BY <4>1, <4>3
    <3>5. i + 1 \in Nat /\ m + 1 \in Nat
      OBVIOUS
    <3> QED
      BY <3>3, <3>4, <3>5
  <2>5. EndsLast'
    BY <1>1, <1>2, <1>6, <2>2 DEF EndsLast, InFinal
  <2>6. (Receiving(filecounter, soffset) /\ rnumber = snumber)' \/ CutShort'
    <3>1. OneAhead \/ CutShort
      BY <1>4, <1>6
    <3> QED
      BY <1>1, <1>6, <3>1 DEF OneAhead, Receiving, CutShort, Over, HoldsPrefix, n
  <2>7. Stage'
    BY <1>1, <1>6, <2>2, <2>6 DEF Stage, InData, InEot, InFinal
  <2> QED
    BY <1>1, <1>3, <1>6, <2>2, <2>3, <2>4, <2>5, <2>7, AnswerKeeps DEF Sending
<1>7. CASE /\ spc = "eotReply" /\ UNCHANGED <<soffset, snumber, message>>
           /\ \/ k < Len(Files) /\ filecounter' = k + 1 /\ spc' = "waitC"
              \/ k = Len(Files) /\ filecounter' = k /\ spc' = "waitFinalC"
  <2>1. Place' /\ filecounter' \in 1 .. Len(Files)
    BY <1>3, <1>7 DEF Place, InData
  <2>2. Idle(k)
    BY <1>4, <1>7
  <2>3. EndsLast'
    <3>1. session_done' = TRUE => LooksLikeEnd
      BY <1>1, <1>2, <1>7 DEF EndsLast, InFinal
    <3> QED
      BY <3>1 DEF EndsLast, LooksLikeEnd
  <2>4. Stage'
    <3>1. CASE k < Len(Files) /\ filecounter' = k + 1 /\ spc' = "waitC"
      <4>1. filecounter' - 1 = k
        BY <1>3, <3>1
      <4>2. Idle(filecounter - 1)'
        BY <1>1, <2>2, <4>1 DEF Idle, HoldsWhole
      <4> QED
        BY <3>1, <4>2 DEF Stage, InData, InEot, InFinal
    <3>2. CASE k = Len(Files) /\ filecounter' = k /\ spc' = "waitFinalC"
      BY <1>1, <2>2, <3>2 DEF Stage, InData, InEot, InFinal, Idle, HoldsWhole
    <3> QED
      BY <1>7, <3>1, <3>2
  <2> QED
    BY <1>1, <1>3, <1>7, <2>1, <2>3, <2>4, AnswerKeeps DEF Waiting, Sending
<1>8. CASE spc = "finalReply" /\ spc' = "closed" /\ message' = "Done" /\ Unmoved
  <2>1. Place' /\ EndsLast'
    BY <1>1, <1>2, <1>8 DEF Place, EndsLast, InData, InFinal, Unmoved
  <2>2. HoldsPrefix /\ HoldsWhole(Len(Files))
    BY <1>2, <1>8, StagePrefix DEF Stage, InFinal, Idle
  <2>3. Stage'
    BY <1>1, <1>8, <2>2 DEF Stage, InData, InEot, InFinal, HoldsPrefix, HoldsWhole
  <2> QED
    BY <1>1, <1>3, <1>8, <2>1, <2>3, AnswerKeeps DEF Sending, Unmoved
<1> QED
  BY <1>5, <1>6, <1>7, <1>8 DEF IsAcked

LEMMA RetryingKeeps ==
  ASSUME Inv, SenderAlone, Retries
  PROVE  Inv'
<1>1. /\ Unmoved
      /\ UNCHANGED <<files, rnumber, roffset, receiving_data, rpc, session_done, aborted, late, alive>>
  BY DEF Retries, SenderAlone, rvars
<1>2. Types /\ Place /\ Stage /\ Acks /\ OneMessage /\ EndsLast
  BY DEF Inv
<1>3. \/ /\ message' = message
         /\ \/ spc \in Waiting /\ spc' = spc
            \/ spc = "headerReply" /\ spc' = "header"
            \/ spc = "dataReply" /\ spc' = "data"
            \/ spc = "eotReply" /\ spc' = "eot"
            \/ spc = "finalReply" /\ spc' = "final"
      \/ /\ spc \in Waiting \cup Replying /\ spc' = "closed"
         /\ message' \in {"Done", "MaxRetries", "ReceiverAborts"}
         /\ message' = "Done" => spc = "finalReply"
  BY DEF Retries
<1>4. /\ spc' \in Sending \cup Waiting \cup {"closed"} /\ spc \in Waiting \cup Replying
      /\ message' \in {"none", "Done", "MaxRetries", "ReceiverAborts"}
      /\ ((message' = "none") <=> (spc' # "closed"))
      /\ (spc' \in Sending => spc \in Replying)
  BY <1>2, <1>3 DEF Types, Sending, Waiting, Replying
<1>5. filecounter' \in 1 .. Len(Files) /\ soffset' \in Nat /\ snumber' \in 0 .. SeqCount - 1
  BY <1>1, <1>2 DEF Types, Unmoved
<1>6. Place' /\ EndsLast'
  BY <1>1, <1>2, <1>3 DEF Place, EndsLast, InData, InFinal, Waiting, Replying, Unmoved
<1>7. Stage'
  <2>1. CASE spc' = "closed" /\ (message' = "Done" => spc = "finalReply")
    <3>1. HoldsPrefix
      BY <1>2, StagePrefix
    <3>2. spc = "finalReply" => HoldsWhole(Len(Files))
      BY <1>2 DEF Stage, InFinal, Idle
    <3> QED
      BY <1>1, <2>1, <3>1, <3>2 DEF Stage, InData, InEot, InFinal, HoldsPrefix, HoldsWhole
  <2>2. CASE spc' # "closed"
    <3>1. \/ spc \in Waiting /\ spc' = spc
          \/ spc = "headerReply" /\ spc' = "header"
          \/ spc = "dataReply" /\ spc' = "data"
          \/ spc = "eotReply" /\ spc' = "eot"
          \/ spc = "finalReply" /\ spc' = "final"
      BY <1>3, <2>2
    <3> QED
      BY <1>1, <1>2, <3>1 DEF Stage, InData, InEot, InFinal, Waiting, Idle, Receiving, HoldsWhole,
         OneAhead, Left, CutShort, Over, HoldsPrefix, Unmoved
  <2> QED
    BY <1>3, <2>1, <2>2 DEF Waiting
<1>8. CASE ReadsOne /\ (Head(up) # ACK \/ spc \in Waiting)
  <2>1. spc \notin {"headerReply", "eotReply"} \/ Head(up) # ACK \/ spc' \notin Sending
    BY <1>8 DEF Waiting
  <2> QED
    BY <1>4, <1>5, <1>6, <1>7, <1>8, <2>1, AnswerKeeps
<1>9. CASE up = <<>> /\ ReceiverStuck /\ UNCHANGED <<up, down>>
  <2>1. Types'
    BY <1>1, <1>2, <1>4, <1>5, <1>9 DEF Types
  <2>2. Acks'
    BY <1>9 DEF Acks, Quiet
  <2>3. ASSUME Listening PROVE down = <<>>
    <3>1. R!Running /\ Incomplete(down)
      BY <1>2, <1>9, <2>3 DEF ReceiverStuck, Dead, Listening, Over, Types
    <3>2. ASSUME down # <<>> PROVE FALSE
      <4>1. spc \in Replying /\ down = Sent(spc)
        BY <1>2, <2>3, <3>2 DEF OneMessage
      <4>2. ~Incomplete(Sent(spc))
        BY <1>2, <4>1, MessageType DEF InData
      <4> QED
        BY <3>1, <4>1, <4>2
    <3> QED
      BY <3>2
  <2>4. OneMessage'
    <3>1. Listening' => Listening
      BY <1>1 DEF Listening, Over
    <3>2. rpc # "start"
      BY <1>2, <1>4 DEF OneMessage, Waiting, Replying
    <3>3. up' = <<>> /\ Len(up') <= 1
      BY <1>9, EmptySeq
    <3> QED
      BY <1>1, <1>9, <2>3, <3>1, <3>2, <3>3 DEF OneMessage
  <2> QED
    BY <1>6, <1>7, <2>1, <2>2, <2>4 DEF Inv
<1> QED
  BY <1>8, <1>9 DEF Retries

-----------------------------------------------------------------------------
(* The steps of the receiver, and those of the line and the users. *)

LEMMA ListeningKeeps ==
  ASSUME Inv, Listening, down # <<>>, R!Hear, UNCHANGED <<svars, trouble, late, alive>>
  PROVE  Inv' /\ FilesGrow
<1>1. spc \in Replying
  BY DEF Inv, OneMessage
<1> QED
  BY <1>1, HearsHeaderBlock, HearsDataBlock, HearsEotMessage, HearsFinalBlock DEF Replying

LEMMA ReceiverBeginningKeeps ==
  ASSUME Inv, ReceiverBegins, UNCHANGED <<svars, late, alive>>
  PROVE  Inv'
<1>1. /\ Types /\ Place /\ Stage /\ Acks /\ OneMessage /\ EndsLast
      /\ UNCHANGED <<spc, filecounter, soffset, snumber, message, late, alive>>
  BY DEF Inv, svars
<1>2. /\ spc \in {"start", "waitReceiver"} /\ rpc' = "receive"
      /\ down' = <<>> /\ up' = <<REQ>> /\ SessionStays /\ OutcomeStays
  <2>1. up = <<>> /\ spc \in {"start", "waitReceiver"}
    BY <1>1 DEF ReceiverBegins, OneMessage
  <2>2. <<>> \o <<REQ>> = <<REQ>>
    OBVIOUS
  <2> QED
    BY <2>1, <2>2 DEF ReceiverBegins
<1>3. <<>> \in Seq(Nat) /\ <<REQ>> \in Seq(Nat) /\ Len(<<REQ>>) = 1 /\ Head(<<REQ>>) = REQ /\ REQ # ACK
  BY DEF REQ, ACK
<1>4. Types'
  BY <1>1, <1>2, <1>3 DEF Types, SessionStays, OutcomeStays
<1>5. Place' /\ Stage' /\ EndsLast'
  BY <1>1, <1>2, StageStays DEF Place, EndsLast, OutcomeStays
<1>6. Acks'
  BY <1>2, <1>3 DEF Acks, Quiet
<1>7. OneMessage'
  BY <1>1, <1>2, <1>3 DEF OneMessage, Sending
<1> QED
  BY <1>4, <1>5, <1>6, <1>7 DEF Inv

LEMMA FinishingKeeps ==
  ASSUME Inv, ReceiverFinishes, UNCHANGED <<svars, late, alive>>
  PROVE  Inv'
<1>1. /\ Types /\ Place /\ Stage /\ Acks /\ OneMessage /\ EndsLast
      /\ UNCHANGED <<spc, filecounter, soffset, snumber, message, late, alive>>
      /\ rpc' = "closed" /\ down' = <<>> /\ (up' = up \/ up' = up \o <<CAN, CAN>>)
      /\ SessionStays /\ OutcomeStays
  BY DEF Inv, ReceiverFinishes, svars
<1>2. up' \in Seq(Nat) /\ Acks'
  <2>1. CASE up' = up
    BY <1>1, <2>1 DEF Types, Acks, Quiet, OneAhead, Receiving, Left, Idle, HoldsWhole, CutShort, Over,
       HoldsPrefix, SessionStays, OutcomeStays
  <2>2. CASE up' = up \o <<CAN, CAN>>
    <3> DEFINE end == <<CAN, CAN>>
    <3>1. /\ up \in Seq(Nat) /\ end \in Seq(Nat) /\ Len(end) = 2
          /\ end[1] = CAN /\ end[2] = CAN /\ CAN # ACK
      BY <1>1 DEF Types, CAN, ACK
    <3> HIDE DEF end
    <3>2. /\ up' \in Seq(Nat) /\ Len(up') = Len(up) + 2 /\ Len(up) \in Nat
          /\ \A j \in 1 .. Len(up) + 2 :
               up'[j] = IF j <= Len(up) THEN up[j] ELSE end[j - Len(up)]
      BY <2>2, <3>1, ConcatProperties, LenProperties DEF end
    <3>3. \A j \in 1 .. Len(up') : j <= Len(up) \/ up'[j] = CAN
      <4> SUFFICES ASSUME NEW j \in 1 .. Len(up'), ~(j <= Len(up)) PROVE up'[j] = CAN
        OBVIOUS
      <4>1. j - Len(up) \in {1, 2} /\ j \in 1 .. Len(up) + 2
        BY <3>2
      <4> QED
        BY <3>1, <3>2, <4>1
    <3>4. \A j \in 2 .. Len(up') : up'[j] # ACK
      <4> SUFFICES ASSUME NEW j \in 2 .. Len(up'), up'[j] = ACK PROVE FALSE
        OBVIOUS
      <4>1. j \in 1 .. Len(up') /\ j \in 1 .. Len(up) + 2
        BY <3>2
      <4>2. j <= Len(up)
        BY <3>1, <3>3, <4>1
      <4>3. j \in 2 .. Len(up) /\ up'[j] = up[j]
        BY <3>2, <4>1, <4>2
      <4> QED
        BY <1>1, <4>3 DEF Acks
    <3>5. up' # <<>> /\ Head(up') = up'[1] /\ 1 \in 1 .. Len(up')
      BY <3>2, EmptySeq
    <3>6. ASSUME ~Quiet' PROVE ~Quiet
      <4>1. up'[1] = ACK
        BY <3>5, <3>6 DEF Quiet
      <4>2. 1 <= Len(up)
        BY <3>1, <3>3, <3>5, <4>1
      <4>3. up # <<>> /\ Head(up) = up[1]
        BY <3>1, <4>2, EmptySeq
      <4>4. up'[1] = up[1]
        BY <3>2, <4>2
      <4> QED
        BY <4>1, <4>3, <4>4 DEF Quiet
    <3> QED
      BY <1>1, <3>2, <3>4, <3>6 DEF Acks, OneAhead, Receiving, Left, Idle, HoldsWhole, CutShort, Over,
         HoldsPrefix, SessionStays, OutcomeStays
  <2> QED
    BY <1>1, <2>1, <2>2
<1>3. Types'
  <2>1. <<>> \in Seq(Nat)
    OBVIOUS
  <2> QED
    BY <1>1, <1>2, <2>1 DEF Types, SessionStays, OutcomeStays
<1>4. Place' /\ Stage' /\ EndsLast'
  BY <1>1, StageStays DEF Place, EndsLast, OutcomeStays
<1>5. OneMessage'
  BY <1>1 DEF OneMessage, Listening
<1> QED
  BY <1>2, <1>3, <1>4, <1>5 DEF Inv

LEMMA SilenceKeeps ==
  ASSUME Inv, HearsNothing, UNCHANGED <<svars, late, alive>>
  PROVE  Inv'
<1>1. /\ Types /\ Place /\ Stage /\ Acks /\ OneMessage /\ EndsLast
      /\ UNCHANGED <<spc, filecounter, soffset, snumber, message, late, alive, rpc, session_done>>
      /\ rpc = "receive" /\ ~Over /\ down' = <<>> /\ up = <<>>
      /\ spc \notin Sending \/ "sender" \notin alive
      /\ aborted' \in BOOLEAN /\ SessionStays
  BY DEF Inv, HearsNothing, svars
<1>2. up' = <<>> \/ up' = <<REQ>>
  <2>1. <<>> \o <<REQ>> = <<REQ>>
    OBVIOUS
  <2> QED
    BY <2>1 DEF HearsNothing
<1>3. /\ <<>> \in Seq(Nat) /\ <<REQ>> \in Seq(Nat) /\ Len(<<REQ>>) = 1 /\ Len(<<>>) = 0
      /\ Head(<<REQ>>) = REQ /\ REQ # ACK
  BY DEF REQ, ACK
<1>4. Types'
  BY <1>1, <1>2, <1>3 DEF Types, SessionStays
<1>5. Place' /\ Stage' /\ EndsLast'
  BY <1>1, StageStays DEF Place, EndsLast
<1>6. Acks'
  BY <1>2, <1>3 DEF Acks, Quiet
<1>7. OneMessage'
  <2>1. Len(up') <= 1
    <3>1. ASSUME NEW said, said = <<>> \/ said = <<REQ>> PROVE Len(said) <= 1
      BY <3>1
    <3> QED
      BY <1>2, <3>1, Zenon
  <2>2. rpc' # "start" /\ down' = <<>> /\ (spc' \notin Sending \/ "sender" \notin alive')
    BY <1>1
  <2> QED
    BY <2>1, <2>2 DEF OneMessage
<1> QED
  BY <1>4, <1>5, <1>6, <1>7 DEF Inv

\* Both directions are emptied as a whole, and an interrupted program listens
\* to nothing.
LEMMA AnswerLess ==
  ASSUME up \in Seq(Nat), NEW i \in DOMAIN up, NEW less, less = Without(up, i),
         \A j \in 2 .. Len(up) : up[j] # ACK
  PROVE  /\ less \in Seq(Nat) /\ Len(less) = Len(up) - 1 /\ Len(up) \in Nat \ {0}
         /\ \A j \in 2 .. Len(less) : less[j] # ACK
         /\ (Head(up) # ACK /\ less # <<>> => Head(less) # ACK)
         /\ (up = <<ACK, REQ>> => Len(less) = 1)
<1> DEFINE n == Len(up)
           a == SubSeq(up, 1, i - 1)
           b == SubSeq(up, i + 1, n)
<1>1. n \in Nat /\ i \in 1 .. n /\ \A j \in 1 .. n : up[j] \in Nat
  BY LenProperties
<1>2. a \in Seq(Nat) /\ Len(a) = i - 1 /\ \A j \in 1 .. i - 1 : a[j] = up[j]
  <2>1. 1 \in Nat /\ i - 1 \in Nat /\ i - 1 <= n
    BY <1>1
  <2> QED
    BY <1>1, <2>1, SubSeqProperties
<1>3. b \in Seq(Nat) /\ Len(b) = n - i /\ \A j \in 1 .. n - i : b[j] = up[i + j]
  <2>1. i + 1 \in Int /\ n \in Int /\ \A j \in i + 1 .. n : j \in 1 .. n
    BY <1>1
  <2>2. n - (i + 1) + 1 = n - i /\ (~(i + 1 <= n) => n - i = 0)
    BY <1>1
  <2>3. \A j \in 1 .. n - i : (i + 1) + j - 1 = i + j
    BY <1>1
  <2>4. \A j \in i + 1 .. n : up[j] \in Nat
    BY <1>1, <2>1
  <2>5. /\ b \in Seq(Nat) /\ Len(b) = IF i + 1 <= n THEN n - (i + 1) + 1 ELSE 0
        /\ \A j \in 1 .. n - (i + 1) + 1 : b[j] = up[(i + 1) + j - 1]
    BY <2>1, <2>4, SubSeqProperties
  <2> HIDE DEF b
  <2> QED
    BY <2>2, <2>3, <2>5
<1>4. less = a \o b
  BY DEF Without
<1> HIDE DEF a, b
<1>5. /\ less \in Seq(Nat) /\ Len(less) = n - 1
      /\ \A j \in 1 .. n - 1 : less[j] = IF j < i THEN up[j] ELSE up[j + 1]
  <2>1. /\ less \in Seq(Nat) /\ Len(less) = Len(a) + Len(b)
        /\ \A j \in 1 .. Len(a) + Len(b) : less[j] = IF j <= Len(a) THEN a[j] ELSE b[j - Len(a)]
    <3>1. a \in Seq(Nat) /\ b \in Seq(Nat)
      BY <1>2, <1>3
    <3> QED
      BY <1>4, <3>1, ConcatProperties
  <2>2. Len(a) + Len(b) = n - 1 /\ Len(a) = i - 1
    BY <1>1, <1>2, <1>3
  <2>3. ASSUME NEW j \in 1 .. n - 1 PROVE less[j] = IF j < i THEN up[j] ELSE up[j + 1]
    <3>1. less[j] = IF j <= i - 1 THEN a[j] ELSE b[j - (i - 1)]
      BY <2>1, <2>2
    <3>2. CASE j < i
      BY <1>1, <1>2, <3>1, <3>2
    <3>3. CASE ~(j < i)
      <4>1. /\ ~(j <= i - 1) /\ j - (i - 1) \in 1 .. n - i /\ i + (j - (i - 1)) = j + 1
        BY <1>1, <3>3
      <4> QED
        BY <1>3, <3>1, <3>3, <4>1
    <3> QED
      BY <3>2, <3>3
  <2> QED
    BY <2>1, <2>2, <2>3
<1>6. ASSUME NEW j \in 2 .. n - 1 PROVE less[j] # ACK
  <2>1. j \in 1 .. n - 1 /\ j \in 2 .. n /\ j + 1 \in 2 .. n
    BY <1>1
  <2> QED
    BY <1>5, <2>1
<1>7. Head(up) # ACK /\ less # <<>> => Head(less) # ACK
  <2> SUFFICES ASSUME Head(up) # ACK, less # <<>> PROVE Head(less) # ACK
    OBVIOUS
  <2>1. Head(less) = less[1] /\ Head(up) = up[1] /\ 1 \in 1 .. n - 1 /\ 2 \in 2 .. n
    BY <1>1, <1>5
  <2> QED
    BY <1>5, <2>1
<1>8. up = <<ACK, REQ>> => n = 2
  OBVIOUS
<1> QED
  BY <1>1, <1>5, <1>6, <1>7, <1>8

LEMMA LosingKeeps ==
  ASSUME Inv, UNCHANGED <<svars, rvars, late>>, alive' \subseteq alive,
         \/ down # <<>> /\ down' = <<>> /\ UNCHANGED up
         \/ up # <<>> /\ up' = <<>> /\ UNCHANGED down
         \/ (\E i \in DOMAIN up : up' = Without(up, i)) /\ UNCHANGED down
         \/ UNCHANGED <<up, down>>
  PROVE  Inv'
<1>1. /\ Types /\ Place /\ Stage /\ Acks /\ OneMessage /\ EndsLast
      /\ UNCHANGED <<spc, filecounter, soffset, snumber, message, late>>
      /\ UNCHANGED <<files, rnumber, roffset, receiving_data, rpc, session_done, aborted>>
      /\ SessionStays /\ OutcomeStays
  BY DEF Inv, svars, rvars, SessionStays, OutcomeStays
<1>2. <<>> \in Seq(Nat) /\ Len(<<>>) = 0
  OBVIOUS
<1>3. /\ up' \in Seq(Nat) /\ Len(up') <= Len(up) /\ (up = <<>> => up' = <<>>)
      /\ (\A j \in 2 .. Len(up') : up'[j] # ACK) /\ (Quiet => Quiet')
      /\ Len(up') <= 1 \/ up' = up \/ ~(Len(up) <= 1 \/ up = <<ACK, REQ>>)
  <2>1. CASE up' = up \/ up' = <<>>
    <3>1. CASE up' = up
      BY <1>1, <3>1 DEF Types, Acks, Quiet
    <3>2. CASE up' = <<>>
      <4>1. Len(up') = 0 /\ Len(up) \in Nat /\ up' \in Seq(Nat)
        BY <1>1, <1>2, <3>2, LenProperties DEF Types
      <4> QED
        BY <3>2, <4>1 DEF Quiet
    <3> QED
      BY <2>1, <3>1, <3>2
  <2>2. CASE \E i \in DOMAIN up : up' = Without(up, i)
    <3>1. PICK i \in DOMAIN up : up' = Without(up, i)
      BY <2>2
    <3>2. /\ up \in Seq(Nat) /\ up # <<>> /\ \A j \in 2 .. Len(up) : up[j] # ACK
      BY <1>1, <3>1 DEF Types, Acks
    <3> DEFINE less == up'
    <3>3. less = Without(up, i)
      BY <3>1
    <3> HIDE DEF less
    <3>4. /\ less \in Seq(Nat) /\ Len(less) = Len(up) - 1 /\ Len(up) \in Nat \ {0}
          /\ \A j \in 2 .. Len(less) : less[j] # ACK
          /\ (Head(up) # ACK /\ less # <<>> => Head(less) # ACK)
          /\ (up = <<ACK, REQ>> => Len(less) = 1)
      BY <3>2, <3>3, AnswerLess
    <3>5. Len(less) <= Len(up) /\ (Len(up) <= 1 => Len(less) <= 1)
      BY <3>4
    <3>6. Quiet => Quiet'
      BY <3>2, <3>4 DEF Quiet, less
    <3> QED
      BY <3>2, <3>4, <3>5, <3>6 DEF less
  <2> QED
    BY <2>1, <2>2
<1>4. down' = down \/ down' = <<>>
  OBVIOUS
<1>5. Types'
  BY <1>1, <1>2, <1>3, <1>4 DEF Types
<1>6. Place' /\ Stage' /\ EndsLast'
  BY <1>1, StageStays DEF Place, EndsLast
<1>7. Acks'
  BY <1>1, <1>2, <1>3 DEF Acks, Quiet, OneAhead, Receiving, Left, Idle, HoldsWhole, CutShort, Over,
     HoldsPrefix
<1>8. OneMessage'
  <2>1. Sent(spc)' = Sent(spc)
    BY <1>1 DEF Sent, Start, Left, Piece, Header
  <2>2. Listening' => Listening
    BY <1>1 DEF Listening, Over
  <2>3. rpc = "start" => up' = <<>> /\ down' = <<>>
    BY <1>1, <1>3, <1>4 DEF OneMessage
  <2> QED
    BY <1>1, <1>2, <1>3, <1>4, <2>1, <2>2, <2>3 DEF OneMessage, Over
<1> QED
  BY <1>5, <1>6, <1>7, <1>8 DEF Inv

-----------------------------------------------------------------------------
(* The invariant. *)

LEMMA Initially ==
  ASSUME Init PROVE Inv
<1>1. /\ spc = "start" /\ filecounter = 1 /\ soffset = 0 /\ snumber = 1 /\ message = "none"
      /\ up = <<>> /\ down = <<>> /\ late = 0
      /\ rpc = "start" /\ files = <<>> /\ rnumber = 0 /\ roffset = 0 /\ receiving_data = FALSE
      /\ session_done = FALSE /\ aborted = FALSE
  BY DEF Init, S!Init, R!Init
<1>2. Types
  <2>1. 1 \in 1 .. Len(Files) /\ 1 \in 0 .. SeqCount - 1 /\ 0 \in 0 .. SeqCount - 1
    BY FileType, Sizes
  <2>2. <<>> \in Seq(Nat)
    OBVIOUS
  <2> QED
    BY <1>1, <2>1, <2>2 DEF Types
<1>3. Place /\ EndsLast
  BY <1>1 DEF Place, EndsLast, InData
<1>4. Idle(0)
  BY <1>1, GotNothing DEF Idle, HoldsWhole
<1>5. Stage
  BY <1>1, <1>4 DEF Stage, InData, InEot, InFinal
<1>6. Acks /\ OneMessage
  BY <1>1 DEF Acks, Quiet, OneMessage, Listening, Over
<1> QED
  BY <1>2, <1>3, <1>5, <1>6 DEF Inv

\* A step keeps the invariant, and says where the two ends of a delivery move.
LEMMA Inductive ==
  ASSUME Inv, WholeMessages, [Next]_vars
  PROVE  /\ Inv' /\ WholeMessages'
         /\ \/ message' = message /\ FilesGrow
            \/ files' = files
<1>1. trouble.late = 0 /\ trouble.kinds \subseteq {"burst", "answer"} /\ Types
  BY DEF WholeMessages, BlocksWhole, Inv
<1>2. CASE SenderStep
  <2>1. SenderAlone /\ trouble' = trouble /\ files' = files
    BY <1>1, <1>2, SenderActs DEF SenderAlone, rvars
  <2>2. SenderBegins \/ HearsReceiver \/ Sends \/ IsAsked \/ IsAcked \/ Retries
    BY <1>1, <1>2, SenderActs
  <2>3. Inv'
    BY <2>1, <2>2, BeginningKeeps, HearingReceiverKeeps, SendingKeeps, AskedKeeps, AckedKeeps,
       RetryingKeeps
  <2> QED
    BY <2>1, <2>3 DEF WholeMessages, BlocksWhole
<1>3. CASE ReceiverStep
  <2>1. UNCHANGED <<svars, trouble, late, alive>>
    BY <1>1, <1>3, ReceiverActs
  <2>2. \/ ReceiverBegins \/ ReceiverFinishes \/ HearsNothing
        \/ Listening /\ down # <<>> /\ R!Hear
    BY <1>1, <1>3, ReceiverActs
  <2>3. UNCHANGED <<svars, late, alive>> /\ trouble' = trouble /\ message' = message
    BY <2>1 DEF svars
  <2>4. Inv'
    BY <2>1, <2>2, <2>3, ListeningKeeps, ReceiverBeginningKeeps, FinishingKeeps, SilenceKeeps
  <2>5. FilesGrow
    BY <2>1, <2>2, ListeningKeeps
       DEF FilesGrow, ReceiverBegins, ReceiverFinishes, HearsNothing, SessionStays
  <2> QED
    BY <2>3, <2>4, <2>5 DEF WholeMessages, BlocksWhole
<1>4. CASE Burst \/ LoseAnswer \/ Discard \/ (\E program \in Programs : Die(program)) \/ UNCHANGED vars
  <2>1. /\ UNCHANGED <<svars, rvars, trouble, late>>
        /\ alive' = alive \/ \E program \in Programs : alive' = alive \ {program}
    BY <1>4 DEF Burst, LoseAnswer, Fault, Discard, Die, vars
  <2>2. \/ down # <<>> /\ down' = <<>> /\ UNCHANGED up
        \/ up # <<>> /\ up' = <<>> /\ UNCHANGED down
        \/ (\E i \in DOMAIN up : up' = Without(up, i)) /\ UNCHANGED down
        \/ UNCHANGED <<up, down>>
    BY <1>4 DEF Burst, LoseAnswer, Discard, Die, vars, line
  <2>3. /\ UNCHANGED <<svars, rvars, late>> /\ alive' \subseteq alive
        /\ trouble' = trouble /\ files' = files
    BY <2>1 DEF rvars
  <2> QED
    BY <2>2, <2>3, LosingKeeps DEF WholeMessages, BlocksWhole
<1>5. CASE Lose \/ Corrupt
  BY <1>1, <1>5 DEF Lose, Corrupt, Fault
<1> QED
  BY <1>2, <1>3, <1>4, <1>5 DEF Next

\* Wherever the loops of the two programs are, the receiver's session is where
\* the sender is in the batch, or one message further, and an ACK on the line
\* answers the message the sender has just sent.
THEOREM InStep ==
  Spec /\ WholeMessages => [](Inv /\ WholeMessages)
<1>1. Init /\ WholeMessages => Inv /\ WholeMessages
  BY Initially
<1>2. Inv /\ WholeMessages /\ [Next]_vars => Inv' /\ WholeMessages'
  BY Inductive
<1> QED
  BY <1>1, <1>2, PTL DEF Spec

-----------------------------------------------------------------------------
(* What the invariant says of the files. *)

\* What is held of a file is the file up to there.
LEMMA EntryIsPart ==
  ASSUME NEW k \in 0 .. Len(Files), NEW n \in Nat, k > 0 => n <= Size(k),
         NEW held, held = Got(k, n), NEW i \in 1 .. k
  PROVE  /\ DOMAIN held = 1 .. k /\ Len(held) = k /\ i \in 1 .. Len(Files)
         /\ held[i].filename = Files[i].filename /\ held[i].filesize = Size(i)
         /\ Len(held[i].data) = IF i < k THEN Size(i) ELSE n
         /\ held[i].data = SubSeq(Files[i].data, 1, Len(held[i].data))
<1> DEFINE m == IF i < k THEN Size(i) ELSE n
<1>1. i \in 1 .. Len(Files) /\ m \in 0 .. Size(i)
  <2>1. Len(Files) \in Nat
    BY FileType
  <2>2. i \in 1 .. Len(Files)
    BY <2>1
  <2> QED
    BY <2>1, <2>2, FileType
<1> HIDE DEF m
<1>2. DOMAIN held = 1 .. k /\ Len(held) = k /\ held[i] = Entry(i, m)
  BY GotType DEF m
<1>3. Len(Entry(i, m).data) = m
  BY <1>1, EntryType
<1>4. held[i].data = SubSeq(Files[i].data, 1, m) /\ Len(held[i].data) = m
  <2>1. Entry(i, m).data = SubSeq(Files[i].data, 1, m)
    BY DEF Entry
  <2> QED
    BY <1>2, <1>3, <2>1
<1> QED
  BY <1>1, <1>2, <1>4 DEF Entry, m

\* Whichever messages are lost and whoever is interrupted, the i-th file the
\* receiver was announced is the i-th file sent, and what it stored are its first bytes.
THEOREM PrefixReceived ==
  Spec /\ WholeMessages => []ReceivedIsPrefix
<1>1. ASSUME Inv PROVE HoldsBeginning
  <2>1. HoldsPrefix
    BY <1>1, StagePrefix DEF Inv
  <2>2. PICK k \in 0 .. Len(Files), n \in Nat : (k > 0 => n <= Size(k)) /\ files = Got(k, n)
    BY <2>1 DEF HoldsPrefix
  <2>3. DOMAIN files = 1 .. k /\ Len(Files) \in Nat
    BY <2>2, GotType, FileType
  <2>4. ASSUME NEW i \in 1 .. k
        PROVE  /\ i <= Len(Files)
               /\ files[i].filename = Files[i].filename
               /\ files[i].filesize = Len(Files[i].data)
               /\ files[i].data = SubSeq(Files[i].data, 1, Len(files[i].data))
    BY <2>2, <2>3, EntryIsPart DEF Size
  <2> QED
    BY <2>3, <2>4 DEF HoldsBeginning
<1>2. Inv => ReceivedIsPrefix
  BY <1>1 DEF ReceivedIsPrefix
<1> QED
  BY <1>2, InStep, PTL

\* A session ends done because the sender has nothing more to send, whichever
\* messages are lost, unless a data block is numbered 0 and begins with a zero
\* byte.
THEOREM EndsAfterSender ==
  Spec /\ WholeMessages => []EndsOnClosingBlock
<1>1. ASSUME Inv, ~LooksLikeEnd PROVE EndedBySender
  <2>1. session_done = TRUE => spc \in InFinal \cup {"closed"} /\ filecounter = Len(Files)
    BY <1>1 DEF Inv, EndsLast
  <2>2. session_done \in BOOLEAN
    BY <1>1 DEF Inv, Types
  <2> QED
    BY <2>1, <2>2 DEF EndedBySender, InFinal
<1>2. Inv => EndsOnClosingBlock
  BY <1>1 DEF EndsOnClosingBlock
<1> QED
  BY <1>2, InStep, PTL

\* While data are sent the receiver holds at least what the sender believes it
\* has: unless a session may be cut short, an ACK is for the block it answers.
THEOREM SenderNeverAhead ==
  Spec /\ WholeMessages => []NeverAhead
<1>1. ASSUME Inv PROVE NeverAhead
  <2> SUFFICES ASSUME spc \in {"data", "dataReply", "eot", "eotReply"}, ~Excuse
               PROVE  Len(files) = filecounter /\ soffset <= Len(files[filecounter].data)
    BY DEF NeverAhead, S!DataLoop
  <2> DEFINE k == filecounter
             n == ChunkOf(Left)
  <2>1. Types /\ Place /\ Stage
    BY <1>1 DEF Inv
  <2>2. k \in 1 .. Len(Files) /\ Len(Files) \in Nat /\ soffset \in Nat /\ Size(k) \in Nat
    BY <2>1, CurrentType
  <2>3. ASSUME NEW m \in Nat, m <= Size(k), soffset <= m, files = Got(k, m)
        PROVE  Len(files) = k /\ soffset <= Len(files[k].data)
    <3>1. k \in 0 .. Len(Files) /\ k \in 1 .. k /\ ~(k < k)
      BY <2>2
    <3> HIDE DEF k
    <3> QED
      BY <2>3, <3>1, EntryIsPart
  <2>4. CASE spc \in InData
    <3>1. Left \in Nat /\ Left = Size(k) - soffset /\ n \in 1 .. Left
      BY <2>1, <2>4, DataFacts
    <3>2. files = Got(k, soffset) \/ files = Got(k, soffset + n)
      BY <1>1, <2>1, <2>4 DEF Stage, Receiving, OneAhead, CutShort
    <3> HIDE DEF k, n
    <3>3. soffset + n \in Nat /\ soffset + n <= Size(k) /\ soffset <= Size(k) /\ soffset <= soffset + n
      BY <2>2, <3>1
    <3> QED
      BY <2>2, <2>3, <3>2, <3>3 DEF k
  <2>5. CASE spc \in InEot
    <3>1. soffset = Size(k) /\ files = Got(k, Size(k))
      BY <1>1, <2>1, <2>5 DEF Stage, InEot, Receiving, Idle, HoldsWhole, CutShort
    <3> QED
      BY <2>2, <2>3, <3>1
  <2> QED
    BY <2>4, <2>5 DEF InData, InEot
<1> QED
  BY <1>1, InStep, PTL

-----------------------------------------------------------------------------
(* The refinement: files received and the sender's last word are a delivery. *)

\* A session as BatchDelivery sees it.
Seen(held) ==
  [i \in DOMAIN held |-> [filename |-> held[i].filename, data |-> held[i].data]]
Arrived == [filename : Nat, data : Seq(Nat)]

LEMMA SeenEntry ==
  ASSUME NEW k \in 0 .. Len(Files), NEW n \in Nat, k > 0 => n <= Size(k),
         NEW held, held = Got(k, n), NEW i \in 1 .. k
  PROVE  /\ Seen(held)[i] = [filename |-> Files[i].filename, data |-> held[i].data]
         /\ Seen(held)[i] \in Arrived
         /\ i < k \/ n = Size(k) => Seen(held)[i] = Files[i]
         /\ i = k => Len(held[i].data) = n /\ held[i].data = SubSeq(Files[i].data, 1, n)
<1> DEFINE s == Files[i].data
           d == held[i].data
<1>1. /\ i \in 1 .. Len(Files) /\ held[i].filename = Files[i].filename /\ DOMAIN held = 1 .. k
      /\ Len(d) = (IF i < k THEN Size(i) ELSE n) /\ d = SubSeq(s, 1, Len(d))
  BY EntryIsPart
<1>2. /\ Files[i] = [filename |-> Files[i].filename, data |-> s]
      /\ Files[i].filename \in Nat /\ s \in Seq(Nat) /\ Size(i) = Len(s)
  BY <1>1, FileType DEF Size
<1>3. d \in Seq(Nat)
  <2>1. held \in Seq(Held) /\ Len(held) = k
    BY GotType
  <2>2. held[i] \in Held
    BY <2>1, ElementOfSeq
  <2> QED
    BY <2>2 DEF Held
<1>4. Len(d) = Size(i) => d = s
  BY <1>1, <1>2, SubSeqFull
<1>5. /\ i < k => Len(d) = Size(i)
      /\ i = k => Len(d) = n /\ ~(i < k)
      /\ i < k \/ i = k
  <2>1. i \in 1 .. k /\ k \in Nat
    BY FileType
  <2> QED
    BY <1>1, <2>1
<1> HIDE DEF s, d
<1>6. Seen(held)[i] = [filename |-> Files[i].filename, data |-> d]
  BY <1>1 DEF Seen, d
<1>7. Seen(held)[i] \in Arrived
  BY <1>2, <1>3, <1>6 DEF Arrived
<1>8. i < k \/ n = Size(k) => Seen(held)[i] = Files[i]
  BY <1>2, <1>4, <1>5, <1>6
<1>9. i = k => Len(d) = n /\ d = SubSeq(s, 1, n)
  BY <1>1, <1>5
<1> QED
  BY <1>6, <1>7, <1>8, <1>9 DEF d, s

LEMMA SeenType ==
  ASSUME NEW k \in 0 .. Len(Files), NEW n \in Nat, k > 0 => n <= Size(k),
         NEW held, held = Got(k, n)
  PROVE  Seen(held) \in Seq(Arrived) /\ Len(Seen(held)) = k /\ DOMAIN Seen(held) = 1 .. k
<1>1. k \in Nat /\ DOMAIN held = 1 .. k
  BY GotType, FileType
<1>2. ASSUME NEW i \in 1 .. k PROVE Seen(held)[i] \in Arrived
  BY SeenEntry
<1>3. DOMAIN Seen(held) = 1 .. k
  BY <1>1 DEF Seen
<1>4. Seen(held) \in Seq(Arrived)
  <2>1. Seen(held) = [i \in 1 .. k |-> Seen(held)[i]]
    BY <1>1 DEF Seen
  <2>2. Seen(held) \in [1 .. k -> Arrived]
    BY <1>2, <2>1
  <2> QED
    BY <1>1, <2>2, SeqDef
<1>5. Len(Seen(held)) = k
  BY <1>1, <1>3, <1>4, LenProperties
<1> QED
  BY <1>3, <1>4, <1>5

LEMMA SeenWhole ==
  ASSUME NEW k \in 0 .. Len(Files), NEW held, held = Got(k, Size(k))
  PROVE  /\ Seen(held) \in Seq(Arrived) /\ Len(Seen(held)) = k /\ DOMAIN Seen(held) = 1 .. k
         /\ \A i \in 1 .. k : Seen(held)[i] = Files[i]
<1>1. CASE k = 0
  <2>1. held = Got(0, 0) /\ 0 \in Nat
    BY <1>1, GotNothing
  <2> QED
    BY <1>1, <2>1, SeenType
<1>2. CASE k # 0
  <2> DEFINE n == Size(k)
  <2>1. /\ k \in 1 .. Len(Files) /\ n \in Nat /\ n <= Size(k) /\ held = Got(k, n)
        /\ k \in Nat /\ Len(Files) \in Nat
    BY <1>2, FileType
  <2> HIDE DEF n
  <2>2. ASSUME NEW i \in 1 .. k PROVE Seen(held)[i] = Files[i]
    BY <2>1, SeenEntry DEF n
  <2> QED
    BY <2>1, <2>2, SeenType
<1> QED
  BY <1>1, <1>2

LEMMA Announces ==
  ASSUME NEW k \in 1 .. Len(Files), files = Got(k - 1, Size(k - 1)), files' = Got(k, 0),
         message' = message
  PROVE  Delivery!Announce
<1> DEFINE j == k - 1
           old == Seen(files)
           new == Seen(files')
           next == [Files[k] EXCEPT !.data = <<>>]
<1>1. /\ j \in 0 .. Len(Files) /\ j \in Nat /\ j + 1 = k /\ j < Len(Files) /\ 0 \in Nat
      /\ k \in 0 .. Len(Files) /\ 0 <= Size(k) /\ k \in Nat
  BY FileType
<1>2. /\ old \in Seq(Arrived) /\ Len(old) = j /\ (\A i \in 1 .. j : old[i] = Files[i])
  BY <1>1, SeenWhole
<1> HIDE DEF j
<1>3. /\ new \in Seq(Arrived) /\ Len(new) = k
      /\ \A i \in 1 .. k :
           /\ new[i] = [filename |-> Files[i].filename, data |-> (files')[i].data]
           /\ i < k => new[i] = Files[i]
           /\ i = k => (files')[i].data = SubSeq(Files[i].data, 1, 0)
  BY <1>1, SeenType, SeenEntry
<1>4. next = [filename |-> Files[k].filename, data |-> <<>>] /\ next \in Arrived
  <2> DEFINE r == [filename |-> Files[k].filename, data |-> Files[k].data]
  <2>1. Files[k] = r /\ Files[k].filename \in Nat
    BY FileType
  <2>2. [r EXCEPT !.data = <<>>] = [filename |-> Files[k].filename, data |-> <<>>]
    OBVIOUS
  <2>3. next = [filename |-> Files[k].filename, data |-> <<>>]
    BY <2>1, <2>2, Zenon
  <2> HIDE DEF next
  <2>4. <<>> \in Seq(Nat)
    OBVIOUS
  <2> QED
    BY <2>1, <2>3, <2>4 DEF Arrived
<1>5. new[k] = next
  <2>1. k \in 1 .. k /\ ~(k < k)
    BY <1>1
  <2>2. (files')[k].data = SubSeq(Files[k].data, 1, 0)
    BY <1>3, <2>1
  <2>3. SubSeq(Files[k].data, 1, 0) = <<>>
    BY SubSeqEmpty
  <2> QED
    BY <1>3, <1>4, <2>1, <2>2, <2>3
<1> HIDE DEF old, new, next
<1>6. new = Append(old, next)
  <2> DEFINE longer == Append(old, next)
  <2>1. /\ longer \in Seq(Arrived) /\ Len(longer) = j + 1
        /\ (\A i \in 1 .. j : longer[i] = old[i]) /\ longer[j + 1] = next
    BY <1>2, <1>4, AppendProperties
  <2> HIDE DEF longer
  <2>2. ASSUME NEW i \in 1 .. k PROVE new[i] = longer[i]
    <3>1. CASE i = k
      BY <1>1, <1>5, <2>1, <3>1
    <3>2. CASE i # k
      <4>1. i \in 1 .. j /\ i < k
        BY <1>1, <3>2
      <4> QED
        BY <1>2, <1>3, <2>1, <4>1
    <3> QED
      BY <3>1, <3>2
  <2>3. Len(new) = Len(longer) /\ \A i \in 1 .. Len(new) : new[i] = longer[i]
    BY <1>1, <1>3, <2>1, <2>2
  <2>4. new = longer
    BY <1>3, <2>1, <2>3, SeqEqual
  <2> QED
    BY <2>4 DEF longer
<1>7. j > 0 => old[j] = Files[j]
  BY <1>1, <1>2
<1>8. /\ j < Len(Files) /\ Len(old) = j /\ (j > 0 => old[j] = Files[j])
      /\ new = Append(old, [Files[j + 1] EXCEPT !.data = <<>>])
  BY <1>1, <1>2, <1>6, <1>7 DEF next
<1>9. /\ [i \in DOMAIN files |-> Stored(i)] = old
      /\ [i \in DOMAIN files |-> Stored(i)]' = new
  BY DEF old, new, Seen, Stored
<1> QED
  BY <1>8, <1>9 DEF Delivery!Announce, Delivery!Arriving, Delivery!Whole

LEMMA Extends ==
  ASSUME NEW k \in 1 .. Len(Files), NEW n \in Nat, NEW d \in Nat \ {0}, n + d <= Size(k),
         files = Got(k, n), files' = Got(k, n + d), message' = message
  PROVE  Delivery!Extend
<1> DEFINE old == Seen(files)
           new == Seen(files')
           part == SubSeq(Files[k].data, 1, n + d)
           more == [old EXCEPT ![k].data = part]
<1>1. /\ k \in 0 .. Len(Files) /\ k \in Nat /\ k \in 1 .. k /\ ~(k < k) /\ Size(k) \in Nat
      /\ n + d \in Nat /\ n <= Size(k) /\ Size(k) = Len(Files[k].data)
  BY FileType DEF Size
<1>2. /\ Len(old) = k /\ DOMAIN old = 1 .. k /\ old \in Seq(Arrived)
      /\ \A i \in 1 .. k :
           /\ old[i] = [filename |-> Files[i].filename, data |-> files[i].data]
           /\ i < k => old[i] = Files[i]
           /\ i = k => Len(files[i].data) = n
  BY <1>1, SeenType, SeenEntry
<1>3. /\ Len(new) = k /\ DOMAIN new = 1 .. k /\ new \in Seq(Arrived)
      /\ \A i \in 1 .. k :
           /\ new[i] = [filename |-> Files[i].filename, data |-> (files')[i].data]
           /\ i < k => new[i] = Files[i]
           /\ i = k => (files')[i].data = part
  <2> DEFINE m == n + d
  <2>1. files' = Got(k, m) /\ m \in Nat /\ m <= Size(k)
    BY <1>1
  <2> HIDE DEF m
  <2>2. /\ Len(new) = k /\ DOMAIN new = 1 .. k /\ new \in Seq(Arrived)
        /\ \A i \in 1 .. k :
             /\ new[i] = [filename |-> Files[i].filename, data |-> (files')[i].data]
             /\ i < k => new[i] = Files[i]
             /\ i = k => (files')[i].data = SubSeq(Files[i].data, 1, m)
    BY <1>1, <2>1, SeenType, SeenEntry
  <2> QED
    BY <2>2 DEF m
<1>4. /\ [i \in DOMAIN files |-> Stored(i)] = old
      /\ [i \in DOMAIN files |-> Stored(i)]' = new
  BY DEF old, new, Seen, Stored
<1> HIDE DEF old, new, part
<1>5. new[k] = [old[k] EXCEPT !.data = part]
  <2>1. /\ old[k] = [filename |-> Files[k].filename, data |-> files[k].data]
        /\ new[k] = [filename |-> Files[k].filename, data |-> part]
    BY <1>1, <1>2, <1>3
  <2> DEFINE r == [filename |-> Files[k].filename, data |-> files[k].data]
  <2>2. [r EXCEPT !.data = part] = [filename |-> Files[k].filename, data |-> part]
    OBVIOUS
  <2> QED
    BY <2>1, <2>2, Zenon
<1>6. new = more
  <2>1. more = [i \in 1 .. k |-> IF i = k THEN [old[k] EXCEPT !.data = part] ELSE old[i]]
    BY <1>2
  <2>2. new = [i \in 1 .. k |-> new[i]]
    BY <1>3
  <2>3. \A i \in 1 .. k : new[i] = IF i = k THEN [old[k] EXCEPT !.data = part] ELSE old[i]
    <3>1. \A i \in 1 .. k : i = k \/ i < k
      BY <1>1
    <3> QED
      BY <1>2, <1>3, <1>5, <3>1
  <2> HIDE DEF more
  <2> QED
    BY <2>1, <2>2, <2>3, Zenon
<1>7. Len(old[k].data) = n
  BY <1>1, <1>2
<1>8. /\ Len(old) > 0 /\ n + d \in Len(old[k].data) + 1 .. Len(Files[k].data)
      /\ new = [old EXCEPT ![Len(old)].data = SubSeq(Files[k].data, 1, n + d)]
      /\ Len(old) = k
  <2>1. n + d \in n + 1 .. Size(k) /\ k > 0
    BY <1>1
  <2> QED
    BY <1>1, <1>2, <1>6, <1>7, <2>1 DEF part
<1> QED
  BY <1>4, <1>8 DEF Delivery!Extend, Delivery!Arriving

LEMMA Claims ==
  ASSUME message = "none", message' \in {"Done", "MaxRetries", "ReceiverAborts"}, files' = files,
         message' = "Done" => files = Got(Len(Files), Size(Len(Files)))
  PROVE  Delivery!Claim
<1> DEFINE old == Seen(files)
<1>1. /\ [i \in DOMAIN files |-> Stored(i)] = old
      /\ [i \in DOMAIN files |-> Stored(i)]' = old
  BY DEF old, Seen, Stored
<1>2. message' = "Done" => Len(old) = Len(Files) /\ \A i \in DOMAIN Files : old[i] = Files[i]
  <2>1. Len(Files) \in 0 .. Len(Files) /\ DOMAIN Files = 1 .. Len(Files)
    BY FileType
  <2> QED
    BY <2>1, SeenWhole
<1> HIDE DEF old
<1> QED
  BY <1>1, <1>2 DEF Delivery!Claim, Delivery!Arriving, Delivery!Whole

\* Under any loss of whole messages and with either program interrupted at any
\* moment, what the receiver holds and what the sender says is a delivery of the
\* batch: no file is skipped, repeated, reordered or mixed with another, none
\* begins before the one before it is whole, and Done is said of all of them.
THEOREM DeliveryImplemented ==
  Spec /\ WholeMessages => ImplementsDelivery
<1>1. ASSUME Init PROVE Delivery!Init
  BY <1>1 DEF Init, S!Init, R!Init, Delivery!Init
<1>2. ASSUME Inv, WholeMessages, [Next]_vars, Inv', (WholeMessages)'
      PROVE  [Delivery!Next]_(Delivery!vars)
  <2>1. \/ message' = message /\ FilesGrow
        \/ files' = files
    BY <1>2, Inductive
  <2>2. CASE message' = message /\ files' = files
    BY <2>2 DEF Delivery!vars, Stored
  <2>3. CASE message' = message /\ FilesGrow
    BY <2>2, <2>3, Announces, Extends DEF FilesGrow, Delivery!Next
  <2>4. CASE files' = files /\ message' # message
    <3>1. Types /\ Types' /\ Stage'
      BY <1>2 DEF Inv
    <3>2. message = "none" /\ spc' = "closed"
      <4>1. ASSUME spc = "closed" PROVE message' = message
        <5>1. CASE SenderStep
          <6>1. SenderBegins \/ HearsReceiver \/ Sends \/ IsAsked \/ IsAcked \/ Retries
            BY <1>2, <3>1, <5>1, SenderActs DEF WholeMessages
          <6> QED
            BY <4>1, <6>1 DEF SenderBegins, HearsReceiver, Sends, IsAsked, IsAcked, Retries,
               Waiting, Replying
        <5>2. CASE ~SenderStep
          BY <1>2, <5>2 DEF Next, ReceiverStep, Burst, LoseAnswer, Lose, Corrupt, Fault, Discard, Die, vars, svars
        <5> QED
          BY <5>1, <5>2
      <4> QED
        BY <2>4, <3>1, <4>1 DEF Types
    <3>3. message' \in {"Done", "MaxRetries", "ReceiverAborts"}
      BY <2>4, <3>1, <3>2 DEF Types
    <3>4. message' = "Done" => files' = Got(Len(Files), Size(Len(Files)))
      BY <3>1, <3>2 DEF Stage, HoldsWhole
    <3> QED
      BY <2>4, <3>2, <3>3, <3>4, Claims DEF Delivery!Next
  <2> QED
    BY <2>1, <2>2, <2>3, <2>4
<1> QED
  BY <1>1, <1>2, InStep, PTL DEF Spec, ImplementsDelivery, Delivery!Spec

-----------------------------------------------------------------------------
(* What is on disk in the end. *)

\* Everything on disk is a file of the batch as it was sent, or a beginning of it
\* where a write failed.
DiskAsSent ==
  \A name \in DOMAIN disk : \E i \in DOMAIN Files :
    /\ Files[i].filename = name
    /\ \E n \in 0 .. Size(i) : disk[name] = SubSeq(Files[i].data, 1, n)
    /\ ~HostFails => disk[name] = Files[i].data

\* What the session holds under an index, said with the batch.
LEMMA HeldFile ==
  ASSUME Inv, NEW i \in DOMAIN files
  PROVE  /\ i \in DOMAIN Files /\ i \in 1 .. Len(files)
         /\ files[i].filename = Files[i].filename /\ files[i].filesize = Size(i)
         /\ i < Len(files) => Len(files[i].data) = Size(i)
         /\ Len(files[i].data) = Size(i) => files[i].data = Files[i].data
         /\ Len(files) = 0 \/ Len(files) \in 1 .. Len(Files)
<1>1. HoldsPrefix
  BY StagePrefix DEF Inv
<1>2. PICK k \in 0 .. Len(Files), n \in Nat : (k > 0 => n <= Size(k)) /\ files = Got(k, n)
  BY <1>1 DEF HoldsPrefix
<1>3. DOMAIN files = 1 .. k /\ Len(files) = k /\ DOMAIN Files = 1 .. Len(Files) /\ Len(Files) \in Nat
  BY <1>2, GotType, FileType
<1>4. /\ i \in 1 .. Len(Files)
      /\ files[i].filename = Files[i].filename /\ files[i].filesize = Size(i)
      /\ Len(files[i].data) = IF i < k THEN Size(i) ELSE n
      /\ files[i].data = SubSeq(Files[i].data, 1, Len(files[i].data))
  BY <1>2, <1>3, EntryIsPart
<1>5. SubSeq(Files[i].data, 1, Size(i)) = Files[i].data
  BY <1>4, FileType, SubSeqFull DEF Size
<1>6. k = 0 \/ k \in 1 .. Len(Files)
  BY <1>3
<1>7. i < k => Len(files[i].data) = Size(i)
  BY <1>4
<1> QED
  BY <1>3, <1>4, <1>5, <1>6, <1>7

\* A file of the session that arrived whole is that of the batch, and so are the
\* bytes at its beginning.
LEMMA BeginningAsSent ==
  ASSUME NEW f \in RP!File, NEW data \in Seq(Nat), f.data = data, f.filesize = Len(data),
         NEW n \in 0 .. Len(data)
  PROVE  RP!Beginning(f, n) = SubSeq(data, 1, n)
<1> DEFINE part == SubSeq(data, 1, n)
           start == RP!Beginning(f, n)
<1>1. Len(data) \in Nat /\ n \in Nat /\ n <= Len(data) /\ RP!Received(f) = Len(data)
  BY LenProperties DEF RP!Received
<1>2. part \in Seq(Nat) /\ Len(part) = n /\ \A i \in 1 .. n : part[i] = data[i]
  BY <1>1, SubSeqProperties
<1>3. start = [i \in 1 .. n |-> IF i <= RP!Received(f) THEN f.data[i] ELSE Uninit]
  BY DEF RP!Beginning
<1>4. ASSUME NEW i \in 1 .. n PROVE start[i] = data[i]
  BY <1>1, <1>3
<1>5. part = [i \in 1 .. n |-> part[i]]
  BY <1>2, LenProperties
<1> HIDE DEF part, start
<1>6. start = [i \in 1 .. n |-> start[i]]
  BY <1>3
<1>7. \A i \in 1 .. n : part[i] = start[i]
  BY <1>2, <1>4
<1>8. part = start
  BY <1>5, <1>6, <1>7, Zenon
<1> QED
  BY <1>8 DEF part, start

\* Only the last file of the session may be short, and writeFiles drops that.
LEMMA WrittenAsSent ==
  ASSUME Inv, Always PROVE DiskAsSent
<1> SUFFICES ASSUME NEW name \in DOMAIN disk
             PROVE  \E i \in DOMAIN Files :
                      /\ Files[i].filename = name
                      /\ \E n \in 0 .. Size(i) : disk[name] = SubSeq(Files[i].data, 1, n)
                      /\ ~HostFails => disk[name] = Files[i].data
  BY DEF DiskAsSent
<1>1. rpc = "closed"
  BY DEF Always, OfReceiver, RP!OnDisk, RP!NothingYet
<1>2. PICK i \in DOMAIN files :
        /\ files[i].filename = name
        /\ \E n \in 0 .. files[i].filesize : disk[name] = RP!Beginning(files[i], n)
        /\ ~HostFails => disk[name] = RP!Buffer(files[i])
        /\ i = Len(files) => RP!Received(files[i]) = files[i].filesize
  BY <1>1 DEF Always, OfReceiver, RP!OnDisk, RP!DiskFromSession
<1>3. /\ i \in DOMAIN Files /\ i \in 1 .. Len(files)
      /\ files[i].filename = Files[i].filename /\ files[i].filesize = Size(i)
      /\ i < Len(files) => Len(files[i].data) = Size(i)
      /\ Len(files[i].data) = Size(i) => files[i].data = Files[i].data
      /\ Len(files) = 0 \/ Len(files) \in 1 .. Len(Files)
  BY HeldFile
<1>4. i < Len(files) \/ i = Len(files)
  <2>1. Len(files) \in Nat
    BY <1>3, FileType
  <2> QED
    BY <1>3, <2>1
<1>5. RP!Received(files[i]) = files[i].filesize /\ files[i].data = Files[i].data
  BY <1>2, <1>3, <1>4 DEF RP!Received
<1>6. files[i] \in RP!File
  BY LenProperties, ElementOfSeq DEF Always, OfReceiver, RP!Inv, RP!TypeOK
<1>7. RP!Buffer(files[i]) = files[i].data
  BY <1>5, <1>6, RP!WholeBuffer, WireFits, ReceiverFits
<1>8. \E n \in 0 .. Size(i) : disk[name] = SubSeq(Files[i].data, 1, n)
  <2>1. PICK n \in 0 .. Size(i) : disk[name] = RP!Beginning(files[i], n)
    BY <1>2, <1>3
  <2>2. Files[i].data \in Seq(Nat) /\ Size(i) = Len(Files[i].data)
    BY <1>3, FileType DEF Size
  <2>3. RP!Beginning(files[i], n) = SubSeq(Files[i].data, 1, n)
    BY <1>3, <1>5, <1>6, <2>1, <2>2, BeginningAsSent
  <2> QED
    BY <2>1, <2>3
<1> QED
  BY <1>2, <1>3, <1>5, <1>7, <1>8

\* However the transfer ended, with messages lost, a program interrupted, the
\* session full, or memory, the directory and the disk failing, what is on disk
\* under a name are the first bytes of a file of the batch of that name, and all
\* of them where the host does not fail.
THEOREM DiskHoldsBatch == Spec /\ WholeMessages => []DiskAsSent
  BY WrittenAsSent, InStep, AlwaysHolds, PTL

\* So no byte nobody received is on disk, Uninit being no byte.
THEOREM NoGapsOnDisk ==
  ASSUME Uninit \notin Nat
  PROVE  Spec /\ WholeMessages => []DiskHasNoGaps
<1>1. ASSUME DiskAsSent PROVE DiskHasNoGaps
  <2> SUFFICES ASSUME NEW name \in DOMAIN disk, NEW j \in DOMAIN disk[name]
               PROVE  disk[name][j] # Uninit
    BY DEF DiskHasNoGaps
  <2>1. PICK i \in DOMAIN Files : \E n \in 0 .. Size(i) : disk[name] = SubSeq(Files[i].data, 1, n)
    BY <1>1 DEF DiskAsSent
  <2>2. PICK n \in 0 .. Size(i) : disk[name] = SubSeq(Files[i].data, 1, n)
    BY <2>1
  <2>3. Files[i].data \in Seq(Nat) /\ Size(i) = Len(Files[i].data) /\ Size(i) \in Nat
    BY FileType, LenProperties DEF Size
  <2>4. disk[name] \in Seq(Nat)
    BY <2>2, <2>3, SubSeqProperties
  <2>5. disk[name][j] \in Nat
    BY <2>4, LenProperties, ElementOfSeq
  <2> QED
    BY <2>5
<1> QED
  BY <1>1, DiskHoldsBatch, PTL

\* What Done promises the user, once the receiver has closed its session: every
\* file of the batch is on the disk as it was sent, where files can be written
\* and no two have one name.
DoneAndClosed == message = "Done" /\ rpc = "closed" => AllWritten

THEOREM DoneReachesDisk ==
  ASSUME HostFails = FALSE,
         \A i, j \in DOMAIN Files : Files[i].filename = Files[j].filename => i = j
  PROVE  Spec /\ WholeMessages => []DoneAndClosed
<1>1. ASSUME Inv, Always, message = "Done", rpc = "closed", NEW i \in DOMAIN Files
      PROVE  Written(i)
  <2>1. spc = "closed" /\ HoldsWhole(Len(Files))
    BY <1>1 DEF Inv, Types, Stage
  <2>2. DOMAIN files = DOMAIN Files /\ Len(files[i].data) = Size(i)
    <3> DEFINE k == Len(Files)
    <3>1. /\ k \in 0 .. Len(Files) /\ DOMAIN Files = 1 .. k /\ i \in 1 .. k
          /\ Size(k) \in Nat /\ Size(k) <= Size(k)
      BY FileType
    <3>2. files = Got(k, Size(k))
      BY <2>1 DEF HoldsWhole
    <3> HIDE DEF k
    <3>3. DOMAIN files = 1 .. k /\ Len(files[i].data) = IF i < k THEN Size(i) ELSE Size(k)
      BY <3>1, <3>2, EntryIsPart
    <3>4. i < k \/ i = k
      BY <3>1
    <3> QED
      BY <3>1, <3>3, <3>4
  <2>3. /\ files[i].filename = Files[i].filename /\ files[i].filesize = Size(i)
        /\ files[i].data = Files[i].data /\ RP!Received(files[i]) = files[i].filesize
    BY <1>1, <2>2, HeldFile DEF RP!Received
  <2>4. \A j \in DOMAIN RP!ToWrite : j > i => files[j].filename # files[i].filename
    <3>1. \A j \in DOMAIN RP!ToWrite : j \in DOMAIN files
      BY <1>1, RP!ToWriteFacts, WireFits, ReceiverFits DEF Always, OfReceiver
    <3>2. ASSUME NEW j \in DOMAIN files, files[j].filename = files[i].filename PROVE i = j
      BY <1>1, <2>2, <2>3, <3>2, HeldFile
    <3>3. i \in Nat
      BY FileType
    <3> QED
      BY <3>1, <3>2, <3>3
  <2>5. files[i].filename \in DOMAIN disk /\ disk[files[i].filename] = files[i].data
    <3>1. RP!WholeFilesWritten
      BY <1>1 DEF Always, OfReceiver, RP!OnDisk
    <3> HIDE DEF RP!ToWrite, RP!Received
    <3> QED
      BY <1>1, <2>2, <2>3, <2>4, <3>1 DEF RP!WholeFilesWritten
  <2> QED
    BY <2>3, <2>5 DEF Written
<1>2. ASSUME Inv, Always PROVE DoneAndClosed
  BY <1>1, <1>2 DEF DoneAndClosed, AllWritten
<1> QED
  BY <1>2, InStep, AlwaysHolds, PTL
==============================================================================
