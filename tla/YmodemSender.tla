----------------------------- MODULE YmodemSender -----------------------------
(***************************************************************************)
(* The sending half of the PC program: ymodem_send_cpp, from the moment    *)
(* the session holds the files it will send.                               *)
(*                                                                         *)
(* pc says which loop of the function is running; every retry loop sends   *)
(* (or not) and then reads one byte or times out.  A step that reads is    *)
(* enabled with bytes on the line or without: an empty line is the timeout *)
(* of serialRx_byte_t, and whoever composes this module says when that may *)
(* happen.                                                                 *)
(***************************************************************************)
EXTENDS YmodemWire

CONSTANTS
  MaxRetry,  \* YMODEM_MAX_RETRY
  Files,     \* the session: a nonempty sequence of [filename, data]
  Answers,   \* bytes the line may deliver to a sender on its own
  MaxQueue   \* bound on the unread bytes the line holds for it

ASSUME SenderAssumption ==
  /\ MaxRetry \in Nat \ {0} /\ MaxQueue \in Nat
  /\ Answers \subseteq Nat
  /\ Files \in Seq([filename : Nat \ {0}, data : Seq(Nat)]) /\ Files # <<>>

ASSUME TrailerAssumption ==
  Trailer(SOH, EmptyBlock0) \in Nat /\ \A i \in DOMAIN Files : Sendable(Files[i])

VARIABLES
  pc,
  filecounter,   \* index of the file being sent, from 1
  offset,        \* bytes of it the receiver has acknowledged
  blocknumber,   \* number of the next data block, a uint8_t
  retry,
  message,       \* which text session.close printed, "none" before
  rx, tx

vars == <<pc, filecounter, offset, blocknumber, retry, message, rx, tx>>

NoByte == -1   \* serialRx_byte_t returned false

\* The loops that wait for a 'C', those that await the answer to a block.
AwaitingRequest == {"waitC", "waitDataC", "waitFinalC"}
AwaitingAnswer  == {"headerReply", "dataReply", "eotReply", "finalReply"}
Awaiting == AwaitingRequest \cup AwaitingAnswer

Init ==
  /\ pc = "start"
  /\ filecounter = 1 /\ offset = 0 /\ blocknumber = 1 /\ retry = 0
  /\ message = "none"
  /\ rx = <<>> /\ tx = <<>>

File == Files[filecounter]
filesize == Len(File.data)
Remaining == filesize - offset

\* mutant: nobody looks whether a byte came, and the last one was an ACK
AnswerUnchecked == IF rx = <<>> THEN ACK ELSE Head(rx)

\* serialRx_byte_t: the next byte, or none.
Answer == IF rx = <<>> THEN NoByte ELSE Head(rx)
TakeAnswer == rx' = IF rx = <<>> THEN <<>> ELSE Tail(rx)

Enter(loop) == pc' = loop /\ retry' = 0

Close(text) == pc' = "closed" /\ message' = text

\* mutant: only a timeout counts as a retry, a wrong answer does not
TryAgainOnTimeout(loop, text) ==
  /\ retry' = IF Answer = NoByte THEN retry + 1 ELSE retry
  /\ IF retry' >= MaxRetry
     THEN Close(text)
     ELSE pc' = loop /\ UNCHANGED message

\* One more turn of a retry loop, or out of it with the given message.
TryAgain(loop, text) ==
  /\ retry' = retry + 1
  /\ IF retry + 1 >= MaxRetry
     THEN Close(text)
     ELSE pc' = loop /\ UNCHANGED message

Write(bytes) == tx' = tx \o bytes

-----------------------------------------------------------------------------
(* uart_flush: what the receiver asked before is forgotten. *)
Start ==
  /\ pc = "start"
  /\ pc' = "waitReceiver"
  /\ rx' = <<>>
  /\ UNCHANGED <<filecounter, offset, blocknumber, retry, message, tx>>

\* Waits for a 'C' without end, throwing away everything else.
WaitReceiver ==
  /\ pc = "waitReceiver"
  /\ rx # <<>>
  /\ rx' = Tail(rx)
  /\ IF Head(rx) = REQ THEN Enter("header") ELSE UNCHANGED <<pc, retry>>
  /\ UNCHANGED <<filecounter, offset, blocknumber, message, tx>>

\* mutant: what is left after the last whole block is forgotten
NextDataWhole(left) == IF left >= Block128 THEN "data" ELSE "eot"

\* Where the data of a file go on: the next block, or EOT after the last.
NextData(left) == IF left > 0 THEN "data" ELSE "eot"

WaitRequest ==
  /\ pc \in AwaitingRequest
  /\ TakeAnswer
  /\ IF Answer = REQ
     THEN /\ \/ pc = "waitC" /\ Enter("header") /\ UNCHANGED <<offset, blocknumber>>
             \/ pc = "waitFinalC" /\ Enter("final") /\ UNCHANGED <<offset, blocknumber>>
             \/ /\ pc = "waitDataC" /\ Enter(NextData(filesize))
                /\ offset' = 0 /\ blocknumber' = 1
          /\ UNCHANGED message
     ELSE TryAgain(pc, "MaxRetries") /\ UNCHANGED <<offset, blocknumber>>
  /\ UNCHANGED <<filecounter, tx>>

SendHeader ==
  /\ pc = "header"
  /\ pc' = "headerReply"
  /\ Write(SendBlock(SOH, 0, Block0(File.filename, filesize)))
  /\ UNCHANGED <<filecounter, offset, blocknumber, retry, message, rx>>

HeaderReply ==
  /\ pc = "headerReply"
  /\ TakeAnswer
  /\ CASE Answer = ACK -> Enter("waitDataC") /\ UNCHANGED message
       [] Answer = CAN -> Close("ReceiverAborts") /\ UNCHANGED retry
       [] OTHER        -> TryAgain("header", "MaxRetries")
  /\ UNCHANGED <<filecounter, offset, blocknumber, tx>>

\* As many STX blocks as fit, then SOH blocks, the last one padded.
ChunkStartLate == IF Remaining > Block1K THEN STX ELSE SOH   \* mutant: off by one
ChunkStart == IF Remaining >= Block1K THEN STX ELSE SOH
Chunk == Min2(Remaining, PayloadSize(ChunkStart))

SendData ==
  /\ pc = "data"
  /\ pc' = "dataReply"
  /\ Write(SendBlock(ChunkStart, blocknumber, SubSeq(File.data, offset + 1, offset + Chunk)))
  /\ UNCHANGED <<filecounter, offset, blocknumber, retry, message, rx>>

DataReply ==
  /\ pc = "dataReply"
  /\ TakeAnswer
  /\ \/ /\ Answer = ACK
        /\ offset' = offset + Chunk
        /\ blocknumber' = NextNumber(blocknumber)
        /\ Enter(NextData(Remaining - Chunk))
        /\ UNCHANGED message
     \/ /\ Answer = CAN
        /\ Close("ReceiverAborts")
        /\ UNCHANGED <<offset, blocknumber, retry>>
     \/ /\ Answer \notin {ACK, CAN}
        /\ TryAgain("data", "MaxRetries")
        /\ UNCHANGED <<offset, blocknumber>>
  /\ UNCHANGED <<filecounter, tx>>

SendEot ==
  /\ pc = "eot"
  /\ pc' = "eotReply"
  /\ Write(<<EOT>>)
  /\ UNCHANGED <<filecounter, offset, blocknumber, retry, message, rx>>

\* A CAN counts as any other wrong answer here.
EotReply ==
  /\ pc = "eotReply"
  /\ TakeAnswer
  /\ \/ /\ Answer = ACK
        /\ IF filecounter < Len(Files)
           THEN filecounter' = filecounter + 1 /\ Enter("waitC")
           ELSE Enter("waitFinalC") /\ UNCHANGED filecounter
        /\ UNCHANGED message
     \/ /\ Answer # ACK
        /\ TryAgain("eot", "MaxRetries")
        /\ UNCHANGED filecounter
  /\ UNCHANGED <<offset, blocknumber, tx>>

SendFinal ==
  /\ pc = "final"
  /\ pc' = "finalReply"
  /\ Write(SendBlock(SOH, 0, EmptyBlock0))
  /\ UNCHANGED <<filecounter, offset, blocknumber, retry, message, rx>>

\* mutant: the closing block is sent once, answered or not
FinalReplyOnce ==
  /\ pc = "finalReply"
  /\ TakeAnswer
  /\ Close("Done")
  /\ UNCHANGED <<filecounter, offset, blocknumber, retry, tx>>

\* Both ways out of this loop print Done.
FinalReply ==
  /\ pc = "finalReply"
  /\ TakeAnswer
  /\ IF Answer = ACK
     THEN Close("Done") /\ UNCHANGED retry
     ELSE TryAgain("final", "Done")
  /\ UNCHANGED <<filecounter, offset, blocknumber, tx>>

Send == SendHeader \/ SendData \/ SendEot \/ SendFinal
Reply == WaitRequest \/ HeaderReply \/ DataReply \/ EotReply \/ FinalReply

Step == Start \/ WaitReceiver \/ Send \/ Reply

-----------------------------------------------------------------------------
(* A sender on its own: any answer may come at any moment, or none; what   *)
(* it wrote is carried away before it reads again.                         *)

Deliver ==
  /\ Len(rx) < MaxQueue
  /\ \E c \in Answers : rx' = Append(rx, c)
  /\ UNCHANGED <<pc, filecounter, offset, blocknumber, retry, message, tx>>

CarryAway ==
  /\ tx # <<>>
  /\ tx' = <<>>
  /\ UNCHANGED <<pc, filecounter, offset, blocknumber, retry, message, rx>>

Next ==
  \/ tx = <<>> /\ Step
  \/ Deliver
  \/ CarryAway

Spec == Init /\ [][Next]_vars

\* The process keeps running and its timers expire.
FairSpec == Spec /\ WF_vars(tx = <<>> /\ Step) /\ WF_vars(CarryAway)

-----------------------------------------------------------------------------
(* Properties. *)

Loops == Awaiting \cup {"start", "waitReceiver", "header", "data", "eot", "final", "closed"}
DataLoop == {"data", "dataReply"}

\* The types of the sender's locals; offset never passes the file size, so the
\* unsigned filesize - offset never wraps, and no retry loop runs past its
\* limit.
TypeOK ==
  /\ pc \in Loops
  /\ filecounter \in DOMAIN Files
  /\ offset \in Nat
  /\ pc \in DataLoop => offset < filesize
  /\ blocknumber \in 0 .. SeqCount - 1
  /\ retry \in 0 .. MaxRetry
  /\ pc # "closed" => retry < MaxRetry
  /\ message \in {"none", "Done", "MaxRetries", "ReceiverAborts"}
  /\ (message # "none") = (pc = "closed")
  /\ rx \in Seq(Nat) /\ tx \in Seq(Nat)

\* Blocks it takes to send the first o bytes of the current file, when o is
\* where some block ends.
Whole1K == (filesize \div Block1K) * Block1K
BlocksBefore(o) ==
  IF o <= Whole1K
  THEN o \div Block1K
  ELSE Whole1K \div Block1K + (o - Whole1K + Block128 - 1) \div Block128

\* Two loops, one for the 1K blocks and one for the rest, share offset and
\* blocknumber, and a uint8_t wraps.  While data are sent, the number on the
\* block is the number of blocks before it plus one, modulo its width, and the
\* block starts where the block before it ended.
NumberMatchesOffset ==
  pc \in DataLoop =>
    /\ blocknumber = (1 + BlocksBefore(offset)) % SeqCount
    /\ IF offset <= Whole1K
       THEN offset % Block1K = 0
       ELSE (offset - Whole1K) % Block128 = 0

\* EOT is sent only when every byte of the file was acknowledged, the closing
\* block 0 and Done only after that holds of the last file.
Finished(i) == offset = Len(Files[i].data)
EotAfterAll ==
  /\ pc \in {"eot", "eotReply"} => Finished(filecounter)
  /\ pc = "waitC" => filecounter > 1 /\ Finished(filecounter - 1)
  /\ pc \in {"waitFinalC", "final", "finalReply"} \/ message = "Done" =>
       filecounter = Len(Files) /\ Finished(filecounter)

\* Once a receiver has been heard the program ends, whatever is answered and
\* when: no run of wrong answers, stray requests or silence keeps it going.
SessionEnds == pc \notin {"start", "waitReceiver"} ~> pc = "closed"
==============================================================================
