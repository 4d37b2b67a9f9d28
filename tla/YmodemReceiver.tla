---------------------------- MODULE YmodemReceiver ----------------------------
(***************************************************************************)
(* The receiving half of the PC program: ymodem_receive_cpp, with the      *)
(* session that collects the files in memory and writes them to disk when  *)
(* the transfer has ended.                                                 *)
(*                                                                         *)
(* Variables carry the names of the locals of ymodem_receive_cpp.  rx and  *)
(* tx are the two directions of the serial line: bytes that have arrived   *)
(* and were not read yet, and bytes written.  One step is one turn of the  *)
(* receive loop, from get_block to the end of the loop body; get_block     *)
(* touches nothing another process sees except the bytes it takes.         *)
(***************************************************************************)
EXTENDS YmodemWire

CONSTANTS
  MaxRetry,   \* YMODEM_MAX_RETRY
  MaxErrors,  \* YMODEM_MAX_ERRORS
  MaxFiles,   \* YMODEM_MAXFILES, the capacity of the session
  HostFails,  \* whether malloc, fopen and fwrite may fail
  Uninit,     \* the contents of a malloc'ed byte nobody wrote
  Units,      \* byte strings the line may deliver to a receiver on its own
  MaxLine     \* bound on the unread bytes the line holds for it

ASSUME ReceiverAssumption ==
  /\ MaxRetry \in Nat /\ MaxErrors \in Nat /\ MaxFiles \in Nat
  /\ MaxFiles > 0 /\ MaxLine \in Nat
  /\ HostFails \in BOOLEAN /\ Uninit \in Int
  /\ Units \subseteq Seq(Nat)

VARIABLES
  pc,                \* "start", "receive", "closed"
  files,             \* the session: what was announced and what was stored
  blocknumber,       \* the block number expected next
  offset,            \* bytes of the current file accounted for
  receiving_data,    \* a header was accepted and its EOT has not come
  errors,            \* never reset during a session
  timeout_counter,
  cancel_counter,
  session_done,      \* an end-of-batch block came
  aborted,           \* ymodem_session_aborted
  disk,              \* file name -> contents, what writeFiles left behind
  rx, tx

session  == <<files, blocknumber, offset, receiving_data>>
counters == <<errors, timeout_counter, cancel_counter>>
outcome  == <<session_done, aborted>>
vars == <<pc, session, counters, outcome, disk, rx, tx>>

\* The bytes stored are both `received' and the distance from buffer to
\* bufptr: addData moves the two together.
File == [filename : Nat, filesize : Nat, data : Seq(Nat)]
Received(f) == Len(f.data)
CurrentFile == files[Len(files)]

Init ==
  /\ pc = "start"
  /\ files = <<>> /\ blocknumber = 0 /\ offset = 0 /\ receiving_data = FALSE
  /\ errors = 0 /\ timeout_counter = 0 /\ cancel_counter = 0
  /\ session_done = FALSE /\ aborted = FALSE
  /\ disk = <<>>
  /\ rx = <<>> /\ tx = <<>>

Block == GetBlock(rx, blocknumber)
Running == pc = "receive" /\ ~session_done /\ ~aborted

AcceptedByCrc == Block.crc_verified   \* mutant: the number is not compared
Accepted == Block.crc_verified /\ Block.correct_blocknumber

Write(bytes) == tx' = tx \o bytes

-----------------------------------------------------------------------------
(* uart_flush, then the first request for a header. *)
Start ==
  /\ pc = "start"
  /\ pc' = "receive"
  /\ rx' = <<>>
  /\ Write(<<REQ>>)
  /\ UNCHANGED <<session, counters, outcome, disk>>

\* Only a nonzero expected block number makes silence count towards giving up.
CountsSilenceAt0 == blocknumber = 0   \* mutant: the test is the wrong way round
CountsSilence == blocknumber # 0

\* get_block timed out before the first byte.
Silence ==
  /\ Running
  /\ Block.length = 0
  /\ timeout_counter' = IF CountsSilence THEN timeout_counter + 1 ELSE timeout_counter
  /\ IF CountsSilence /\ timeout_counter' > MaxRetry
     THEN aborted' = TRUE /\ UNCHANGED tx
     ELSE aborted' = FALSE /\ Write(<<REQ>>)
  /\ UNCHANGED <<pc, session, errors, cancel_counter, session_done, disk, rx>>

\* mutant: a CAN is never forgotten
HeardCanStays ==
  /\ Running
  /\ Block.length > 0
  /\ rx' = AfterBlock(rx)
  /\ timeout_counter' = 0
  /\ cancel_counter' = IF Block.blocktype # CAN THEN cancel_counter ELSE cancel_counter + 1
  /\ UNCHANGED <<pc, disk>>

\* What every turn does once a byte has come: take the bytes, restart the
\* timeout count, and forget a CAN that another byte has followed.
Heard ==
  /\ Running
  /\ Block.length > 0
  /\ rx' = AfterBlock(rx)
  /\ timeout_counter' = 0
  /\ cancel_counter' = IF Block.blocktype # CAN THEN 0 ELSE cancel_counter + 1
  /\ UNCHANGED <<pc, disk>>

HeardBlock == Heard /\ StartsBlock(Block.blocktype)

CountError ==
  /\ errors' = errors + 1
  /\ aborted' = (errors' > MaxErrors)

EndOfBatch ==
  /\ HeardBlock
  /\ Block.end_of_batch
  /\ session_done' = TRUE
  /\ Write(<<ACK>>)
  /\ UNCHANGED <<session, errors, aborted>>

\* No answer to a block that stopped short: the sender's timeout recovers.
IncompleteBlock ==
  /\ HeardBlock
  /\ ~Block.end_of_batch /\ Block.timed_out
  /\ CountError
  /\ UNCHANGED <<session, session_done, tx>>

WholeBlockHeard == HeardBlock /\ ~Block.end_of_batch /\ ~Block.timed_out

\* mutant: what addFile returns is not looked at
AddFileUnchecked(filename, filesize) ==
  /\ \/ /\ Len(files) < MaxFiles
        /\ files' = Append(files, [filename |-> filename, filesize |-> filesize, data |-> <<>>])
     \/ (Len(files) = MaxFiles \/ HostFails) /\ UNCHANGED files
  /\ aborted' = FALSE

\* addFile fails when the session is full, or when memory is short.
AddFile(filename, filesize) ==
  \/ /\ Len(files) < MaxFiles
     /\ files' = Append(files, [filename |-> filename, filesize |-> filesize, data |-> <<>>])
     /\ aborted' = FALSE
  \/ /\ Len(files) = MaxFiles \/ HostFails
     /\ aborted' = TRUE
     /\ UNCHANGED files

\* The header is acknowledged before the file is added.
HeaderBlock ==
  /\ WholeBlockHeard
  /\ Accepted /\ ~receiving_data /\ Block.blocknumber = 0
  /\ Write(<<ACK, REQ>>)
  /\ AddFile(Block.filename, Block.filesize)
  /\ receiving_data' = TRUE
  /\ offset' = 0
  /\ blocknumber' = NextNumber(blocknumber)
  /\ UNCHANGED <<errors, session_done>>

AddDataAtStart(f, data) == [f EXCEPT !.data = data]   \* mutant: bufptr stays

\* addData: refuses, unnoticed by its caller, what the buffer cannot hold.
AddData(f, data) ==
  IF Received(f) + Len(data) > f.filesize
  THEN f
  ELSE [f EXCEPT !.data = @ \o data]

\* How much of an n-byte payload belongs to the current file; the rest pads.
WriteLenUncut(n) == n   \* mutant: padding is stored too
WriteLen(n) ==
  LET end  == offset + n
      size == CurrentFile.filesize
  IN  IF end > size THEN n - (end - size) ELSE n

DataBlock ==
  /\ WholeBlockHeard
  /\ Accepted /\ ~(~receiving_data /\ Block.blocknumber = 0)
  /\ Write(<<ACK>>)
  /\ LET n    == Block.length - Overhead
     IN  /\ offset' = Min2(offset + n, CurrentFile.filesize)
         /\ files' = [files EXCEPT ![Len(files)] =
                        AddData(@, SubSeq(Block.data, 1, WriteLen(n)))]
  /\ blocknumber' = NextNumber(blocknumber)
  /\ UNCHANGED <<receiving_data, errors, outcome>>

BadBlock ==
  /\ WholeBlockHeard
  /\ ~Accepted
  /\ Write(<<NAK>>)
  /\ UNCHANGED <<session, errors, outcome>>

\* Accepted at any time, whatever is still missing of the current file.
EndOfTransmission ==
  /\ Heard
  /\ Block.blocktype = EOT
  /\ Write(<<ACK, REQ>>)
  /\ receiving_data' = FALSE
  /\ blocknumber' = 0
  /\ offset' = 0
  /\ UNCHANGED <<files, errors, outcome>>

Cancel ==
  /\ Heard
  /\ Block.blocktype = CAN
  /\ aborted' = (cancel_counter' > 1)
  /\ UNCHANGED <<session, errors, session_done, tx>>

StrayByte ==
  /\ Heard
  /\ Block.blocktype \notin {SOH, STX, EOT, CAN}
  /\ CountError
  /\ UNCHANGED <<session, session_done, tx>>

-----------------------------------------------------------------------------
(* After the loop: send_abort, writeFiles, and the final uart_flush. *)

ToWriteAll == files   \* mutant: the last file is written whole or not
ToWriteButLast == SubSeq(files, 1, Len(files) - 1)   \* mutant: it never is

\* writeFiles drops the last file when it is not whole, and only that one.
ToWrite ==
  IF files # <<>> /\ Received(CurrentFile) # CurrentFile.filesize
  THEN SubSeq(files, 1, Len(files) - 1)
  ELSE files

\* The first n bytes of a file's buffer, received or not, and all of them:
\* fwrite is handed filesize bytes.
Beginning(f, n) ==
  [i \in 1 .. n |-> IF i <= Received(f) THEN f.data[i] ELSE Uninit]
Buffer(f) == Beginning(f, f.filesize)

\* How many of them reach the disk: an fwrite that fails is reported and left
\* at that, with what it wrote.
WrittenLengths(f) == IF HostFails THEN 0 .. f.filesize ELSE {f.filesize}

\* A file that cannot be opened is skipped; a later file replaces an earlier
\* one of the same name.
WriteFiles(opened, written) ==
  disk' = [name \in {ToWrite[i].filename : i \in opened} |->
             LET last == CHOOSE i \in opened :
                           /\ ToWrite[i].filename = name
                           /\ \A j \in opened : ToWrite[j].filename = name => j <= i
             IN  Beginning(ToWrite[last], written[last])]

Finish ==
  /\ pc = "receive"
  /\ session_done \/ aborted
  /\ pc' = "closed"
  /\ IF aborted THEN Write(<<CAN, CAN>>) ELSE UNCHANGED tx
  /\ \E opened \in SUBSET DOMAIN ToWrite :
       /\ HostFails \/ opened = DOMAIN ToWrite
       /\ \E written \in [opened -> UNION {WrittenLengths(ToWrite[i]) : i \in opened}] :
            /\ \A i \in opened : written[i] \in WrittenLengths(ToWrite[i])
            /\ WriteFiles(opened, written)
  /\ rx' = <<>>
  /\ UNCHANGED <<session, counters, outcome>>

Hear ==
  \/ EndOfBatch \/ IncompleteBlock \/ HeaderBlock \/ DataBlock \/ BadBlock
  \/ EndOfTransmission \/ Cancel \/ StrayByte

Step == Start \/ Silence \/ Hear \/ Finish

-----------------------------------------------------------------------------
(* A receiver on its own: the line delivers any of Units, and carries the  *)
(* answers away before the next block is read.  Bytes queued behind a      *)
(* whole block change nothing for the step that reads it, so the line      *)
(* delivers only when the receiver has used up what it could.              *)

Deliver ==
  /\ pc # "closed" /\ Incomplete(rx) /\ tx = <<>>
  /\ \E u \in Units : Len(rx \o u) <= MaxLine /\ rx' = rx \o u
  /\ UNCHANGED <<pc, session, counters, outcome, disk, tx>>

CarryAway ==
  /\ tx # <<>>
  /\ tx' = <<>>
  /\ UNCHANGED <<pc, session, counters, outcome, disk, rx>>

Next ==
  \/ tx = <<>> /\ Step
  \/ Deliver
  \/ CarryAway

Spec == Init /\ [][Next]_vars

-----------------------------------------------------------------------------
(* Properties. *)

\* The types of the receiver's locals, session and disk: block numbers fit a
\* uint8_t and the session never holds more than its fixed array of files.
TypeOK ==
  /\ pc \in {"start", "receive", "closed"}
  /\ files \in Seq(File) /\ Len(files) <= MaxFiles
  /\ blocknumber \in 0 .. SeqCount - 1
  /\ offset \in Nat
  /\ receiving_data \in BOOLEAN
  /\ errors \in Nat /\ timeout_counter \in Nat /\ cancel_counter \in Nat
  /\ session_done \in BOOLEAN /\ aborted \in BOOLEAN
  /\ \A name \in DOMAIN disk : name \in Nat /\ disk[name] \in Seq(Int)
  /\ rx \in Seq(Nat) /\ tx \in Seq(Nat)

\* The receiver counts a file twice: offset, in its loop, decides how much of a
\* block to keep, and bufptr/received, in addData, decide whether the buffer
\* can hold it.  While it receives the two agree, there is a file to receive
\* into, and no buffer ever holds more than was allocated.  If they parted,
\* addData would refuse data whose block had been acknowledged.
StoreSound ==
  /\ \A i \in DOMAIN files : Received(files[i]) <= files[i].filesize
  /\ receiving_data /\ ~aborted =>
       files # <<>> /\ offset = Received(CurrentFile)
  /\ ~receiving_data => blocknumber = 0 /\ offset = 0

\* A data block whose ACK moves the expected number on is in the buffer: the
\* file has grown by exactly the bytes of the block that belong to it, cut at
\* the file size (the rest is padding).  addData's refusal would be silent.
AckedIsStored ==
  [][receiving_data /\ receiving_data' /\ blocknumber' # blocknumber =>
       LET f == CurrentFile
           n == Len(rx) - Len(rx') - Overhead
           kept == Min2(n, f.filesize - Received(f))
       IN  files' = [files EXCEPT ![Len(files)].data =
                       @ \o SubSeq(rx, HeaderLen + 1, HeaderLen + kept)]]_vars

\* A file that another has followed is never touched again, and the last one
\* changes only while it is being received, by growing at its end.
FilesOnlyGrow ==
  [][/\ Len(files) <= Len(files')
     /\ \A i \in DOMAIN files :
          /\ Received(files[i]) <= Received(files'[i])
          /\ SubSeq(files'[i].data, 1, Received(files[i])) = files[i].data
          /\ i < Len(files) \/ ~receiving_data => files'[i] = files[i]]_vars

\* However the session ended, a cancelled or a failed one included, every file
\* that arrived whole is on disk as it arrived, unless a later file that was
\* written too has its name.
WholeFilesWritten ==
  pc = "closed" /\ ~HostFails =>
    \A i \in DOMAIN files :
      /\ Received(files[i]) = files[i].filesize
      /\ \A j \in DOMAIN ToWrite : j > i => files[j].filename # files[i].filename
      => files[i].filename \in DOMAIN disk /\ disk[files[i].filename] = files[i].data

\* With memory, the directory or the disk failing as they like, what is on disk
\* under a name is the buffer of one announced file of that name, or a beginning
\* of it where the disk was full, and never that of a last file cut short: the
\* transfer's unfinished file leaves no trace.
DiskFromSession ==
  pc = "closed" =>
    \A name \in DOMAIN disk : \E i \in DOMAIN files :
      /\ files[i].filename = name
      /\ \E n \in 0 .. files[i].filesize : disk[name] = Beginning(files[i], n)
      /\ ~HostFails => disk[name] = Buffer(files[i])
      /\ i = Len(files) => Received(files[i]) = files[i].filesize
==============================================================================
