------------------------------- MODULE AgonSend -------------------------------
(***************************************************************************)
(* The sending half of the Agon utility: check_files and send_files, and   *)
(* the VDP at the other end, which is external and takes what it is sent   *)
(* apart by the lengths that come with it.                                 *)
(*                                                                         *)
(* On the line an integer of writeint is one symbol, and so is each byte   *)
(* of putblock.  The two bytes the VDP answers with never meet in the      *)
(* mailbox, so getbyte is one step here.                                   *)
(***************************************************************************)
EXTENDS Integers, Sequences

CONSTANTS
  Paths,     \* what a command line may name
  Name(_),   \* the bytes of a path
  Data(_),   \* the bytes of the file there
  Missing,   \* paths that cannot be opened
  MaxName,   \* MAXNAMELENGTH
  MaxArgs,   \* bound on the names on a command line
  Chunk,     \* YMODEM_PACKET_1K_SIZE
  SizeLimit, \* 2^24: getfilesize loads three bytes, an unsigned int has three
  Crc(_),    \* the CRC-32 of some bytes
  CardFails  \* whether opening or reading may fail after the check

ASSUME SendAssumption ==
  /\ Missing \subseteq Paths
  /\ MaxArgs \in Nat \ {0} /\ Chunk \in Nat \ {0} /\ SizeLimit \in Nat
  /\ Chunk < SizeLimit
  /\ CardFails \in BOOLEAN

ASSUME FileAssumption == \A path \in Paths :
  /\ Name(path) \in Seq(Nat) /\ Data(path) \in Seq(Nat)
  /\ Crc(Data(path)) \in Nat

VARIABLES
  pc,        \* "check", "refused", "start", "hello", "open", "chunks", "final", "ended"
  filelist,  \* the command line
  filenumber, remaining, filesize,
  position,  \* how far mos_fread has come in the open file
  crc,       \* the bytes crc32 has seen since crc32_initialize
  failed,    \* "open" or "read" when the card has failed, else "none"
  line,      \* to the VDP
  answer,    \* from the VDP: "none", "C", "other"
  \* the VDP: what it expects next, how many symbols of it are still to come,
  \* the file that is coming, those that came, the counts it was told
  want, need, coming, got, told

agon == <<pc, filelist, filenumber, remaining, filesize, position, crc, failed>>
vdp  == <<want, need, coming, got, told>>
vars == <<agon, line, answer, vdp>>

Nothing == [filename |-> <<>>, data |-> <<>>]

Init ==
  /\ pc = "check"
  /\ \E k \in 1 .. MaxArgs : filelist \in [1 .. k -> Paths]
  /\ filenumber = 0 /\ remaining = 0 /\ filesize = 0 /\ position = 0
  /\ crc = <<>> /\ failed = "none"
  /\ line = <<>> /\ answer = "none"
  /\ want = "request" /\ need = 0 /\ coming = Nothing /\ got = <<>> /\ told = <<>>

-----------------------------------------------------------------------------
(* check_files *)

Usable(path) == path \notin Missing /\ Len(Name(path)) <= MaxName

AllUsable  == \A i \in DOMAIN filelist : Usable(filelist[i])

CheckFiles ==
  /\ pc = "check"
  /\ pc' = IF AllUsable THEN "start" ELSE "refused"
  /\ UNCHANGED <<filelist, filenumber, remaining, filesize, position, crc, failed,
                 line, answer, vdp>>

-----------------------------------------------------------------------------
(* send_files *)

Start ==
  /\ pc = "start"
  /\ remaining' = Len(filelist)
  /\ want' = "hello"          \* the three bytes of set_VDP_ymodem
  /\ pc' = "hello"
  /\ UNCHANGED <<filelist, filenumber, filesize, position, crc, failed, line, answer,
                 need, coming, got, told>>

Hello ==
  /\ pc = "hello" /\ answer # "none" /\ answer' = "none"
  /\ pc' = IF answer = "C" THEN "open" ELSE "ended"
  /\ UNCHANGED <<filelist, filenumber, remaining, filesize, position, crc, failed, line, vdp>>

Path == filelist[filenumber + 1]

\* mutant: the last byte is not counted
SizeOneLess(path) == IF Data(path) = <<>> THEN 0 ELSE Len(Data(path)) - 1
\* mutant: a byte more is announced than there is
SizeOneMore(path) == Len(Data(path)) + 1
SizeOf(path) == Len(Data(path)) % SizeLimit

OpenFile ==
  /\ pc = "open" /\ filenumber < Len(filelist)
  /\ line' = line \o <<remaining, Len(Name(Path))>> \o Name(Path) \o <<SizeOf(Path)>>
  /\ filesize' = SizeOf(Path) /\ position' = 0 /\ crc' = <<>>
  /\ pc' = "chunks"
  /\ UNCHANGED <<filelist, filenumber, remaining, failed, answer, vdp>>

\* A file that was there when it was checked.  The VDP is told the count that
\* ends a batch, and its answer is not waited for.
OpenFails ==
  /\ pc = "open" /\ filenumber < Len(filelist) /\ CardFails
  /\ failed' = "open"
  /\ line' = Append(line, 0)
  /\ pc' = "ended"
  /\ UNCHANGED <<filelist, filenumber, remaining, filesize, position, crc, answer, vdp>>

\* unsigned subtraction
\* mutant: the difference may be negative
Difference(a, b) == a - b
Minus(a, b) == (a - b) % SizeLimit

Contents == Data(Path)
ReadTo(length) == IF position + length < Len(Contents) THEN position + length ELSE Len(Contents)

SendChunk ==
  /\ pc = "chunks" /\ filesize # 0
  /\ \/ position' = ReadTo(Chunk) /\ UNCHANGED failed
     \/ CardFails /\ failed' = "read" /\ UNCHANGED position
  /\ LET bytes == SubSeq(Contents, position + 1, position') IN
       /\ line' = line \o bytes
       /\ crc' = crc \o bytes
       /\ filesize' = Minus(filesize, Len(bytes))
  /\ UNCHANGED <<pc, filelist, filenumber, remaining, answer, vdp>>

\* mutant: the count stays
SameCount == remaining
OneLess   == remaining - 1

SendCrc ==
  /\ pc = "chunks" /\ filesize = 0
  /\ line' = Append(line, Crc(crc))
  /\ remaining' = OneLess /\ filenumber' = filenumber + 1
  /\ pc' = "open"
  /\ UNCHANGED <<filelist, filesize, position, crc, failed, answer, vdp>>

SendEnd ==
  /\ pc = "open" /\ filenumber = Len(filelist)
  /\ line' = Append(line, 0)
  /\ pc' = "final"
  /\ UNCHANGED <<filelist, filenumber, remaining, filesize, position, crc, failed, answer, vdp>>

Final ==
  /\ pc = "final" /\ answer # "none" /\ answer' = "none"
  /\ pc' = "ended"
  /\ UNCHANGED <<filelist, filenumber, remaining, filesize, position, crc, failed, line, vdp>>

Agon ==
  \/ CheckFiles \/ Start \/ Hello
  \/ OpenFile \/ OpenFails \/ SendChunk \/ SendCrc \/ SendEnd \/ Final

-----------------------------------------------------------------------------
(* The VDP. *)

\* 'C' if it knows YMODEM and has found a receiver, anything else if not.
AnswerHello ==
  /\ want = "hello"
  /\ answer' \in {"C", "other"}
  /\ want' = IF answer' = "C" THEN "remaining" ELSE "idle"
  /\ UNCHANGED <<agon, line, need, coming, got, told>>

Expect(item) ==
  /\ want = item /\ line # <<>>
  /\ line' = Tail(line)
  /\ UNCHANGED agon

TakeRemaining ==
  /\ Expect("remaining")
  /\ IF Head(line) = 0
     THEN want' = "idle" /\ answer' = "other" /\ UNCHANGED told
     ELSE want' = "namelen" /\ told' = Append(told, Head(line)) /\ UNCHANGED answer
  /\ coming' = Nothing
  /\ UNCHANGED <<need, got>>

TakeLength ==
  /\ \/ Expect("namelen") /\ want' = "name"
     \/ Expect("size") /\ want' = "data"
  /\ need' = Head(line)
  /\ UNCHANGED <<answer, coming, got, told>>

TakeByte ==
  /\ need > 0
  /\ \/ Expect("name") /\ coming' = [coming EXCEPT !.filename = Append(@, Head(line))]
     \/ Expect("data") /\ coming' = [coming EXCEPT !.data = Append(@, Head(line))]
  /\ need' = need - 1
  /\ UNCHANGED <<answer, want, got, told>>

BlockTaken ==
  /\ need = 0
  /\ \/ want = "name" /\ want' = "size"
     \/ want = "data" /\ want' = "crc"
  /\ UNCHANGED <<agon, line, answer, need, coming, got, told>>

\* A file whose CRC does not fit is dropped.
TakeCrc ==
  /\ Expect("crc")
  /\ got' = IF Head(line) = Crc(coming.data) THEN Append(got, coming) ELSE got
  /\ want' = "remaining"
  /\ UNCHANGED <<answer, need, coming, told>>

Vdp ==
  \/ AnswerHello \/ TakeRemaining \/ TakeLength \/ TakeByte \/ BlockTaken \/ TakeCrc

Next == Agon \/ Vdp

Spec == Init /\ [][Next]_vars
\* Neither program stops; the card need not fail.
FairSpec == Spec /\ WF_vars(Agon /\ UNCHANGED failed) /\ WF_vars(Vdp)

-----------------------------------------------------------------------------
(* Properties. *)

\* The size left of a file stays an unsigned int of three bytes and the count
\* of files left one that fits what was sent, also for a file too large.
TypeOK ==
  /\ pc \in {"check", "refused", "start", "hello", "open", "chunks", "final", "ended"}
  /\ filenumber \in 0 .. Len(filelist) /\ remaining \in 0 .. Len(filelist)
  /\ filesize \in 0 .. SizeLimit - 1
  /\ failed \in {"none", "open", "read"} /\ answer \in {"none", "C", "other"}

Sent(i) == [filename |-> Name(filelist[i]), data |-> Data(filelist[i])]
Fits == \A i \in DOMAIN filelist : Len(Data(filelist[i])) < SizeLimit

\* What the VDP takes from the line by the lengths announced is what the files
\* hold: all that came are the first ones named, whole, in their order, and
\* what is coming is the beginning of the next.
GotIsSent ==
  Fits =>
    /\ Len(got) <= Len(filelist) /\ \A i \in DOMAIN got : got[i] = Sent(i)
    /\ want \in {"size", "data", "crc"} =>
         /\ Len(got) < Len(filelist)
         /\ coming.filename = Name(filelist[Len(got) + 1])
         /\ coming.data = SubSeq(Data(filelist[Len(got) + 1]), 1, Len(coming.data))

\* The VDP sees the same end whether the batch is complete or a file could not
\* be opened any more; the count that came with the last file tells which.
ShortBatchShows ==
  want = "idle" /\ Fits /\ told # <<>> =>
    (Len(got) = Len(filelist) <=> told[Len(told)] = 1)

\* The utility ends, unless a read brings nothing: then the loop over the size
\* announced goes on without end.  A file too large for three bytes does not
\* keep it from reaching the end of its loop; if all files fit, its last wait
\* is answered as well.
SendEnds ==
  /\ <>(pc \in {"refused", "ended", "final"} \/ failed = "read")
  /\ Fits ~> pc \in {"refused", "ended"} \/ failed = "read"
==============================================================================
