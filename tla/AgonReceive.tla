------------------------------ MODULE AgonReceive ------------------------------
(***************************************************************************)
(* The receiving half of the Agon utility: get_files, fed by the VDP byte  *)
(* by byte through the mailbox.  The VDP receives a batch over YMODEM and  *)
(* hands it on as commands, each answered before the next is sent; it is   *)
(* external and modelled from what get_files expects of it.                *)
(*                                                                         *)
(* A command is handled in one step, when the last of its bytes was read:  *)
(* nothing get_files does earlier can be seen while it waits for a byte.   *)
(* The exception is a byte stored past the end of an array, or through a   *)
(* pointer never set: from there on what the program does is undefined,    *)
(* and the model stops.                                                    *)
(***************************************************************************)
EXTENDS VdpMailbox, FiniteSets, TLC

CONSTANTS
  Batch,       \* the files that arrive, a sequence of [filename, data]
  Packet,      \* bytes of a data command at most
  IntBytes,    \* bytes of an integer, 4
  UintBytes,   \* bytes of an unsigned int, 3
  NameSize,    \* bytes of filename[], 100
  BufferSize,  \* bytes of buffer[], 1024
  Crc(_),      \* what crc32_finalize makes of what the register has been through
  Resolve(_),  \* the file a C string names, NoPath if it can name none
  Dirs,        \* the strings main may hand over: "./", or a directory and "/"
  Strewn,      \* what filename[], never initialised, may hold at first
  OwnFiles,    \* what is on the card before, a function on paths
  DiskMayFail, \* whether mos_fopen and mos_fwrite may fail
  MaxOverruns  \* bound on bytes put before the one before was read

ASSUME AgonAssumption ==
  /\ Packet \in Nat \ {0} /\ IntBytes \in Nat \ {0} /\ UintBytes \in 1 .. IntBytes
  /\ NameSize \in Nat \ {0} /\ BufferSize \in Nat /\ Packet <= BufferSize
  /\ DiskMayFail \in BOOLEAN
  /\ MaxOverruns \in Nat /\ MaxOverruns + 1 < Counts

\* A name is sent without the zero that ends it.
ASSUME BatchAssumption ==
  /\ Batch \in Seq([filename : Seq(1 .. 255), data : Seq(0 .. 255)])
  /\ \A i \in 1 .. Len(Batch) : Crc(Batch[i].data) \in Nat

\* An unsigned int holds any length that is sent and counts past both arrays; an
\* empty name would end the batch.
ASSUME LengthsAssumption ==
  /\ BufferSize < 256 ^ UintBytes /\ NameSize < 256 ^ UintBytes
  /\ \A i \in 1 .. Len(Batch) : Len(Batch[i].filename) \in 1 .. 256 ^ UintBytes - 1

\* Arithmetic, for the provers.
ASSUME PowersAssumption ==
  /\ 256 ^ 0 = 1
  /\ \A i \in 0 .. IntBytes : 256 ^ i \in Nat \ {0}
  /\ \A i \in 1 .. IntBytes : 256 ^ i = 256 * 256 ^ (i - 1)

VARIABLES
  pc,         \* "start", "hello", "commands", "returned", "undefined"
  filenumber, filename,
  open,       \* the path mosfh stands for, NoPath if it is closed or 0
  crc,        \* what became of the CRC register since it was initialised
  dir, disk,  \* where files go, and the card: path -> data
  reply,      \* what was put to the VDP and not read there: "none" if nothing
  \* the VDP
  phase,      \* what it has to say next
  vfile, vpos,
  unsent,     \* bytes of its command that are not in the mailbox yet
  \* the past
  names,      \* what headers named
  verified,   \* the files answered with V
  overruns, failed

agon == <<pc, filenumber, filename, open, crc, dir, disk, names, verified, failed>>
vdp  == <<phase, vfile, vpos, unsent, overruns>>
vars == <<mailbox, agon, vdp, reply>>

NoPath == <<>>

\* What the register goes through is not bytes only: at first it was not
\* initialised, and crc32_finalize inverts it where it stands.
Unset == 256
Inverted == 257

Init ==
  /\ MailboxInit
  /\ pc = "start" /\ filenumber = 0 /\ filename \in Strewn /\ open = NoPath
  /\ crc = <<Unset>>
  /\ dir \in Dirs /\ disk = OwnFiles
  /\ reply = "none"
  /\ phase = "hello" /\ vfile = 1 /\ vpos = 0 /\ unsent = <<>>
  /\ names = {} /\ verified = <<>> /\ overruns = 0 /\ failed = FALSE

-----------------------------------------------------------------------------
(* The VDP. *)

IntOf(n) == [i \in 1 .. IntBytes |-> (n \div 256 ^ (i - 1)) % 256]

Data == Batch[vfile].data
Slice == SubSeq(Data, vpos + 1,
                IF vpos + Packet < Len(Data) THEN vpos + Packet ELSE Len(Data))

\* A command goes out when the one before it was answered.
Say(command) ==
  /\ unsent = <<>> /\ reply # "none" /\ reply # "SX"
  /\ unsent' = command /\ reply' = "none"
  /\ UNCHANGED <<mailbox, agon, overruns>>

\* 'C' if the VDP knows YMODEM and is ready, anything else if not.
SayHello ==
  /\ phase = "hello"
  /\ \E ready \in BOOLEAN :
       /\ Say(IF ready THEN <<67>> ELSE <<0>>)
       /\ phase' = IF ready THEN "header" ELSE "silent"
  /\ UNCHANGED <<vfile, vpos>>

SayHeader ==
  /\ phase = "header" /\ vfile <= Len(Batch)
  /\ Say(<<1>> \o IntOf(Len(Batch[vfile].filename)) \o Batch[vfile].filename \o IntOf(Len(Data)))
  /\ phase' = "data" /\ vpos' = 0 /\ UNCHANGED vfile

SayData ==
  /\ phase = "data" /\ vpos < Len(Data)
  /\ Say(<<2>> \o IntOf(Len(Slice)) \o Slice)
  /\ vpos' = vpos + Len(Slice) /\ UNCHANGED <<phase, vfile>>

SayCheck ==
  /\ phase = "data" /\ vpos = Len(Data)
  /\ Say(<<3>> \o IntOf(Crc(Data)))
  /\ phase' = "eof" /\ UNCHANGED <<vfile, vpos>>

SayEof ==
  /\ phase = "eof"
  /\ Say(<<4>>)
  /\ phase' = "header" /\ vfile' = vfile + 1 /\ UNCHANGED vpos

SayEnd ==
  /\ phase = "header" /\ vfile > Len(Batch)
  /\ Say(<<0>>)
  /\ phase' = "ended" /\ UNCHANGED <<vfile, vpos>>

\* The transfer from the PC came to nothing.
SayAbort ==
  /\ phase \in {"header", "data", "eof"}
  /\ Say(<<255>>)
  /\ phase' = "silent" /\ UNCHANGED <<vfile, vpos>>

\* A byte reaches the mailbox.  Nothing tells the VDP when the one before it
\* was read: it relies on being slower than the reader.
Interrupt ==
  /\ unsent # <<>>
  /\ IF seen THEN UNCHANGED overruns
     ELSE overruns < MaxOverruns /\ overruns' = overruns + 1
  /\ Put(Head(unsent)) /\ unsent' = Tail(unsent)
  /\ UNCHANGED <<agon, phase, vfile, vpos, reply>>

-----------------------------------------------------------------------------
(* The utility. *)

\* readint, of the bytes from the i-th on
ReadInt(i) ==
  LET value[k \in 0 .. IntBytes] ==
        IF k = 0 THEN 0 ELSE value[k - 1] + taken[i + k - 1] * 256 ^ (k - 1)
  IN  value[IntBytes]

\* What getblock waits for: it counts an unsigned int down before it tests it.
Block(length) == IF length = 0 THEN 256 ^ UintBytes ELSE length

\* readint returns a uint32_t, of which an unsigned int keeps the low bytes.
NameAt == 2 + IntBytes
Length == ReadInt(2) % 256 ^ UintBytes
CommandSize ==
  CASE taken[1] = 1 -> 1 + 2 * IntBytes + Block(Length)
    [] taken[1] = 2 -> 1 + IntBytes + Block(Length)
    [] taken[1] = 3 -> 1 + IntBytes
    [] OTHER -> 1

LengthRead == taken # <<>> /\ Len(taken) > IntBytes
Complete ==
  /\ taken # <<>>
  /\ taken[1] \in {1, 2} => LengthRead
  /\ Len(taken) = CommandSize

\* Bytes of the block the command goes on with that were stored so far.
Stored == Len(taken) - 1 - IntBytes

\* A name, or the zero put behind it, does not fit into filename.
NamePastEnd ==
  /\ LengthRead /\ taken[1] = 1
  /\ \/ Stored > NameSize /\ Block(Length) > NameSize
     \/ Stored >= NameSize /\ Length = NameSize

\* A packet does not fit into buffer, or came before the header that sets ptr.
PacketPastEnd ==
  /\ LengthRead /\ taken[1] = 2
  /\ Stored > (IF filenumber = 0 THEN 0 ELSE BufferSize)

Undefined == NamePastEnd \/ PacketPastEnd

Start ==
  /\ pc = "start" /\ pc' = "hello"
  /\ reply' = "YMODEM_RECEIVE"
  /\ UNCHANGED <<mailbox, filenumber, filename, open, crc, dir, disk, names, verified, failed, vdp>>

Hello ==
  /\ pc = "hello" /\ taken # <<>> /\ Use
  /\ pc' = IF taken[1] = 67 THEN "commands" ELSE "returned"
  /\ reply' = IF taken[1] = 67 THEN "ready" ELSE "none"
  /\ UNCHANGED <<filenumber, filename, open, crc, dir, disk, names, verified, failed, vdp>>

Command(codes) ==
  /\ pc = "commands" /\ Complete /\ ~Undefined /\ taken[1] \in codes /\ Use
  /\ UNCHANGED <<dir, vdp>>

Overflow ==
  /\ pc = "commands" /\ at = "wait" /\ Undefined
  /\ pc' = "undefined"
  /\ UNCHANGED <<mailbox, filenumber, filename, open, crc, dir, disk, names, verified, failed,
                 vdp, reply>>

\* A call to MOS that works, or one that may not.
Works == UNCHANGED failed
MayFail == DiskMayFail /\ failed' = TRUE

\* A string ends at its first zero.
CString(bytes) ==
  LET zeros == {i \in DOMAIN bytes : bytes[i] = 0}
  IN  IF zeros = {} THEN bytes
      ELSE SubSeq(bytes, 1, (CHOOSE i \in zeros : \A j \in zeros : i <= j) - 1)

\* mutant: the file is opened under its bare name
BarePath(name) == Resolve(name)

\* The name is appended to the directory as it came, whatever it holds.
Path(name) == Resolve(dir \o name)

\* A file opened for writing begins empty, whatever was there.
Created(path) == [p \in DOMAIN disk \cup {path} |-> IF p = path THEN <<>> ELSE disk[p]]

Header ==
  /\ Command({1})
  /\ LET name == CString(SubSeq(taken, NameAt, NameAt + Length - 1)) IN
       /\ filename' = name /\ names' = names \cup {name}
       /\ \/ /\ Path(name) # NoPath /\ Works
             /\ open' = Path(name)
             /\ disk' = Created(Path(name))
          \/ /\ Path(name) = NoPath /\ failed' = TRUE
             /\ open' = NoPath /\ UNCHANGED disk
          \/ /\ MayFail
             /\ open' = NoPath /\ UNCHANGED disk
  /\ filenumber' = filenumber + 1
  /\ crc' = <<>> /\ reply' = "S1"
  /\ UNCHANGED <<pc, verified>>

\* mutant: the CRC is that of the last packet
CrcOfLast(bytes) == bytes
CrcOver(bytes) == crc \o bytes

\* mutant: each packet is written at the beginning of the file
Overwritten(data, packet) == packet
Written(data, packet) == data \o packet

DataPacket ==
  /\ Command({2})
  /\ LET packet == SubSeq(taken, NameAt, Len(taken)) IN
       /\ crc' = CrcOver(packet)
       /\ \/ /\ Works
             /\ disk' = IF open = NoPath THEN disk ELSE [disk EXCEPT ![open] = Written(@, packet)]
          \/ MayFail /\ UNCHANGED disk
  /\ reply' = "S2"
  /\ UNCHANGED <<pc, filenumber, filename, open, names, verified>>

\* mos_del is given the name without the directory.
Deleted == [path \in DOMAIN disk \ {Resolve(filename)} |-> disk[path]]

\* mutant: the file that failed is not counted off
DiscardUncounted == open' = NoPath /\ disk' = Deleted /\ UNCHANGED filenumber
Discard == open' = NoPath /\ disk' = Deleted /\ filenumber' = filenumber - 1

\* mutant: whatever was received is verified
AnyMatches == TRUE
Matches == ReadInt(2) = Crc(crc) % 256 ^ IntBytes

CheckCrc ==
  /\ Command({3})
  /\ \/ /\ Matches
        /\ reply' = "SV"
        /\ verified' = Append(verified, [filename |-> filename, data |-> crc])
        /\ UNCHANGED <<pc, open, disk, filenumber>>
     \/ /\ ~Matches
        /\ reply' = "SX" /\ pc' = "returned" /\ Discard
        /\ UNCHANGED verified
  /\ crc' = Append(crc, Inverted)
  /\ UNCHANGED <<filename, names, failed>>

EndOfFile ==
  /\ Command({4})
  /\ open' = NoPath /\ reply' = "S4"
  /\ UNCHANGED <<pc, filenumber, filename, crc, disk, names, verified, failed>>

EndOfBatch ==
  /\ Command({0})
  /\ pc' = "returned"
  /\ UNCHANGED <<filenumber, filename, open, crc, disk, names, verified, failed, reply>>

\* mutant: the count is lowered whether or not a file was begun
AbortUnguarded ==
  /\ Command(5 .. 255)
  /\ pc' = "returned" /\ Discard
  /\ UNCHANGED <<filename, crc, names, verified, failed, reply>>

\* 0xff, and any byte that is no command.
Abort ==
  /\ Command(5 .. 255)
  /\ pc' = "returned"
  /\ IF filenumber > 0 THEN Discard ELSE UNCHANGED <<open, disk, filenumber>>
  /\ UNCHANGED <<filename, crc, names, verified, failed, reply>>

Read ==
  /\ pc \in {"hello", "commands"}
  /\ at = "wait" => taken = <<>> \/ (pc = "commands" /\ ~Complete /\ ~Undefined)
  /\ ReadStep
  /\ UNCHANGED <<agon, vdp, reply>>

Agon ==
  \/ Start \/ Read \/ Hello
  \/ Header \/ DataPacket \/ CheckCrc \/ EndOfFile \/ EndOfBatch \/ Abort \/ Overflow

Vdp ==
  \/ SayHello \/ SayHeader \/ SayData \/ SayCheck \/ SayEof \/ SayEnd \/ SayAbort
  \/ Interrupt

Next == Agon \/ Vdp

Spec == Init /\ [][Next]_vars
FairSpec == Spec /\ WF_vars(Agon) /\ WF_vars(Vdp)

-----------------------------------------------------------------------------
(* Properties. *)

\* The file a name means when files go to dir.
InDir(name) == Resolve(dir \o name)

\* The mailbox, the open file and the count stay within their types.  The
\* count is lowered once too often, and wraps, in one case only: a byte lost
\* makes get_files take the header of the first file for the check of one, as
\* when its name is three bytes long.
TypeOK ==
  /\ MailboxTypeOK
  /\ pc \in {"start", "hello", "commands", "returned", "undefined"}
  /\ filenumber \in Nat \/ (filenumber = -1 /\ pc = "returned" /\ reply = "SX")
  /\ open # NoPath => open \in DOMAIN disk /\ open = InDir(filename)
  /\ reply \in {"none", "YMODEM_RECEIVE", "ready", "S1", "S2", "SV", "SX", "S4"}
  /\ overruns \in 0 .. MaxOverruns

\* The counter is stored before the byte is loaded, so a byte that arrives in
\* between is read once more rather than never: a mailbox that looks empty is.
LatestByteSeen == at = "wait" /\ ~HasChanged => seen

\* Bytes lost in the mailbox may hang the transfer, end it, make get_files take
\* one command for another or write outside its arrays, but a file is verified
\* with contents only that one of the files sent has: never mixed, cut or
\* changed.  (Of what reached the card it says nothing.)
VerifiedIsSent == \A i \in DOMAIN verified : \E j \in DOMAIN Batch :
  verified[i].data = Batch[j].data

Named == {InDir(name) : name \in names}
Session == Named \cap DOMAIN disk
IsVerified(path) == \E i \in DOMAIN verified :
  path = InDir(verified[i].filename) /\ disk[path] = verified[i].data

\* One byte lost may turn one command into another, but then get_files waits for
\* more or ends the transfer; two may have it count a file whose check it missed.
Understood == overruns <= 1 /\ ~failed

\* A name is another file's when it stands without the directory.
DeletesItsOwn == \A name \in names : Resolve(name) = InDir(name)

\* Into the current directory: when get_files returns, because the batch ended,
\* a check failed or the VDP aborted between any two commands, what it leaves
\* behind are verified files only, and their number is the one it returns,
\* unless it returns below zero.
CountIsKept ==
  pc = "returned" /\ DeletesItsOwn /\ Understood =>
    /\ \A path \in Session : IsVerified(path)
    /\ filenumber = Cardinality(Session) \/ (filenumber = -1 /\ Session = {})

\* Into another directory the file that failed stays, but only the last one:
\* every file before it is whole.
OnlyLastUnverified ==
  Understood =>
    \A path \in Session : IsVerified(path) \/ path = InDir(filename)

\* No file is written but those that a header names, its name appended to the
\* directory (which a name with a '/' in it may leave), and one at most is
\* deleted, by the bare name of the file that failed; before the first header
\* that name is what the array happened to hold.
OthersKept ==
  \A path \in DOMAIN OwnFiles :
    \/ path \in DOMAIN disk /\ disk[path] = OwnFiles[path]
    \/ path \in Named
    \/ pc = "returned" /\ path = Resolve(filename) /\ path \notin DOMAIN disk

\* While the card works and the VDP is slower than the reader, get_files
\* returns only because the VDP was not ready or aborted, or because the batch
\* is complete, and then every file is on the card: no file is refused, though
\* one CRC register serves them all and each of their packets.  And it writes
\* outside its arrays only if a name is too long for filename.
AllReceived ==
  overruns = 0 =>
    /\ pc = "undefined" => \E i \in DOMAIN Batch : Len(Batch[i].filename) >= NameSize
    /\ pc = "returned" /\ phase # "silent" /\ ~failed =>
         /\ filenumber = Len(Batch)
         /\ \A i \in DOMAIN Batch : LET path == InDir(Batch[i].filename) IN
              path \in DOMAIN disk /\ disk[path] = Batch[i].data

\* get_files returns, unless the mailbox was overrun: then it may wait for bytes
\* that were lost, while the VDP waits for its answer, or have lost its way.
ReceiveEnds == <>(pc = "returned" \/ overruns > 0)
==============================================================================
