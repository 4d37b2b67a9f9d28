-------------------------- MODULE AgonReceiveProofs --------------------------
(***************************************************************************)
(* The mailbox read with interrupts enabled, and the card, for any batch,  *)
(* any width of the counter and any number of overruns it can tell apart.  *)
(* Then the whole conversation with the VDP, as long as no byte is lost:   *)
(* what is in the mailbox and on its way is one command or nothing, and    *)
(* how far the VDP is tells what the utility and the card hold.            *)
(***************************************************************************)
EXTENDS AgonReceive, FiniteSetTheorems, SequenceTheorems, WellFoundedInduction, TLAPS

-----------------------------------------------------------------------------
(* The mailbox: how far the reader's counter is behind. *)

\* A counter that wraps counts modulo its width.
LEMMA Counting ==
  ASSUME NEW c \in 0 .. Counts - 1, NEW e \in Nat
  PROVE  /\ (c + 0) % Counts = c
         /\ (((c + e) % Counts) + 1) % Counts = (c + (e + 1)) % Counts
         /\ (c + e) % Counts \in 0 .. Counts - 1
         /\ 0 < e /\ e < Counts => (c + e) % Counts # c
<1> DEFINE d == Counts
           q == (c + e) \div d
           r == (c + e) % d
<1>1. d \in Nat \ {0} /\ 1 < d /\ c \in Nat /\ c + e \in Nat
  BY CountsAssumption DEF CountsAssumption
<1>2. \A m \in Nat, s \in 0 .. d - 1 : (m * d + s) % d = s
  BY <1>1
<1>3. q \in Nat /\ r \in 0 .. d - 1 /\ c + e = q * d + r
  BY <1>1
<1> HIDE DEF d, q, r
<1>4. c % d = c
  <2>1. c \in 0 .. d - 1 /\ c = 0 * d + c
    BY <1>1 DEF d
  <2> QED
    BY <1>2, <2>1
<1>5. (r + 1) % d = (c + (e + 1)) % d
  <2>1. CASE r + 1 < d
    <3>1. r + 1 \in 0 .. d - 1 /\ c + (e + 1) = q * d + (r + 1) /\ r + 1 = 0 * d + (r + 1)
      BY <1>1, <1>3, <2>1
    <3>2. (q * d + (r + 1)) % d = r + 1 /\ (0 * d + (r + 1)) % d = r + 1
      BY <1>2, <1>3, <3>1
    <3> QED
      BY <3>1, <3>2
  <2>2. CASE r + 1 = d
    <3>1. 0 \in 0 .. d - 1 /\ c + (e + 1) = (q + 1) * d + 0 /\ r + 1 = 1 * d + 0 /\ q + 1 \in Nat
      BY <1>1, <1>3, <2>2
    <3>2. ((q + 1) * d + 0) % d = 0 /\ (1 * d + 0) % d = 0
      BY <1>2, <3>1
    <3> QED
      BY <3>1, <3>2
  <2> QED
    BY <1>1, <1>3, <2>1, <2>2
<1>6. ASSUME 0 < e, e < d PROVE r # c
  <2>1. CASE c + e < d
    <3>1. c + e \in 0 .. d - 1 /\ c + e = 0 * d + (c + e)
      BY <1>1, <2>1
    <3>2. r = c + e
      BY <1>2, <3>1 DEF r
    <3> QED
      BY <1>1, <1>6, <3>2
  <2>2. CASE c + e >= d
    <3>1. c + e - d \in 0 .. d - 1 /\ c + e = 1 * d + (c + e - d) /\ c < d
      BY <1>1, <1>6, <2>2 DEF d
    <3>2. r = c + e - d
      BY <1>2, <3>1 DEF r
    <3> QED
      BY <1>1, <1>6, <3>2
  <2> QED
    BY <1>1, <2>1, <2>2
<1> QED
  BY <1>1, <1>3, <1>4, <1>5, <1>6 DEF d, r

\* The reader's counter is behind by the bytes that came since it was stored.
\* All but one of them came on top of a byte not read yet; none but those, once
\* the byte in the mailbox was read, or is about to be.
Behind ==
  \E e \in Nat :
    /\ vkeycount = (keycount + e) % Counts
    /\ e <= overruns + 1
    /\ at = "fetch" \/ seen = TRUE => e <= overruns
    /\ at = "store" \/ (at = "wait" /\ seen = FALSE) => e > 0
    /\ at = "fetch" /\ seen = TRUE => e = 0 /\ overruns > 0

Types ==
  /\ vkeycount \in 0 .. Counts - 1 /\ keycount \in 0 .. Counts - 1
  /\ at \in {"wait", "store", "fetch"} /\ seen \in BOOLEAN
  /\ overruns \in 0 .. MaxOverruns

Mailbox == Types /\ Behind

\* The steps that leave the mailbox as it is, or only use up what was read.
LEMMA MailboxStays ==
  ASSUME Mailbox, UNCHANGED <<vkeycount, keycount, at, seen, overruns>>
  PROVE  Mailbox'
  BY DEF Mailbox, Types, Behind

LEMMA InterruptKeeps ==
  ASSUME Mailbox, Interrupt
  PROVE  Mailbox'
<1>1. /\ vkeycount' = (vkeycount + 1) % Counts /\ seen' = FALSE /\ UNCHANGED <<keycount, at>>
      /\ \/ seen = TRUE /\ overruns' = overruns
         \/ seen = FALSE /\ overruns < MaxOverruns /\ overruns' = overruns + 1
  BY DEF Interrupt, Put, Mailbox, Types
<1>2. PICK e \in Nat :
        /\ vkeycount = (keycount + e) % Counts
        /\ e <= overruns + 1
        /\ at = "fetch" \/ seen = TRUE => e <= overruns
        /\ at = "store" \/ (at = "wait" /\ seen = FALSE) => e > 0
        /\ at = "fetch" /\ seen = TRUE => e = 0 /\ overruns > 0
  BY DEF Mailbox, Behind
<1>3. keycount \in 0 .. Counts - 1 /\ overruns \in 0 .. MaxOverruns /\ MaxOverruns \in Nat
  BY AgonAssumption DEF AgonAssumption, Mailbox, Types
<1>4. vkeycount' = (keycount + (e + 1)) % Counts /\ vkeycount' \in 0 .. Counts - 1
  BY <1>1, <1>2, <1>3, Counting
<1>5. e + 1 \in Nat /\ e + 1 > 0 /\ e + 1 <= overruns' + 1 /\ overruns' \in 0 .. MaxOverruns
      /\ (at = "fetch" => e + 1 <= overruns')
  BY <1>1, <1>2, <1>3
<1>6. Behind'
  BY <1>1, <1>4, <1>5 DEF Behind
<1>7. Types'
  BY <1>1, <1>4, <1>5 DEF Types, Mailbox
<1> QED
  BY <1>6, <1>7 DEF Mailbox

LEMMA ReadKeeps ==
  ASSUME Mailbox, ReadStep, UNCHANGED overruns
  PROVE  Mailbox'
<1>1. PICK e \in Nat :
        /\ vkeycount = (keycount + e) % Counts
        /\ e <= overruns + 1
        /\ at = "fetch" \/ seen = TRUE => e <= overruns
        /\ at = "store" \/ (at = "wait" /\ seen = FALSE) => e > 0
        /\ at = "fetch" /\ seen = TRUE => e = 0 /\ overruns > 0
  BY DEF Mailbox, Behind
<1>2. /\ keycount \in 0 .. Counts - 1 /\ vkeycount \in 0 .. Counts - 1
      /\ overruns \in Nat /\ seen \in BOOLEAN
  BY DEF Mailbox, Types
<1>3. (keycount + 0) % Counts = keycount /\ (vkeycount + 0) % Counts = vkeycount
  BY <1>2, Counting
<1>4. CASE Wait
  <2>1. at = "wait" /\ at' = "store" /\ UNCHANGED <<vkeycount, keycount, seen>> /\ e # 0
    BY <1>1, <1>3, <1>4 DEF Wait, HasChanged, Following
  <2> QED
    BY <1>1, <2>1 DEF Mailbox, Types, Behind
<1>5. CASE Store
  <2>1. at = "store" /\ at' = "fetch" /\ keycount' = vkeycount /\ UNCHANGED <<vkeycount, seen>>
    BY <1>5 DEF Store, Following
  <2>2. /\ 0 \in Nat /\ 0 <= overruns /\ 0 <= overruns + 1 /\ (seen = TRUE => overruns > 0)
        /\ vkeycount' = (keycount' + 0) % Counts /\ overruns' = overruns
    BY <1>1, <1>2, <1>3, <2>1
  <2>3. Behind'
    BY <2>1, <2>2 DEF Behind
  <2> QED
    BY <2>1, <2>3 DEF Mailbox, Types
<1>6. CASE Fetch
  <2>1. at = "fetch" /\ at' = "wait" /\ seen' = TRUE /\ UNCHANGED <<vkeycount, keycount>>
    BY <1>6 DEF Fetch, Following
  <2>2. Behind'
    BY <1>1, <2>1 DEF Behind
  <2> QED
    BY <2>1, <2>2 DEF Mailbox, Types
<1> QED
  BY <1>4, <1>5, <1>6 DEF ReadStep

\* What the program does with what was read moves nothing of the mailbox.
LEMMA ProgramKeeps ==
  ASSUME Mailbox, [Next]_vars, ~Interrupt, ~Read
  PROVE  UNCHANGED <<vkeycount, keycount, at, seen, overruns>>
  BY DEF Next, Agon, Vdp, Start, Hello, Header, DataPacket, CheckCrc, EndOfFile, EndOfBatch, Abort,
     Overflow, Command, Use, SayHello, SayHeader, SayData, SayCheck, SayEof, SayEnd, SayAbort, Say,
     vars, mailbox, vdp

LEMMA MailboxHolds == Spec => []Mailbox
<1>1. Init => Mailbox
  <2> SUFFICES ASSUME Init PROVE Mailbox
    OBVIOUS
  <2>1. /\ vkeycount \in 0 .. Counts - 1 /\ keycount = vkeycount /\ at = "wait" /\ seen = TRUE
        /\ overruns = 0
    BY DEF Init, MailboxInit
  <2>2. (keycount + 0) % Counts = keycount
    BY <2>1, Counting
  <2> QED
    BY <2>1, <2>2, AgonAssumption DEF AgonAssumption, Mailbox, Types, Behind
<1>2. Mailbox /\ [Next]_vars => Mailbox'
  <2> SUFFICES ASSUME Mailbox, [Next]_vars PROVE Mailbox'
    OBVIOUS
  <2>1. CASE Interrupt
    BY <2>1, InterruptKeeps
  <2>2. CASE Read
    BY <2>2, ReadKeeps DEF Read, vdp
  <2>3. CASE ~Interrupt /\ ~Read
    BY <2>3, ProgramKeeps, MailboxStays
  <2> QED
    BY <2>1, <2>2, <2>3
<1> QED
  BY <1>1, <1>2, PTL DEF Spec

\* getbyte and getblock never go to sleep on a byte they have not read, as long
\* as fewer bytes overrun the mailbox than its counter has values: storing the
\* counter before the byte is loaded makes a late byte come twice, not never.
THEOREM NoByteMissed == Spec => []LatestByteSeen
<1>1. ASSUME Mailbox PROVE LatestByteSeen
  <2> SUFFICES ASSUME at = "wait", vkeycount = keycount, seen = FALSE PROVE FALSE
    BY <1>1 DEF LatestByteSeen, HasChanged, Mailbox, Types
  <2>1. PICK e \in Nat : vkeycount = (keycount + e) % Counts /\ e <= overruns + 1 /\ e > 0
    BY <1>1 DEF Mailbox, Behind
  <2>2. e < Counts
    BY <1>1, <2>1, AgonAssumption, CountsAssumption
       DEF AgonAssumption, CountsAssumption, Mailbox, Types
  <2>3. keycount \in 0 .. Counts - 1
    BY <1>1 DEF Mailbox, Types
  <2> QED
    BY <2>1, <2>2, <2>3, Counting
<1> QED
  BY <1>1, MailboxHolds, PTL

-----------------------------------------------------------------------------
(* The card: what the session may touch. *)

\* The file mosfh stands for is the last one announced, and it is on the card.
OpenIsThere == open # NoPath => open = InDir(filename) /\ open \in Named /\ open \in DOMAIN disk

Kept(path) == path \in DOMAIN disk /\ disk[path] = OwnFiles[path]

\* Until get_files returns, none of the files that no header named is touched:
\* the one that may be deleted is deleted by the step that returns.
Card ==
  /\ OpenIsThere
  /\ \A path \in DOMAIN OwnFiles :
       \/ Kept(path)
       \/ path \in Named
       \/ pc = "returned" /\ path = Resolve(filename) /\ path \notin DOMAIN disk

\* Everything but the commands that write or delete leaves the card alone.
LEMMA CardStays ==
  ASSUME Card, UNCHANGED <<filename, dir, disk, names>>, open' \in {open, NoPath},
         pc = "returned" => pc' = "returned"
  PROVE  Card'
<1>1. Named' = Named /\ InDir(filename)' = InDir(filename) /\ Resolve(filename') = Resolve(filename)
  BY DEF Named, InDir
<1>2. OpenIsThere'
  BY <1>1 DEF Card, OpenIsThere
<1>3. \A path : Kept(path) => Kept(path)'
  BY DEF Kept
<1> QED
  BY <1>1, <1>2, <1>3 DEF Card

\* A step of the others, or a command that touches no file.
LEMMA OtherStep ==
  ASSUME [Next]_vars, ~Header, ~DataPacket, ~CheckCrc, ~Abort
  PROVE  /\ UNCHANGED <<filename, dir, disk, names>> /\ open' \in {open, NoPath}
         /\ pc = "returned" => pc' = "returned"
  BY DEF Next, Agon, Vdp, Start, Read, Hello, EndOfFile, EndOfBatch, Overflow, Command, Interrupt,
     SayHello, SayHeader, SayData, SayCheck, SayEof, SayEnd, SayAbort, Say, vars, agon

\* A header begins a file of the session.
LEMMA HeaderKeepsCard ==
  ASSUME Card, Header
  PROVE  Card'
<1>1. /\ pc = "commands" /\ pc' = pc /\ dir' = dir /\ names' = names \cup {filename'}
      /\ \/ UNCHANGED disk /\ open' = NoPath
         \/ open' = Path(filename') /\ disk' = Created(Path(filename'))
  BY DEF Header, Command, MayFail
<1> DEFINE new == Path(filename')
<1>2. \A path \in DOMAIN OwnFiles : Kept(path) \/ path \in Named
  BY <1>1 DEF Card
<1>3. new = InDir(filename)' /\ Named' = Named \cup {new}
  BY <1>1 DEF Named, InDir, Path
<1> HIDE DEF new
<1>4. CASE UNCHANGED disk /\ open' = NoPath
  BY <1>1, <1>2, <1>3, <1>4 DEF Card, OpenIsThere, Kept
<1>5. CASE open' = new /\ disk' = Created(new)
  <2>1. DOMAIN disk' = {new} \cup DOMAIN disk
    BY <1>5 DEF Created
  <2>2. \A path \in DOMAIN disk : path # new => disk'[path] = disk[path]
    BY <1>5 DEF Created
  <2>3. OpenIsThere'
    BY <1>3, <1>5, <2>1 DEF OpenIsThere
  <2>4. \A path \in DOMAIN OwnFiles : Kept(path)' \/ path \in Named'
    BY <1>2, <1>3, <2>1, <2>2 DEF Kept
  <2> QED
    BY <2>3, <2>4 DEF Card
<1> QED
  BY <1>1, <1>4, <1>5 DEF new

\* A packet goes to the file that is open.
LEMMA DataKeepsCard ==
  ASSUME Card, DataPacket
  PROVE  Card'
<1>1. pc = "commands" /\ UNCHANGED <<pc, dir, open, filename, names>>
  BY DEF DataPacket, Command
<1>2. \A path \in DOMAIN OwnFiles : Kept(path) \/ path \in Named
  BY <1>1 DEF Card
<1>3. /\ DOMAIN disk' = DOMAIN disk
      /\ \A path \in DOMAIN disk : path # open \/ open = NoPath => disk'[path] = disk[path]
  BY DEF DataPacket, MayFail
<1>4. open # NoPath => open \in Named
  BY DEF Card, OpenIsThere
<1>5. Named' = Named /\ InDir(filename)' = InDir(filename)
  BY <1>1 DEF Named, InDir
<1>6. \A path \in DOMAIN OwnFiles : Kept(path)' \/ path \in Named'
  BY <1>2, <1>3, <1>4, <1>5 DEF Kept
<1>7. OpenIsThere'
  BY <1>1, <1>3, <1>5 DEF Card, OpenIsThere
<1> QED
  BY <1>6, <1>7 DEF Card

\* What is deleted has the bare name of the last file announced.
LEMMA DiscardKeepsCard ==
  ASSUME Card, pc = "commands", pc' = "returned", Discard, UNCHANGED <<dir, filename, names>>
  PROVE  Card'
<1> DEFINE gone == Resolve(filename)
<1>1. DOMAIN disk' = DOMAIN disk \ {gone} /\ \A path \in DOMAIN disk' : disk'[path] = disk[path]
  BY DEF Discard, Deleted
<1>2. \A path \in DOMAIN OwnFiles : Kept(path) \/ path \in Named
  BY DEF Card
<1>3. Named' = Named /\ gone = Resolve(filename')
  BY DEF Named, InDir
<1> HIDE DEF gone
<1>4. \A path \in DOMAIN OwnFiles :
        Kept(path)' \/ path \in Named' \/ (path = Resolve(filename') /\ path \notin DOMAIN disk')
  BY <1>1, <1>2, <1>3 DEF Kept
<1>5. OpenIsThere'
  BY DEF OpenIsThere, Discard
<1> QED
  BY <1>4, <1>5 DEF Card

LEMMA CardHolds == Spec => []Card
<1>1. Init => Card
  BY DEF Init, Card, OpenIsThere, Kept
<1>2. Card /\ [Next]_vars => Card'
  <2> SUFFICES ASSUME Card, [Next]_vars PROVE Card'
    OBVIOUS
  <2>1. CASE Header
    BY <2>1, HeaderKeepsCard
  <2>2. CASE DataPacket
    BY <2>2, DataKeepsCard
  <2>3. CASE CheckCrc
    <3>1. pc = "commands" /\ UNCHANGED <<dir, filename, names>>
      BY <2>3 DEF CheckCrc, Command
    <3>2. UNCHANGED <<pc, open, disk>> \/ (pc' = "returned" /\ Discard)
      BY <2>3 DEF CheckCrc
    <3> QED
      BY <3>1, <3>2, CardStays, DiscardKeepsCard
  <2>4. CASE Abort
    <3>1. pc = "commands" /\ pc' = "returned" /\ UNCHANGED <<dir, filename, names>>
      BY <2>4 DEF Abort, Command
    <3>2. UNCHANGED <<open, disk>> \/ Discard
      BY <2>4 DEF Abort
    <3> QED
      BY <3>1, <3>2, CardStays, DiscardKeepsCard
  <2>5. CASE ~Header /\ ~DataPacket /\ ~CheckCrc /\ ~Abort
    BY <2>5, OtherStep, CardStays
  <2> QED
    BY <2>1, <2>2, <2>3, <2>4, <2>5
<1> QED
  BY <1>1, <1>2, PTL DEF Spec

\* Whatever bytes the mailbox lost or took for others, and whatever a name
\* behind the directory leads to, get_files writes to no file but those that
\* the headers it took named; it deletes at most one more, when it returns, and
\* that is the one the bare name of the last file means.
THEOREM OtherFilesKept == Spec => []OthersKept
<1>1. Card => OthersKept
  BY DEF Card, OthersKept, Kept
<1> QED
  BY <1>1, CardHolds, PTL

-----------------------------------------------------------------------------
(* Types: what is sent are bytes, and the count is lowered where there is    *)
(* something to count off.                                                   *)

Byte == 0 .. 255

VdpTypeOK ==
  /\ phase \in {"hello", "header", "data", "eof", "ended", "silent"}
  /\ vfile \in Nat \ {0} /\ vpos \in Nat
  /\ phase \in {"data", "eof"} => vfile <= Len(Batch)
  /\ unsent \in Seq(Byte)

UtilityTypeOK ==
  /\ pc \in {"start", "hello", "commands", "returned", "undefined"}
  /\ dir \in Dirs
  /\ filenumber \in Nat \/ (filenumber = -1 /\ pc = "returned" /\ reply = "SX")
  /\ reply \in {"none", "YMODEM_RECEIVE", "ready", "S1", "S2", "SV", "SX", "S4"}

AllTypes == MailboxTypeOK /\ VdpTypeOK /\ UtilityTypeOK

LEMMA IntegersAreBytes ==
  ASSUME NEW n \in Nat
  PROVE  IntOf(n) \in Seq(Byte)
<1>1. \A m \in Nat \ {0} : (n \div m) % 256 \in Byte
  BY DEF Byte
<1>2. \A i \in 1 .. IntBytes : 256 ^ (i - 1) \in Nat \ {0}
  <2>1. \A i \in 1 .. IntBytes : i - 1 \in 0 .. IntBytes
    BY AgonAssumption DEF AgonAssumption
  <2> QED
    BY <2>1, PowersAssumption DEF PowersAssumption
<1>3. \A i \in 1 .. IntBytes : (n \div 256 ^ (i - 1)) % 256 \in Byte
  BY <1>1, <1>2
<1>4. IntBytes \in Nat
  BY AgonAssumption DEF AgonAssumption
<1> HIDE DEF Byte
<1> QED
  BY <1>3, <1>4 DEF IntOf

LEMMA FileIsBytes ==
  ASSUME VdpTypeOK, vfile <= Len(Batch)
  PROVE  /\ Batch[vfile].filename \in Seq(Byte) /\ Data \in Seq(Byte)
         /\ Len(Data) \in Nat /\ Len(Batch[vfile].filename) \in Nat /\ Crc(Data) \in Nat
<1>1. vfile \in 1 .. Len(Batch)
  BY BatchAssumption, LenProperties DEF BatchAssumption, VdpTypeOK
<1>2. Batch[vfile] \in [filename : Seq(Byte), data : Seq(Byte)]
  <2> DEFINE Files == [filename : Seq(Byte), data : Seq(Byte)]
  <2> DEFINE Sent == [filename : Seq(1 .. 255), data : Seq(0 .. 255)]
  <2>1. Batch \in Seq(Sent)
    BY BatchAssumption DEF BatchAssumption
  <2>2. \A t \in Seq(1 .. 255) : t \in Seq(Byte)
    BY DEF Byte
  <2> HIDE DEF Sent
  <2>3. Batch[vfile] \in Sent
    BY <1>1, <2>1, ElementOfSeq
  <2> HIDE DEF Files
  <2>4. Batch[vfile] \in Files
    BY <2>2, <2>3 DEF Sent, Files, Byte
  <2> QED
    BY <2>4 DEF Files
<1>3. Crc(Batch[vfile].data) \in Nat
  BY <1>1, BatchAssumption DEF BatchAssumption
<1> QED
  BY <1>2, <1>3 DEF Data

\* What the VDP says is a sequence of bytes.
LEMMA SayKeepsTypes ==
  ASSUME AllTypes, NEW command \in Seq(Byte), Say(command)
  PROVE  MailboxTypeOK' /\ UtilityTypeOK' /\ unsent' \in Seq(Byte)
  BY DEF AllTypes, Say, MailboxTypeOK, UtilityTypeOK, mailbox, agon

LEMMA OneByte ==
  ASSUME NEW b \in 0 .. 255
  PROVE  <<b>> \in Seq(Byte)
  BY DEF Byte

LEMMA VdpKeepsTypes ==
  ASSUME AllTypes, Vdp
  PROVE  AllTypes'
<1> USE DEF AllTypes
<1>1. CASE SayHello
  <2>1. PICK ready \in BOOLEAN :
          /\ Say(IF ready THEN <<67>> ELSE <<0>>)
          /\ phase' = IF ready THEN "header" ELSE "silent"
    BY <1>1 DEF SayHello
  <2>2. (IF ready THEN <<67>> ELSE <<0>>) \in Seq(Byte)
    BY OneByte
  <2> QED
    BY <1>1, <2>1, <2>2, SayKeepsTypes DEF SayHello, VdpTypeOK
<1>2. CASE SayHeader
  <2> DEFINE command == <<1>> \o IntOf(Len(Batch[vfile].filename)) \o Batch[vfile].filename
                              \o IntOf(Len(Data))
  <2>1. <<1>> \in Seq(Byte)
    BY OneByte
  <2>2. /\ Batch[vfile].filename \in Seq(Byte)
        /\ IntOf(Len(Batch[vfile].filename)) \in Seq(Byte) /\ IntOf(Len(Data)) \in Seq(Byte)
    BY <1>2, FileIsBytes, IntegersAreBytes DEF SayHeader
  <2>3. command \in Seq(Byte)
    <3> HIDE DEF Byte
    <3> QED
      BY <2>1, <2>2
  <2>4. Say(command)
    BY <1>2 DEF SayHeader
  <2>5. MailboxTypeOK' /\ UtilityTypeOK' /\ unsent' \in Seq(Byte)
    <3> HIDE DEF command
    <3> QED
      BY <2>3, <2>4, SayKeepsTypes
  <2> QED
    BY <1>2, <2>5 DEF SayHeader, VdpTypeOK
<1>3. CASE SayData
  <2> DEFINE command == <<2>> \o IntOf(Len(Slice)) \o Slice
  <2>1. <<2>> \in Seq(Byte)
    BY OneByte
  <2>2. Data \in Seq(Byte) /\ Len(Data) \in Nat
    BY <1>3, FileIsBytes DEF SayData, VdpTypeOK
  <2>3. Slice \in Seq(Byte) /\ Len(Slice) \in Nat
    <3> DEFINE end == IF vpos + Packet < Len(Data) THEN vpos + Packet ELSE Len(Data)
    <3>1. /\ vpos + 1 \in Nat \ {0} /\ end \in Nat /\ end <= Len(Data)
      BY <2>2, AgonAssumption DEF AgonAssumption, VdpTypeOK
    <3>2. Slice = SubSeq(Data, vpos + 1, end)
      BY DEF Slice
    <3>3. \A i \in vpos + 1 .. end : i \in 1 .. Len(Data)
      BY <2>2, <3>1
    <3>4. SubSeq(Data, vpos + 1, end) \in Seq(Byte)
      <4> HIDE DEF end, Byte
      <4> QED
        BY <2>2, <3>1, <3>3, SubSeqProperties
    <3> QED
      BY <3>2, <3>4, LenProperties
  <2>4. command \in Seq(Byte)
    <3>1. IntOf(Len(Slice)) \in Seq(Byte)
      BY <2>3, IntegersAreBytes
    <3> HIDE DEF Byte
    <3> QED
      BY <2>1, <2>3, <3>1
  <2>5. Say(command)
    BY <1>3 DEF SayData
  <2>6. MailboxTypeOK' /\ UtilityTypeOK' /\ unsent' \in Seq(Byte)
    <3> HIDE DEF command
    <3> QED
      BY <2>4, <2>5, SayKeepsTypes
  <2> QED
    BY <1>3, <2>3, <2>6 DEF SayData, VdpTypeOK
<1>4. CASE SayCheck
  <2>1. <<3>> \in Seq(Byte)
    BY OneByte
  <2>2. IntOf(Crc(Data)) \in Seq(Byte)
    BY <1>4, FileIsBytes, IntegersAreBytes DEF SayCheck, VdpTypeOK
  <2>3. <<3>> \o IntOf(Crc(Data)) \in Seq(Byte)
    <3> HIDE DEF Byte
    <3> QED
      BY <2>1, <2>2
  <2> QED
    BY <1>4, <2>3, SayKeepsTypes DEF SayCheck, VdpTypeOK
<1>5. CASE SayEof
  <2>1. <<4>> \in Seq(Byte) /\ Say(<<4>>)
    BY <1>5, OneByte DEF SayEof
  <2>2. MailboxTypeOK' /\ UtilityTypeOK' /\ unsent' \in Seq(Byte)
    BY <2>1, SayKeepsTypes
  <2> QED
    BY <1>5, <2>2 DEF SayEof, VdpTypeOK
<1>6. CASE SayEnd
  <2>1. <<0>> \in Seq(Byte) /\ Say(<<0>>)
    BY <1>6, OneByte DEF SayEnd
  <2>2. MailboxTypeOK' /\ UtilityTypeOK' /\ unsent' \in Seq(Byte)
    BY <2>1, SayKeepsTypes
  <2> QED
    BY <1>6, <2>2 DEF SayEnd, VdpTypeOK
<1>7. CASE SayAbort
  <2>1. <<255>> \in Seq(Byte) /\ Say(<<255>>)
    BY <1>7, OneByte DEF SayAbort
  <2>2. MailboxTypeOK' /\ UtilityTypeOK' /\ unsent' \in Seq(Byte)
    BY <2>1, SayKeepsTypes
  <2> QED
    BY <1>7, <2>2 DEF SayAbort, VdpTypeOK
<1>8. CASE Interrupt
  <2>1. /\ UNCHANGED <<agon, phase, vfile, vpos, reply, keycount, at, taken>>
        /\ unsent # <<>> /\ unsent' = Tail(unsent) /\ keyascii' = Head(unsent)
        /\ vkeycount' = (vkeycount + 1) % Counts /\ seen' = FALSE
    BY <1>8 DEF Interrupt, Put
  <2>2. Head(unsent) \in Byte /\ Tail(unsent) \in Seq(Byte)
    <3> HIDE DEF Byte
    <3> QED
      BY <2>1, HeadTailProperties DEF VdpTypeOK
  <2>3. vkeycount' \in 0 .. Counts - 1
    BY <2>1, CountsAssumption DEF CountsAssumption, MailboxTypeOK
  <2>4. VdpTypeOK'
    BY <2>1, <2>2 DEF VdpTypeOK
  <2>5. MailboxTypeOK'
    BY <2>1, <2>2, <2>3 DEF MailboxTypeOK, Byte
  <2> QED
    BY <2>1, <2>4, <2>5 DEF UtilityTypeOK, agon
<1> QED
  BY <1>1, <1>2, <1>3, <1>4, <1>5, <1>6, <1>7, <1>8 DEF Vdp

LEMMA AgonKeepsTypes ==
  ASSUME AllTypes, Agon
  PROVE  AllTypes'
<1> USE DEF AllTypes
<1>1. VdpTypeOK'
  BY DEF Agon, Start, Read, Hello, Header, DataPacket, CheckCrc, EndOfFile, EndOfBatch, Abort,
     Overflow, Command, vdp, VdpTypeOK
<1>2. MailboxTypeOK'
  <2>1. CASE Read
    <3>1. ReadStep
      BY <2>1 DEF Read
    <3>2. Append(taken, keyascii) \in Seq(0 .. 255)
      BY DEF MailboxTypeOK
    <3>3. taken' \in Seq(0 .. 255) /\ seen' \in BOOLEAN /\ UNCHANGED <<keyascii, vkeycount>>
      BY <3>1, <3>2 DEF ReadStep, Wait, Store, Fetch, MailboxTypeOK
    <3>4. at' \in {"wait", "store", "fetch"} /\ keycount' \in {keycount, vkeycount}
      BY <3>1 DEF ReadStep, Wait, Store, Fetch, Following, MailboxTypeOK
    <3> QED
      BY <3>3, <3>4 DEF MailboxTypeOK
  <2>2. CASE ~Read
    <3>1. Use \/ UNCHANGED mailbox
      BY <2>2 DEF Agon, Start, Hello, Header, DataPacket, CheckCrc, EndOfFile, EndOfBatch, Abort,
         Overflow, Command
    <3>2. <<>> \in Seq(0 .. 255)
      OBVIOUS
    <3>3. /\ taken' = <<>> \/ taken' = taken
          /\ UNCHANGED <<keyascii, vkeycount, keycount, at, seen>>
      BY <3>1 DEF Use, mailbox
    <3> QED
      BY <3>2, <3>3 DEF MailboxTypeOK
  <2> QED
    BY <2>1, <2>2
<1>3. UtilityTypeOK'
  BY DEF Agon, Start, Read, Hello, Header, DataPacket, CheckCrc, EndOfFile, EndOfBatch, Abort,
     Overflow, Command, Discard, agon, UtilityTypeOK
<1> QED
  BY <1>1, <1>2, <1>3

LEMMA TypesHold == Spec => []AllTypes
<1>1. Init => AllTypes
  BY DEF Init, MailboxInit, AllTypes, MailboxTypeOK, VdpTypeOK, UtilityTypeOK
<1>2. AllTypes /\ [Next]_vars => AllTypes'
  <2>1. AllTypes /\ UNCHANGED vars => AllTypes'
    BY DEF AllTypes, MailboxTypeOK, VdpTypeOK, UtilityTypeOK, vars, mailbox, agon, vdp
  <2> QED
    BY <2>1, AgonKeepsTypes, VdpKeepsTypes DEF Next
<1> QED
  BY <1>1, <1>2, PTL DEF Spec

\* The types of get_files and of the mailbox, for any batch: in particular the
\* unguarded decrement takes the count below zero in one case only, a check that
\* fails before any file was begun, and then get_files returns.
THEOREM TypeCorrect == Spec => []TypeOK
<1>1. AllTypes /\ Mailbox /\ Card => TypeOK
  BY DEF AllTypes, Mailbox, Types, Card, OpenIsThere, UtilityTypeOK, TypeOK
<1> QED
  BY <1>1, TypesHold, MailboxHolds, CardHolds, PTL

-----------------------------------------------------------------------------
(* Induction and iteration. *)

Smaller == {p \in Nat \X Nat : p[1] < p[2]}

LEMMA SmallerEnds == IsWellFoundedOn(Smaller, Nat)
  BY NatLessThanWellFounded DEF OpToRel, Smaller

LEMMA Induction ==
  ASSUME NEW T, 0 \in T, \A n \in Nat : n \in T => n + 1 \in T
  PROVE  \A n \in Nat : n \in T
<1> SUFFICES ASSUME NEW x \in Nat, x \notin T PROVE FALSE
  OBVIOUS
<1> DEFINE others == {n \in Nat : n \notin T}
<1>1. PICK d \in others : \A e \in others : ~(<<e, d>> \in Smaller)
  <2>1. others \subseteq Nat /\ others # {}
    OBVIOUS
  <2> HIDE DEF others
  <2> QED
    BY <2>1, SmallerEnds, WFMin
<1>2. d \in Nat /\ d \notin T /\ d # 0
  OBVIOUS
<1>3. d - 1 \in Nat
  BY <1>2
<1>4. d - 1 \in others
  BY <1>2, <1>3
<1>5. <<d - 1, d>> \in Smaller
  BY <1>2, <1>3 DEF Smaller
<1> QED
  BY <1>1, <1>4, <1>5

\* The steps of a loop, F[n] being what its n-th turn does.
IsRun(h, S, a, N, F) ==
  /\ h \in [0 .. N -> S] /\ h[0] = a
  /\ \A n \in 1 .. N : h[n] = F[n][h[n - 1]]

LEMMA Iteration ==
  ASSUME NEW S, NEW a \in S, NEW N \in Nat, NEW F \in [1 .. N -> [S -> S]]
  PROVE  \E h : IsRun(h, S, a, N, F)
<1> DEFINE Runs(n) == \E h \in [0 .. n -> S] : h[0] = a /\ \A k \in 1 .. n : h[k] = F[k][h[k - 1]]
           T == {n \in Nat : n <= N => Runs(n)}
<1>1. 0 \in T
  <2> DEFINE g == [k \in 0 .. 0 |-> a]
  <2>1. g \in [0 .. 0 -> S] /\ g[0] = a /\ \A k \in 1 .. 0 : g[k] = F[k][g[k - 1]]
    OBVIOUS
  <2> HIDE DEF g
  <2>2. Runs(0)
    BY <2>1
  <2> QED
    BY <2>2
<1>2. ASSUME NEW n \in Nat, n \in T PROVE n + 1 \in T
  <2> SUFFICES ASSUME n + 1 <= N PROVE Runs(n + 1)
    OBVIOUS
  <2>1. PICK h \in [0 .. n -> S] : h[0] = a /\ \A k \in 1 .. n : h[k] = F[k][h[k - 1]]
    BY <1>2
  <2> DEFINE g == [k \in 0 .. n + 1 |-> IF k <= n THEN h[k] ELSE F[n + 1][h[n]]]
  <2>2. F[n + 1] \in [S -> S] /\ h[n] \in S
    BY <1>2
  <2>3. g \in [0 .. n + 1 -> S] /\ g[0] = a
    BY <1>2, <2>1, <2>2
  <2>4. ASSUME NEW k \in 1 .. n + 1 PROVE g[k] = F[k][g[k - 1]]
    <3>1. CASE k <= n
      BY <2>1, <3>1
    <3>2. CASE ~(k <= n)
      <4>1. k = n + 1 /\ k - 1 = n
        BY <3>2
      <4> QED
        BY <4>1
    <3> QED
      BY <3>1, <3>2
  <2> QED
    BY <2>3, <2>4
<1>3. \A n \in Nat : n \in T
  <2> HIDE DEF T
  <2> QED
    BY <1>1, <1>2, Induction
<1> QED
  BY <1>3 DEF IsRun

-----------------------------------------------------------------------------
(* Integers, as the VDP sends and the utility reads them. *)

LEMMA Digit ==
  ASSUME NEW n \in Nat, NEW p \in Nat \ {0}
  PROVE  n % (256 * p) = (n % p) + ((n \div p) % 256) * p
<1> DEFINE q == n \div p
           r == n % p
           u == q \div 256
           s == q % 256
           d == 256 * p
<1>1. q \in Nat /\ r \in 0 .. p - 1 /\ n = q * p + r
  OBVIOUS
<1>2. u \in Nat /\ s \in 0 .. 255 /\ q = u * 256 + s
  BY <1>1
<1>3. \A m \in Nat, e \in Nat \ {0} : \A v \in 0 .. e - 1 : (m * e + v) % e = v
  OBVIOUS
<1> HIDE DEF q, r, u, s, d
<1>4. d \in Nat \ {0}
  BY DEF d
<1>5. s * p + r \in 0 .. d - 1
  <2>1. s * p \in Nat /\ (255 - s) * p \in Nat /\ (255 - s) * p = 255 * p - s * p
    BY <1>2
  <2> DEFINE x == s * p
  <2> HIDE DEF x
  <2>2. x \in Nat /\ 255 * p - x >= 0 /\ d = 255 * p + p
    BY <2>1 DEF x, d
  <2> QED
    BY <1>1, <1>4, <2>2 DEF x
<1>6. n = u * d + (s * p + r)
  <2>1. q * p = (u * 256) * p + s * p
    BY <1>2
  <2>2. (u * 256) * p = u * d
    BY <1>2 DEF d
  <2> DEFINE x == q * p
             y == s * p
             z == u * d
  <2>3. x \in Int /\ y \in Int /\ z \in Int /\ x = z + y /\ n = x + r
    BY <1>1, <1>2, <1>4, <2>1, <2>2
  <2> HIDE DEF x, y, z
  <2>4. n = z + (y + r)
    BY <1>1, <2>3
  <2> QED
    BY <2>4 DEF y, z
<1>7. n % d = s * p + r
  BY <1>2, <1>3, <1>4, <1>5, <1>6
<1> QED
  BY <1>1, <1>2, <1>7 DEF q, r, s, d

\* readint of a sequence of bytes.
IntAt(t, i) ==
  LET value[k \in 0 .. IntBytes] ==
        IF k = 0 THEN 0 ELSE value[k - 1] + t[i + k - 1] * 256 ^ (k - 1)
  IN  value[IntBytes]

LEMMA IntRead ==
  ASSUME NEW n \in Nat, NEW t, \A i \in 1 .. IntBytes : t[1 + i] = IntOf(n)[i]
  PROVE  IntAt(t, 2) = n % 256 ^ IntBytes
<1> DEFINE N == IntBytes
           D(w, k) == w + t[2 + k - 1] * 256 ^ (k - 1)
           F == [k \in 1 .. N |-> [w \in Nat |-> D(w, k)]]
           Is(g) == g = [k \in 0 .. N |-> IF k = 0 THEN 0 ELSE D(g[k - 1], k)]
<1>1. N \in Nat \ {0}
  BY AgonAssumption DEF AgonAssumption
<1>2. /\ 256 ^ 0 = 1 /\ \A k \in 0 .. N : 256 ^ k \in Nat \ {0}
      /\ \A k \in 1 .. N : 256 ^ k = 256 * 256 ^ (k - 1)
  BY PowersAssumption DEF PowersAssumption
<1>3. ASSUME NEW k \in 1 .. N
      PROVE  /\ k - 1 \in 0 .. N /\ k \in 0 .. N /\ k # 0 /\ 2 + k - 1 = 1 + k
             /\ t[2 + k - 1] = (n \div 256 ^ (k - 1)) % 256
             /\ t[2 + k - 1] \in Nat
  <2>1. k - 1 \in 0 .. N /\ k \in 0 .. N /\ k # 0 /\ 2 + k - 1 = 1 + k
    BY <1>1
  <2>2. t[1 + k] = (n \div 256 ^ (k - 1)) % 256
    BY DEF IntOf
  <2>3. \A m \in Nat \ {0} : (n \div m) % 256 \in Nat
    OBVIOUS
  <2>4. (n \div 256 ^ (k - 1)) % 256 \in Nat
    BY <1>2, <2>1, <2>3
  <2> QED
    BY <2>1, <2>2, <2>4
<1>4. ASSUME NEW k \in 1 .. N, NEW w \in Nat PROVE D(w, k) \in Nat
  BY <1>2, <1>3
<1> HIDE DEF N, D
<1>5. F \in [1 .. N -> [Nat -> Nat]]
  BY <1>4
<1>6. PICK h : IsRun(h, Nat, 0, N, F)
  <2> HIDE DEF F
  <2> QED
    BY <1>1, <1>5, Iteration
<1>7. h \in [0 .. N -> Nat] /\ h[0] = 0 /\ \A k \in 1 .. N : h[k] = D(h[k - 1], k)
  <2>1. h \in [0 .. N -> Nat] /\ h[0] = 0 /\ \A k \in 1 .. N : h[k] = F[k][h[k - 1]]
    BY <1>6 DEF IsRun
  <2>2. \A k \in 1 .. N : h[k - 1] \in Nat /\ F[k][h[k - 1]] = D(h[k - 1], k)
    BY <1>3, <2>1
  <2> QED
    BY <2>1, <2>2
<1>8. Is(h)
  BY <1>1, <1>3, <1>7
<1> DEFINE value == CHOOSE g : Is(g)
<1>9. Is(value)
  <2> HIDE DEF Is
  <2> QED
    BY <1>8
<1>10. IntAt(t, 2) = value[N]
  BY DEF IntAt, D, N
<1> HIDE DEF value
<1>11. \A k \in 0 .. N : value[k] = IF k = 0 THEN 0 ELSE D(value[k - 1], k)
  BY <1>9, Zenon
<1> DEFINE T == {k \in Nat : k <= N => value[k] = n % 256 ^ k}
<1>12. 0 \in T
  <2>1. n % 1 = 0 /\ 0 \in 0 .. N
    BY <1>1
  <2> QED
    BY <1>2, <1>11, <2>1
<1>13. ASSUME NEW k \in Nat, k \in T PROVE k + 1 \in T
  <2> SUFFICES ASSUME k + 1 <= N PROVE value[k + 1] = n % 256 ^ (k + 1)
    OBVIOUS
  <2> DEFINE j == k + 1
  <2>1. j \in 1 .. N /\ j - 1 = k /\ value[k] = n % 256 ^ k
    BY <1>1, <1>13
  <2> HIDE DEF j
  <2> DEFINE p == 256 ^ k
  <2>2. p \in Nat \ {0} /\ 256 ^ j = 256 * p
    BY <1>2, <1>3, <2>1
  <2>3. t[2 + j - 1] = (n \div p) % 256
    BY <1>3, <2>1
  <2>4. value[j] = D(value[k], j)
    BY <1>3, <1>11, <2>1
  <2>5. value[j] = value[k] + t[2 + j - 1] * p
    BY <2>1, <2>4 DEF D
  <2> HIDE DEF p
  <2>6. n % (256 * p) = (n % p) + ((n \div p) % 256) * p
    BY <2>2, Digit
  <2>7. value[j] = n % 256 ^ j
    BY <2>1, <2>2, <2>3, <2>5, <2>6 DEF p
  <2> QED
    BY <2>7 DEF j
<1>14. \A k \in Nat : k \in T
  <2> HIDE DEF T
  <2> QED
    BY <1>12, <1>13, Induction
<1>15. value[N] = n % 256 ^ N
  BY <1>1, <1>14
<1> QED
  BY <1>10, <1>15 DEF N

LEMMA SmallRest ==
  ASSUME NEW d \in Nat \ {0}, NEW m \in 0 .. d - 1
  PROVE  m % d = m
<1>1. \A q \in Nat, r \in 0 .. d - 1 : (q * d + r) % d = r
  OBVIOUS
<1>2. m = 0 * d + m
  OBVIOUS
<1> QED
  BY <1>1, <1>2

\* What an unsigned int holds a uint32_t holds.
LEMMA Widths ==
  /\ 256 ^ IntBytes \in Nat \ {0} /\ 256 ^ UintBytes \in Nat \ {0}
  /\ 256 ^ UintBytes <= 256 ^ IntBytes
<1> DEFINE T == {k \in Nat : UintBytes + k <= IntBytes => 256 ^ UintBytes <= 256 ^ (UintBytes + k)}
<1>1. IntBytes \in Nat \ {0} /\ UintBytes \in 1 .. IntBytes
  BY AgonAssumption DEF AgonAssumption
<1>2. /\ \A i \in 0 .. IntBytes : 256 ^ i \in Nat \ {0}
      /\ \A i \in 1 .. IntBytes : 256 ^ i = 256 * 256 ^ (i - 1)
  BY PowersAssumption DEF PowersAssumption
<1>3. 256 ^ IntBytes \in Nat \ {0} /\ 256 ^ UintBytes \in Nat \ {0}
  <2>1. IntBytes \in 0 .. IntBytes /\ UintBytes \in 0 .. IntBytes
    BY <1>1
  <2> QED
    BY <1>2, <2>1
<1>4. 0 \in T
  <2>1. UintBytes + 0 = UintBytes
    BY <1>1
  <2>2. 256 ^ (UintBytes + 0) = 256 ^ UintBytes
    BY <2>1
  <2> QED
    BY <1>3, <2>2
<1>5. ASSUME NEW k \in Nat, k \in T PROVE k + 1 \in T
  <2> SUFFICES ASSUME UintBytes + (k + 1) <= IntBytes
               PROVE  256 ^ UintBytes <= 256 ^ (UintBytes + (k + 1))
    OBVIOUS
  <2>1. PICK j : j = UintBytes + (k + 1)
    OBVIOUS
  <2>2. j \in 1 .. IntBytes /\ j - 1 \in 0 .. IntBytes /\ j - 1 = UintBytes + k
        /\ UintBytes + k <= IntBytes
    BY <1>1, <2>1
  <2>3. 256 ^ UintBytes <= 256 ^ (j - 1) /\ 256 ^ j = 256 * 256 ^ (j - 1)
        /\ 256 ^ (j - 1) \in Nat \ {0}
    BY <1>2, <1>5, <2>2
  <2> DEFINE a == 256 ^ UintBytes
             b == 256 ^ (j - 1)
             c == 256 ^ j
  <2>4. a \in Nat /\ b \in Nat /\ a <= b /\ c = 256 * b
    BY <1>3, <2>3
  <2> HIDE DEF a, b, c
  <2>5. a <= c
    BY <2>4
  <2> QED
    BY <2>1, <2>5 DEF a, c
<1>6. \A k \in Nat : k \in T
  <2> HIDE DEF T
  <2> QED
    BY <1>4, <1>5, Induction
<1>7. PICK k \in Nat : UintBytes + k = IntBytes
  <2>1. IntBytes - UintBytes \in Nat /\ UintBytes + (IntBytes - UintBytes) = IntBytes
    BY <1>1
  <2> QED
    BY <2>1
<1>8. UintBytes + k <= IntBytes
  BY <1>1, <1>7
<1>9. 256 ^ UintBytes <= 256 ^ (UintBytes + k)
  BY <1>6, <1>8
<1> QED
  BY <1>3, <1>7, <1>9

-----------------------------------------------------------------------------
(* What the VDP has said and the utility has not used up, while no byte was  *)
(* overrun.                                                                  *)

Pending == IF seen THEN <<>> ELSE <<keyascii>>
Flow == taken \o Pending \o unsent

LEMMA FlowParts ==
  ASSUME AllTypes
  PROVE  /\ taken \in Seq(Byte) /\ Pending \in Seq(Byte) /\ unsent \in Seq(Byte)
         /\ Flow \in Seq(Byte) /\ Pending \o unsent \in Seq(Byte)
         /\ Flow = taken \o (Pending \o unsent)
<1>1. taken \in Seq(Byte) /\ unsent \in Seq(Byte) /\ keyascii \in Byte
  BY DEF AllTypes, MailboxTypeOK, VdpTypeOK, Byte
<1> HIDE DEF Byte
<1>2. Pending \in Seq(Byte)
  BY <1>1 DEF Pending
<1> HIDE DEF Pending
<1>3. Flow = taken \o (Pending \o unsent)
  BY <1>1, <1>2, ConcatAssociative DEF Flow
<1> QED
  BY <1>1, <1>2, <1>3

LEMMA NothingSaid ==
  ASSUME AllTypes, Flow = <<>>
  PROVE  taken = <<>> /\ Pending = <<>> /\ unsent = <<>>
<1>1. /\ taken \in Seq(Byte) /\ Pending \in Seq(Byte) /\ unsent \in Seq(Byte)
      /\ Pending \o unsent \in Seq(Byte) /\ taken \o (Pending \o unsent) = <<>>
  BY FlowParts
<1> HIDE DEF Byte
<1>2. Len(taken) + Len(Pending \o unsent) = 0
  BY <1>1, ConcatProperties
<1>3. Len(Pending \o unsent) = Len(Pending) + Len(unsent)
  BY <1>1, ConcatProperties
<1>4. Len(taken) = 0 /\ Len(Pending) = 0 /\ Len(unsent) = 0
  BY <1>1, <1>2, <1>3
<1> QED
  BY <1>1, <1>4, EmptySeq

LEMMA SaidIsUnsent ==
  ASSUME taken' = <<>>, Pending' = <<>>, NEW c \in Seq(Byte), unsent' = c
  PROVE  Flow' = c
<1>1. <<>> \o <<>> = <<>> /\ <<>> \o c = c
  BY ConcatEmptySeq
<1> QED
  BY <1>1 DEF Flow

LEMMA InterruptKeepsFlow ==
  ASSUME AllTypes, Interrupt, overruns' = 0, overruns \in Nat
  PROVE  Flow' = Flow /\ UNCHANGED <<agon, phase, vfile, vpos, reply>>
<1>1. /\ unsent # <<>> /\ keyascii' = Head(unsent) /\ unsent' = Tail(unsent)
      /\ seen' = FALSE /\ taken' = taken
      /\ UNCHANGED <<agon, phase, vfile, vpos, reply>>
  BY DEF Interrupt, Put
<1>2. seen = TRUE
  BY DEF Interrupt, AllTypes, MailboxTypeOK
<1>3. taken \in Seq(Byte) /\ unsent \in Seq(Byte)
  BY FlowParts
<1> HIDE DEF Byte
<1>4. Head(unsent) \in Byte /\ Tail(unsent) \in Seq(Byte) /\ <<Head(unsent)>> \o Tail(unsent) = unsent
  BY <1>1, <1>3, HeadTailProperties
<1>5. Flow' = taken \o <<Head(unsent)>> \o Tail(unsent)
  BY <1>1 DEF Flow, Pending
<1>6. <<Head(unsent)>> \in Seq(Byte)
  BY <1>4
<1>7. taken \o <<Head(unsent)>> \o Tail(unsent) = taken \o unsent
  BY <1>3, <1>4, <1>6, ConcatAssociative
<1>8. Flow = taken \o unsent
  <2>1. taken \o <<>> = taken
    BY <1>3, ConcatEmptySeq
  <2> QED
    BY <1>2, <2>1 DEF Flow, Pending
<1> QED
  BY <1>1, <1>5, <1>7, <1>8

LEMMA ReadKeepsFlow ==
  ASSUME AllTypes, Mailbox, Read, overruns' = 0
  PROVE  Flow' = Flow /\ UNCHANGED <<agon, phase, vfile, vpos, reply>>
<1>1. UNCHANGED <<agon, phase, vfile, vpos, unsent, overruns, reply>> /\ ReadStep
  BY DEF Read, vdp
<1>2. CASE Wait \/ Store
  <2>1. UNCHANGED <<taken, seen, keyascii>>
    BY <1>2 DEF Wait, Store
  <2> QED
    BY <1>1, <2>1 DEF Flow, Pending
<1>3. CASE Fetch
  <2>1. at = "fetch" /\ taken' = Append(taken, keyascii) /\ seen' = TRUE
    BY <1>3 DEF Fetch
  <2>2. seen = FALSE
    BY <1>1, <2>1 DEF Mailbox, Behind, Types
  <2>3. taken \in Seq(Byte) /\ unsent \in Seq(Byte) /\ keyascii \in Byte
    BY FlowParts DEF AllTypes, MailboxTypeOK, Byte
  <2> HIDE DEF Byte
  <2>4. Append(taken, keyascii) = taken \o <<keyascii>> /\ Append(taken, keyascii) \in Seq(Byte)
    BY <2>3, AppendIsConcat
  <2>5. Append(taken, keyascii) \o <<>> = Append(taken, keyascii)
    BY <2>4, ConcatEmptySeq
  <2>6. Flow' = Append(taken, keyascii) \o <<>> \o unsent
    BY <1>1, <2>1 DEF Flow, Pending
  <2>7. Flow = taken \o <<keyascii>> \o unsent
    BY <2>2 DEF Flow, Pending
  <2> QED
    BY <1>1, <2>4, <2>5, <2>6, <2>7
<1> QED
  BY <1>1, <1>2, <1>3 DEF ReadStep

-----------------------------------------------------------------------------
(* A command that is complete is all that was said. *)

LEMMA PartIsAll ==
  ASSUME AllTypes, Len(taken) = Len(Flow)
  PROVE  taken = Flow /\ Pending = <<>> /\ unsent = <<>>
<1> DEFINE r == Pending \o unsent
<1>1. /\ taken \in Seq(Byte) /\ Pending \in Seq(Byte) /\ unsent \in Seq(Byte)
      /\ r \in Seq(Byte) /\ Flow = taken \o r
  BY FlowParts
<1> HIDE DEF Byte
<1>2. Len(r) = Len(Pending) + Len(unsent)
  BY <1>1, ConcatProperties
<1> HIDE DEF r
<1>3. Len(taken) + Len(r) = Len(taken)
  BY <1>1, ConcatProperties
<1>4. Len(r) = 0 /\ Len(Pending) = 0 /\ Len(unsent) = 0
  BY <1>1, <1>2, <1>3
<1>5. r = <<>> /\ Pending = <<>> /\ unsent = <<>>
  BY <1>1, <1>4, EmptySeq
<1>6. taken \o <<>> = taken
  BY <1>1, ConcatEmptySeq
<1> QED
  BY <1>1, <1>5, <1>6

\* The length of a command with the code and the integer behind it.
SizeFor(code, m) ==
  CASE code = 1 -> 1 + 2 * IntBytes + m
    [] code = 2 -> 1 + IntBytes + m
    [] code = 3 -> 1 + IntBytes
    [] OTHER -> 1

IsCommand(c, code, m) ==
  /\ c \in Seq(Byte) /\ code \in Byte /\ m \in Nat
  /\ Len(c) = SizeFor(code, m) /\ c[1] = code
  /\ code \in {1, 2, 3} => \A i \in 1 .. IntBytes : c[1 + i] = IntOf(m)[i]
  /\ code \in {1, 2} => m # 0 /\ m < 256 ^ UintBytes

LEMMA StartOfFlow ==
  ASSUME AllTypes
  PROVE  /\ Len(taken) \in Nat /\ Len(Flow) \in Nat /\ Len(taken) <= Len(Flow)
         /\ \A i \in 1 .. Len(taken) : taken[i] = Flow[i]
<1>1. /\ taken \in Seq(Byte) /\ Pending \o unsent \in Seq(Byte) /\ Flow \in Seq(Byte)
      /\ Flow = taken \o (Pending \o unsent)
  BY FlowParts
<1> HIDE DEF Byte
<1> DEFINE r == Pending \o unsent
<1>2. r \in Seq(Byte) /\ Flow = taken \o r
  BY <1>1
<1> HIDE DEF r
<1>3. Len(Flow) = Len(taken) + Len(r) /\ \A i \in 1 .. Len(taken) : Flow[i] = taken[i]
  BY <1>1, <1>2, ConcatProperties
<1> QED
  BY <1>1, <1>2, <1>3

\* What get_files makes of a command of which it has the code and the integer.
LEMMA BeginningRead ==
  ASSUME AllTypes, taken # <<>>, NEW code, NEW m, IsCommand(Flow, code, m)
  PROVE  /\ taken[1] = code
         /\ code \in {1, 2, 3} /\ Len(taken) >= 1 + IntBytes => ReadInt(2) = m % 256 ^ IntBytes
         /\ code \in {1, 2} /\ Len(taken) >= 1 + IntBytes => Length = m /\ Block(Length) = m
<1>1. /\ Len(taken) \in Nat /\ Len(Flow) \in Nat /\ Len(taken) <= Len(Flow)
      /\ \A i \in 1 .. Len(taken) : taken[i] = Flow[i]
  BY StartOfFlow
<1>2. taken \in Seq(Byte) /\ taken # <<>> /\ IntBytes \in Nat
  BY FlowParts, AgonAssumption DEF AgonAssumption
<1>3. Len(taken) > 0
  BY <1>2, EmptySeq
<1>4. /\ taken[1] = code /\ m \in Nat
      /\ code \in {1, 2, 3} => \A i \in 1 .. IntBytes : Flow[1 + i] = IntOf(m)[i]
      /\ code \in {1, 2} => m # 0 /\ m < 256 ^ UintBytes
  BY <1>1, <1>3 DEF IsCommand
<1>5. ASSUME code \in {1, 2, 3}, Len(taken) >= 1 + IntBytes
      PROVE  ReadInt(2) = m % 256 ^ IntBytes
  <2>1. \A i \in 1 .. IntBytes : 1 + i \in 1 .. Len(taken)
    BY <1>1, <1>2, <1>5
  <2>2. \A i \in 1 .. IntBytes : taken[1 + i] = IntOf(m)[i]
    BY <1>1, <1>4, <1>5, <2>1
  <2>3. IntAt(taken, 2) = m % 256 ^ IntBytes
    BY <1>4, <2>2, IntRead
  <2> QED
    BY <2>3 DEF IntAt, ReadInt
<1>6. ASSUME code \in {1, 2}, Len(taken) >= 1 + IntBytes PROVE Length = m /\ Block(Length) = m
  <2> DEFINE d == 256 ^ IntBytes
             e == 256 ^ UintBytes
  <2>1. d \in Nat \ {0} /\ e \in Nat \ {0} /\ e <= d
    BY Widths
  <2>2. Length = (m % d) % e
    BY <1>5, <1>6 DEF Length
  <2>3. m < e
    BY <1>4, <1>6
  <2> HIDE DEF d, e
  <2>4. m \in 0 .. d - 1 /\ m \in 0 .. e - 1
    BY <1>4, <2>1, <2>3
  <2>5. m % d = m /\ m % e = m
    BY <2>1, <2>4, SmallRest
  <2>6. Length = m
    BY <2>2, <2>5
  <2> QED
    BY <1>4, <1>6, <2>6 DEF Block
<1> QED
  BY <1>4, <1>5, <1>6

LEMMA WholeCommand ==
  ASSUME AllTypes, Complete, NEW code, NEW m, IsCommand(Flow, code, m)
  PROVE  /\ taken = Flow /\ taken[1] = code /\ Pending = <<>> /\ unsent = <<>>
         /\ code \in {1, 2} => Length = m
         /\ code = 3 => ReadInt(2) = m % 256 ^ IntBytes
<1>1. Len(taken) \in Nat /\ IntBytes \in Nat /\ taken # <<>>
  BY StartOfFlow, AgonAssumption DEF Complete, AgonAssumption
<1>2. /\ taken[1] = code
      /\ code \in {1, 2, 3} /\ Len(taken) >= 1 + IntBytes => ReadInt(2) = m % 256 ^ IntBytes
      /\ code \in {1, 2} /\ Len(taken) >= 1 + IntBytes => Length = m /\ Block(Length) = m
  BY <1>1, BeginningRead
<1>3. code \in {1, 2} => Len(taken) >= 1 + IntBytes
  BY <1>1, <1>2 DEF Complete, LengthRead
<1>4. CommandSize = SizeFor(code, m)
  <2>1. CASE code \in {1, 2}
    BY <1>2, <1>3, <2>1 DEF CommandSize, SizeFor
  <2>2. CASE code \notin {1, 2}
    BY <1>2, <2>2 DEF CommandSize, SizeFor
  <2> QED
    BY <2>1, <2>2
<1>5. Len(taken) = Len(Flow)
  BY <1>4 DEF Complete, IsCommand
<1>6. taken = Flow /\ Pending = <<>> /\ unsent = <<>>
  BY <1>5, PartIsAll
<1>7. code = 3 => Len(taken) >= 1 + IntBytes
  BY <1>1, <1>4 DEF Complete, SizeFor
<1> QED
  BY <1>2, <1>3, <1>6, <1>7

-----------------------------------------------------------------------------
(* The conversation while no byte is overrun.  The VDP has said nothing that *)
(* was not taken, or one command, and what the utility holds then is told by *)
(* how far the VDP is.                                                       *)

File == [filename : Seq(Byte), data : Seq(Byte)]
Filename == Batch[vfile].filename

\* No two of the files are one, wherever they go.
Distinct ==
  \A d \in Dirs : \A i, j \in DOMAIN Batch :
    Resolve(d \o Batch[i].filename) = Resolve(d \o Batch[j].filename) => i = j

HeaderCommand == <<1>> \o IntOf(Len(Filename)) \o Filename \o IntOf(Len(Data))
DataCommand(packet) == <<2>> \o IntOf(Len(packet)) \o packet
CheckCommand == <<3>> \o IntOf(Crc(Data))

\* What was verified is the batch, up to somewhere.
Verified ==
  /\ verified \in Seq(File) /\ Len(verified) <= Len(Batch)
  /\ \A i \in 1 .. Len(verified) : verified[i] = Batch[i]

Begun == {InDir(Batch[i].filename) : i \in 1 .. filenumber}

\* Before get_files returns: the card has the files announced, and all but the
\* last are verified.
Shelf ==
  /\ Verified
  /\ filenumber \in 0 .. Len(Batch)
  /\ filenumber > 0 => filename = Batch[filenumber].filename
  /\ names = {Batch[i].filename : i \in 1 .. filenumber}
  /\ ~failed => \A path \in Session :
       IsVerified(path) \/ (path = InDir(filename) /\ Len(verified) < filenumber)
  /\ ~failed => Session = Begun

\* Afterwards: the one that failed is gone, if its name means the same with and
\* without the directory.
ShelfLeft ==
  /\ Verified
  /\ ~failed => \A path \in Session : IsVerified(path) \/ path = InDir(filename)
  /\ ~failed /\ (DeletesItsOwn \/ phase = "ended") =>
       /\ \A path \in Session : IsVerified(path)
       /\ filenumber \in 0 .. Len(Batch)
       /\ Distinct => Session = Begun
  /\ phase = "ended" => filenumber = Len(Batch)

\* As many files are announced as are verified.
Even(count) == filenumber = count /\ Len(verified) = count

\* One more is, and the first m bytes of it are there.
Held(m) ==
  /\ vfile <= Len(Batch) /\ filenumber = vfile /\ Len(verified) = vfile - 1
  /\ m \in 0 .. Len(Data) /\ crc = SubSeq(Data, 1, m)
  /\ ~failed => /\ open = InDir(filename) /\ open # NoPath
                /\ open \in DOMAIN disk /\ disk[open] = SubSeq(Data, 1, m)

Idle == Flow = <<>>
Said(command) == Flow = command /\ reply = "none"

Silent ==
  \/ pc = "start" /\ Idle /\ reply = "none" /\ phase = "hello" /\ vfile = 1 /\ Even(0)
  \/ pc = "returned" /\ Idle /\ reply = "none" /\ phase \in {"ended", "silent"}

Answered ==
  \/ pc = "hello" /\ Idle /\ reply = "YMODEM_RECEIVE" /\ phase = "hello" /\ vfile = 1 /\ Even(0)
  \/ pc = "commands" /\ Idle /\ reply \in {"S1", "S2"} /\ phase = "data" /\ Held(vpos)
  \/ pc = "commands" /\ Idle /\ reply = "SV" /\ phase = "eof" /\ vfile <= Len(Batch) /\ Even(vfile)
  \/ /\ pc = "commands" /\ Idle /\ reply \in {"S4", "ready"} /\ phase = "header"
     /\ vfile <= Len(Batch) + 1 /\ Even(vfile - 1)

Greeted ==
  \/ pc = "hello" /\ Said(<<67>>) /\ phase = "header" /\ vfile = 1 /\ Even(0)
  \/ pc = "hello" /\ Said(<<0>>) /\ phase = "silent" /\ Even(0)

HeaderSaid ==
  /\ pc = "commands" /\ phase = "data" /\ vpos = 0
  /\ vfile <= Len(Batch) /\ Even(vfile - 1) /\ Said(HeaderCommand)

DataSaid ==
  /\ pc = "commands" /\ phase = "data"
  /\ \E m \in 0 .. Len(Data) :
       /\ m < vpos /\ vpos <= m + Packet /\ vpos <= Len(Data)
       /\ Held(m) /\ Said(DataCommand(SubSeq(Data, m + 1, vpos)))

CheckSaid == pc = "commands" /\ phase = "eof" /\ Held(Len(Data)) /\ Said(CheckCommand)

EofSaid ==
  /\ pc = "commands" /\ Said(<<4>>)
  /\ phase = "header" /\ vfile <= Len(Batch) + 1 /\ Even(vfile - 1)

EndSaid == pc = "commands" /\ Said(<<0>>) /\ phase = "ended" /\ Even(Len(Batch))

AbortSaid == pc = "commands" /\ Said(<<255>>) /\ phase = "silent"

Stage ==
  \/ Silent \/ Answered \/ Greeted
  \/ HeaderSaid \/ DataSaid \/ CheckSaid \/ EofSaid \/ EndSaid \/ AbortSaid

-----------------------------------------------------------------------------
(* The commands, as they are sent and as they are read. *)

LEMMA IntegerLength ==
  ASSUME NEW n \in Nat
  PROVE  IntOf(n) \in Seq(Byte) /\ Len(IntOf(n)) = IntBytes /\ IntBytes \in Nat
<1>1. IntOf(n) \in Seq(Byte) /\ IntBytes \in Nat
  BY IntegersAreBytes, AgonAssumption DEF AgonAssumption
<1>2. DOMAIN IntOf(n) = 1 .. IntBytes
  BY DEF IntOf
<1>3. DOMAIN IntOf(n) = 1 .. Len(IntOf(n)) /\ Len(IntOf(n)) \in Nat
  <2> HIDE DEF Byte
  <2> QED
    BY <1>1, LenProperties
<1> QED
  BY <1>1, <1>2, <1>3

\* A code and an integer.
LEMMA CodeAndInteger ==
  ASSUME NEW code \in Byte, NEW n \in Nat
  PROVE  LET c == <<code>> \o IntOf(n)
         IN  /\ c \in Seq(Byte) /\ Len(c) = 1 + IntBytes /\ c[1] = code
             /\ \A i \in 1 .. IntBytes : c[1 + i] = IntOf(n)[i]
<1> DEFINE k == <<code>>
           t == IntOf(n)
<1>1. k \in Seq(Byte) /\ Len(k) = 1 /\ k[1] = code
  <2> HIDE DEF Byte
  <2> QED
    OBVIOUS
<1>2. t \in Seq(Byte) /\ Len(t) = IntBytes /\ IntBytes \in Nat
  BY IntegerLength
<1> HIDE DEF k, t, Byte
<1>3. /\ k \o t \in Seq(Byte) /\ Len(k \o t) = Len(k) + Len(t)
      /\ \A i \in 1 .. Len(k) + Len(t) : (k \o t)[i] = IF i <= Len(k) THEN k[i] ELSE t[i - Len(k)]
  BY <1>1, <1>2, ConcatProperties
<1> DEFINE c == k \o t
<1>4. /\ c \in Seq(Byte) /\ Len(c) = 1 + IntBytes
      /\ \A i \in 1 .. 1 + IntBytes : c[i] = IF i <= 1 THEN k[i] ELSE t[i - 1]
  BY <1>1, <1>2, <1>3
<1> HIDE DEF c
<1>5. c[1] = code
  BY <1>1, <1>2, <1>4
<1>6. \A i \in 1 .. IntBytes : c[1 + i] = t[i]
  <2> TAKE i \in 1 .. IntBytes
  <2>1. 1 + i \in 1 .. 1 + IntBytes /\ ~(1 + i <= 1) /\ (1 + i) - 1 = i
    BY <1>2
  <2> QED
    BY <1>4, <2>1
<1> QED
  BY <1>4, <1>5, <1>6 DEF c, k, t

\* What follows does not change how a command begins.
LEMMA BeginningKept ==
  ASSUME NEW code \in Byte, NEW n \in Nat, NEW s \in Seq(Byte)
  PROVE  LET c == <<code>> \o IntOf(n) \o s
         IN  /\ c \in Seq(Byte) /\ Len(c) = 1 + IntBytes + Len(s) /\ c[1] = code
             /\ \A i \in 1 .. IntBytes : c[1 + i] = IntOf(n)[i]
             /\ s # <<>> => SubSeq(c, NameAt, NameAt + Len(s) - 1) = s
<1> DEFINE b == <<code>> \o IntOf(n)
<1>1. /\ b \in Seq(Byte) /\ Len(b) = 1 + IntBytes /\ b[1] = code /\ IntBytes \in Nat
      /\ \A i \in 1 .. IntBytes : b[1 + i] = IntOf(n)[i]
  BY CodeAndInteger, IntegerLength
<1> HIDE DEF b, Byte
<1> DEFINE c == b \o s
<1>2. /\ b \o s \in Seq(Byte) /\ Len(b \o s) = Len(b) + Len(s)
      /\ \A i \in 1 .. Len(b) + Len(s) : (b \o s)[i] = IF i <= Len(b) THEN b[i] ELSE s[i - Len(b)]
  BY <1>1, ConcatProperties
<1>2a. Len(s) \in Nat
  BY LenProperties
<1>3. s # <<>> => SubSeq(c, NameAt, NameAt + Len(s) - 1) = s
  <2> SUFFICES ASSUME s # <<>> PROVE SubSeq(c, NameAt, NameAt + Len(s) - 1) = s
    OBVIOUS
  <2>1. Len(s) \in Nat \ {0}
    BY EmptySeq
  <2>2. /\ NameAt \in Len(b) + 1 .. Len(b) + Len(s)
        /\ NameAt + Len(s) - 1 \in Len(b) + 1 .. Len(b) + Len(s)
        /\ NameAt - Len(b) = 1 /\ (NameAt + Len(s) - 1) - Len(b) = Len(s)
    BY <1>1, <2>1 DEF NameAt
  <2>3. SubSeq(c, NameAt, NameAt + Len(s) - 1)
          = SubSeq(s, NameAt - Len(b), (NameAt + Len(s) - 1) - Len(b))
    BY <1>1, <2>2, SubSeqOfConcat2 DEF c
  <2> QED
    BY <2>2, <2>3, SubSeqFull
<1> HIDE DEF c
<1>2b. /\ c \in Seq(Byte) /\ Len(c) = Len(b) + Len(s)
       /\ \A i \in 1 .. Len(b) + Len(s) : c[i] = IF i <= Len(b) THEN b[i] ELSE s[i - Len(b)]
  BY <1>2 DEF c
<1>4. c[1] = code
  BY <1>1, <1>2a, <1>2b
<1>5. \A i \in 1 .. IntBytes : c[1 + i] = IntOf(n)[i]
  <2> TAKE i \in 1 .. IntBytes
  <2>1. 1 + i \in 1 .. Len(b) + Len(s) /\ 1 + i <= Len(b)
    BY <1>1, <1>2a
  <2> QED
    BY <1>1, <1>2b, <2>1
<1> QED
  BY <1>1, <1>2b, <1>3, <1>4, <1>5 DEF b, c

LEMMA OneByteCommand ==
  ASSUME NEW code \in Byte \ {1, 2, 3}
  PROVE  IsCommand(<<code>>, code, 0)
  BY DEF IsCommand, SizeFor, Byte

LEMMA CheckIsCommand ==
  ASSUME NEW n \in Nat
  PROVE  IsCommand(<<3>> \o IntOf(n), 3, n)
<1>1. 3 \in Byte
  BY DEF Byte
<1> DEFINE c == <<3>> \o IntOf(n)
<1>2. /\ c \in Seq(Byte) /\ Len(c) = 1 + IntBytes /\ c[1] = 3
      /\ \A i \in 1 .. IntBytes : c[1 + i] = IntOf(n)[i]
  <2> HIDE DEF Byte
  <2> QED
    BY <1>1, CodeAndInteger
<1> HIDE DEF c, Byte
<1>3. IsCommand(c, 3, n)
  BY <1>1, <1>2 DEF IsCommand, SizeFor
<1> QED
  BY <1>3 DEF c

LEMMA DataIsCommand ==
  ASSUME NEW s \in Seq(Byte), s # <<>>, Len(s) < 256 ^ UintBytes
  PROVE  /\ IsCommand(DataCommand(s), 2, Len(s))
         /\ Len(DataCommand(s)) = NameAt + Len(s) - 1
         /\ SubSeq(DataCommand(s), NameAt, NameAt + Len(s) - 1) = s
<1>1. 2 \in Byte
  BY DEF Byte
<1>2. Len(s) \in Nat \ {0} /\ IntBytes \in Nat
  BY EmptySeq, AgonAssumption DEF AgonAssumption
<1> HIDE DEF Byte
<1> DEFINE c == <<2>> \o IntOf(Len(s)) \o s
<1>3. /\ c \in Seq(Byte) /\ Len(c) = 1 + IntBytes + Len(s) /\ c[1] = 2
      /\ \A i \in 1 .. IntBytes : c[1 + i] = IntOf(Len(s))[i]
      /\ SubSeq(c, NameAt, NameAt + Len(s) - 1) = s
  BY <1>1, <1>2, BeginningKept
<1>4. c = DataCommand(s)
  BY DEF DataCommand
<1> HIDE DEF c
<1>5. IsCommand(c, 2, Len(s))
  BY <1>1, <1>2, <1>3 DEF IsCommand, SizeFor
<1>6. Len(c) = NameAt + Len(s) - 1
  BY <1>2, <1>3 DEF NameAt
<1> QED
  BY <1>3, <1>4, <1>5, <1>6

LEMMA HeaderIsCommand ==
  ASSUME NEW name \in Seq(Byte), name # <<>>, Len(name) < 256 ^ UintBytes, NEW n \in Nat
  PROVE  LET c == <<1>> \o IntOf(Len(name)) \o name \o IntOf(n)
         IN  IsCommand(c, 1, Len(name)) /\ SubSeq(c, NameAt, NameAt + Len(name) - 1) = name
<1>1. 1 \in Byte
  BY DEF Byte
<1>2. Len(name) \in Nat \ {0} /\ IntBytes \in Nat
  BY EmptySeq, AgonAssumption DEF AgonAssumption
<1> DEFINE b == <<1>> \o IntOf(Len(name)) \o name
           t == IntOf(n)
<1> HIDE DEF Byte
<1>3. /\ b \in Seq(Byte) /\ Len(b) = 1 + IntBytes + Len(name) /\ b[1] = 1
      /\ \A i \in 1 .. IntBytes : b[1 + i] = IntOf(Len(name))[i]
      /\ SubSeq(b, NameAt, NameAt + Len(name) - 1) = name
  BY <1>1, <1>2, BeginningKept
<1>4. t \in Seq(Byte) /\ Len(t) = IntBytes
  BY IntegerLength
<1> HIDE DEF b, t
<1> DEFINE c == b \o t
<1>5a. /\ b \o t \in Seq(Byte) /\ Len(b \o t) = Len(b) + Len(t)
      /\ \A i \in 1 .. Len(b) + Len(t) : (b \o t)[i] = IF i <= Len(b) THEN b[i] ELSE t[i - Len(b)]
  <2>1. b \in Seq(Byte) /\ t \in Seq(Byte)
    BY <1>3, <1>4
  <2> QED
    BY <2>1, ConcatProperties
<1>6. SubSeq(c, NameAt, NameAt + Len(name) - 1) = name
  <2>1. NameAt \in 1 .. Len(b) /\ NameAt + Len(name) - 1 \in 1 .. Len(b)
    BY <1>2, <1>3 DEF NameAt
  <2> QED
    BY <1>3, <1>4, <2>1, SubSeqOfConcat1 DEF c
<1> HIDE DEF c
<1>5. /\ c \in Seq(Byte) /\ Len(c) = Len(b) + Len(t)
      /\ \A i \in 1 .. Len(b) + Len(t) : c[i] = IF i <= Len(b) THEN b[i] ELSE t[i - Len(b)]
  BY <1>5a DEF c
<1>7. c[1] = 1 /\ Len(c) = 1 + 2 * IntBytes + Len(name)
  BY <1>2, <1>3, <1>4, <1>5
<1>8. \A i \in 1 .. IntBytes : c[1 + i] = IntOf(Len(name))[i]
  <2> TAKE i \in 1 .. IntBytes
  <2>1. 1 + i \in 1 .. Len(b) + Len(t) /\ 1 + i <= Len(b)
    BY <1>2, <1>3, <1>4
  <2> QED
    BY <1>3, <1>5, <2>1
<1>9. IsCommand(c, 1, Len(name))
  <2>1. Len(c) = SizeFor(1, Len(name))
    BY <1>7 DEF SizeFor
  <2> QED
    BY <1>1, <1>2, <1>5, <1>7, <1>8, <2>1 DEF IsCommand
<1> QED
  BY <1>6, <1>9 DEF b, c, t

-----------------------------------------------------------------------------
(* The VDP speaks when it was answered. *)

LEMMA SayMoves ==
  ASSUME AllTypes, Stage, NEW c \in Seq(Byte), Say(c)
  PROVE  /\ Answered
         /\ Flow' = c /\ reply' = "none" /\ UNCHANGED agon
<1>1. reply # "none" /\ reply' = "none" /\ UNCHANGED <<mailbox, agon>> /\ unsent' = c
  BY DEF Say
<1>2. Answered
  BY <1>1 DEF Stage, Silent, Greeted, HeaderSaid, DataSaid, CheckSaid, EofSaid, EndSaid, AbortSaid,
     Said
<1>3. taken = <<>> /\ Pending = <<>>
  BY <1>2, NothingSaid DEF Answered, Idle
<1>4. taken' = <<>> /\ Pending' = <<>>
  BY <1>1, <1>3 DEF Pending, mailbox
<1>5. Flow' = c
  BY <1>1, <1>4, SaidIsUnsent
<1> QED
  BY <1>1, <1>2, <1>5

LEMMA SayKeepsTalk ==
  ASSUME AllTypes, Stage, Vdp, ~Interrupt
  PROVE  Stage' /\ UNCHANGED agon /\ pc # "returned"
<1> USE DEF agon
<1>1. CASE SayHello
  <2>1. PICK ready \in BOOLEAN :
          /\ Say(IF ready THEN <<67>> ELSE <<0>>)
          /\ phase' = IF ready THEN "header" ELSE "silent"
    BY <1>1 DEF SayHello
  <2>2. (IF ready THEN <<67>> ELSE <<0>>) \in Seq(Byte)
    BY OneByte
  <2>3. Answered /\ Flow' = (IF ready THEN <<67>> ELSE <<0>>) /\ reply' = "none" /\ UNCHANGED agon
    <3> DEFINE c == IF ready THEN <<67>> ELSE <<0>>
    <3>1. c \in Seq(Byte) /\ Say(c)
      BY <2>1, <2>2
    <3> HIDE DEF c
    <3>2. Answered /\ Flow' = c /\ reply' = "none" /\ UNCHANGED agon
      BY <3>1, SayMoves
    <3> QED
      BY <3>2 DEF c
  <2>4. pc = "hello" /\ vfile = 1 /\ Even(0) /\ vfile' = vfile
    BY <1>1, <2>3 DEF Answered, SayHello
  <2>5. Greeted'
    BY <2>1, <2>3, <2>4 DEF Greeted, Said, Even
  <2> QED
    BY <2>3, <2>4, <2>5 DEF Stage
<1>2. CASE SayHeader
  <2>1. Say(HeaderCommand) /\ UNCHANGED vfile /\ phase = "header" /\ phase' = "data" /\ vpos' = 0
        /\ vfile <= Len(Batch)
    BY <1>2 DEF SayHeader, HeaderCommand, Filename
  <2>2. HeaderCommand \in Seq(Byte)
    <3>1. <<1>> \in Seq(Byte)
      BY OneByte
    <3>2. Filename \in Seq(Byte) /\ IntOf(Len(Filename)) \in Seq(Byte) /\ IntOf(Len(Data)) \in Seq(Byte)
      BY <2>1, FileIsBytes, IntegersAreBytes DEF AllTypes, Filename
    <3> HIDE DEF Byte
    <3> QED
      BY <3>1, <3>2 DEF HeaderCommand
  <2>3. Answered /\ Flow' = HeaderCommand /\ reply' = "none" /\ UNCHANGED agon
    BY <2>1, <2>2, SayMoves
  <2>4. pc = "commands" /\ Even(vfile - 1)
    BY <2>1, <2>3 DEF Answered
  <2>5. HeaderCommand' = HeaderCommand
    BY <2>1 DEF HeaderCommand, Filename, Data
  <2>6. HeaderSaid'
    BY <2>1, <2>3, <2>4, <2>5 DEF HeaderSaid, Said, Even
  <2> QED
    BY <2>3, <2>4, <2>6 DEF Stage
<1>3. CASE SayData
  <2> DEFINE end == IF vpos + Packet < Len(Data) THEN vpos + Packet ELSE Len(Data)
  <2>1. Say(DataCommand(Slice)) /\ UNCHANGED <<vfile, phase>> /\ phase = "data" /\ vpos < Len(Data)
        /\ vpos' = vpos + Len(Slice) /\ Slice = SubSeq(Data, vpos + 1, end)
    BY <1>3 DEF SayData, DataCommand, Slice
  <2>2. /\ Data \in Seq(Byte) /\ Len(Data) \in Nat /\ vpos \in Nat /\ Packet \in Nat \ {0}
    BY <2>1, FileIsBytes, AgonAssumption DEF AllTypes, VdpTypeOK, AgonAssumption
  <2>3. end \in Nat /\ vpos < end /\ end <= Len(Data) /\ end <= vpos + Packet
    BY <2>1, <2>2
  <2> HIDE DEF end
  <2>4. Slice \in Seq(Byte) /\ Len(Slice) = end - vpos
    <3>1. \A i \in vpos + 1 .. end : i \in 1 .. Len(Data)
      BY <2>2, <2>3
    <3>2. \A i \in vpos + 1 .. end : Data[i] \in Byte
      <4> HIDE DEF Byte
      <4> QED
        BY <2>2, <3>1, ElementOfSeq
    <3>3. vpos + 1 \in Int /\ end \in Int /\ vpos + 1 <= end /\ end - (vpos + 1) + 1 = end - vpos
      BY <2>2, <2>3
    <3> HIDE DEF Byte
    <3> QED
      BY <2>1, <3>2, <3>3, SubSeqProperties
  <2>5. vpos' = end
    BY <2>1, <2>2, <2>3, <2>4
  <2>6. DataCommand(Slice) \in Seq(Byte)
    <3>1. <<2>> \in Seq(Byte)
      BY OneByte
    <3>2. IntOf(Len(Slice)) \in Seq(Byte)
      <4>1. Len(Slice) \in Nat
        BY <2>2, <2>3, <2>4
      <4> QED
        BY <4>1, IntegersAreBytes
    <3> HIDE DEF Byte
    <3> QED
      BY <2>4, <3>1, <3>2 DEF DataCommand
  <2>7. Answered /\ Flow' = DataCommand(Slice) /\ reply' = "none" /\ UNCHANGED agon
    BY <2>1, <2>6, SayMoves
  <2>8. PICK m : m = vpos
    OBVIOUS
  <2>9. pc = "commands" /\ Held(m)
    BY <2>1, <2>7, <2>8 DEF Answered
  <2>10. m \in 0 .. Len(Data) /\ m < vpos' /\ vpos' <= m + Packet /\ vpos' <= Len(Data)
         /\ Flow' = DataCommand(SubSeq(Data, m + 1, vpos'))
    BY <2>1, <2>2, <2>3, <2>5, <2>7, <2>8
  <2>11. Data' = Data
    BY <2>1 DEF Data
  <2>12. Held(m)'
    BY <2>1, <2>7, <2>9, <2>11 DEF Held, InDir
  <2>13. Said(DataCommand(SubSeq(Data, m + 1, vpos)))'
    BY <2>7, <2>10, <2>11 DEF Said, DataCommand
  <2>14. DataSaid'
    BY <2>1, <2>7, <2>9, <2>10, <2>11, <2>12, <2>13 DEF DataSaid
  <2> QED
    BY <2>7, <2>9, <2>14 DEF Stage
<1>4. CASE SayCheck
  <2>1. Say(CheckCommand) /\ phase = "data" /\ vpos = Len(Data) /\ phase' = "eof"
        /\ UNCHANGED <<vfile, vpos>>
    BY <1>4 DEF SayCheck, CheckCommand
  <2>2. CheckCommand \in Seq(Byte)
    <3>1. <<3>> \in Seq(Byte)
      BY OneByte
    <3>2. IntOf(Crc(Data)) \in Seq(Byte)
      BY <2>1, FileIsBytes, IntegersAreBytes DEF AllTypes, VdpTypeOK
    <3> HIDE DEF Byte
    <3> QED
      BY <3>1, <3>2 DEF CheckCommand
  <2>3. Answered /\ Flow' = CheckCommand /\ reply' = "none" /\ UNCHANGED agon
    BY <2>1, <2>2, SayMoves
  <2>4. pc = "commands" /\ Held(Len(Data))
    BY <2>1, <2>3 DEF Answered
  <2>5. Data' = Data
    BY <2>1 DEF Data
  <2>6. Held(Len(Data))'
    BY <2>1, <2>3, <2>4, <2>5 DEF Held, InDir
  <2>7. CheckCommand' = CheckCommand
    BY <2>5 DEF CheckCommand
  <2>8. CheckSaid'
    BY <2>1, <2>3, <2>4, <2>6, <2>7 DEF CheckSaid, Said
  <2> QED
    BY <2>3, <2>4, <2>8 DEF Stage
<1>5. CASE SayEof
  <2>1. <<4>> \in Seq(Byte) /\ Say(<<4>>) /\ phase = "eof" /\ phase' = "header" /\ vfile' = vfile + 1
    BY <1>5, OneByte DEF SayEof
  <2>2. Answered /\ Flow' = <<4>> /\ reply' = "none" /\ UNCHANGED agon
    BY <2>1, SayMoves
  <2>3. pc = "commands" /\ vfile <= Len(Batch) /\ Even(vfile)
    BY <2>1, <2>2 DEF Answered
  <2>4. vfile \in Nat /\ Len(Batch) \in Nat
    BY BatchAssumption, LenProperties DEF AllTypes, VdpTypeOK, BatchAssumption
  <2>5. vfile' <= Len(Batch) + 1 /\ vfile' - 1 = vfile
    BY <2>1, <2>3, <2>4
  <2>6. EofSaid'
    BY <2>1, <2>2, <2>3, <2>5 DEF EofSaid, Said, Even
  <2> QED
    BY <2>2, <2>3, <2>6 DEF Stage
<1>6. CASE SayEnd
  <2>1. <<0>> \in Seq(Byte) /\ Say(<<0>>) /\ phase = "header" /\ phase' = "ended" /\ vfile > Len(Batch)
    BY <1>6, OneByte DEF SayEnd
  <2>2. Answered /\ Flow' = <<0>> /\ reply' = "none" /\ UNCHANGED agon
    BY <2>1, SayMoves
  <2>3. pc = "commands" /\ vfile <= Len(Batch) + 1 /\ Even(vfile - 1)
    BY <2>1, <2>2 DEF Answered
  <2>4. vfile \in Nat /\ Len(Batch) \in Nat
    BY BatchAssumption, LenProperties DEF AllTypes, VdpTypeOK, BatchAssumption
  <2>5. vfile - 1 = Len(Batch)
    BY <2>1, <2>3, <2>4
  <2>6. EndSaid'
    BY <2>1, <2>2, <2>3, <2>5 DEF EndSaid, Said, Even
  <2> QED
    BY <2>2, <2>3, <2>6 DEF Stage
<1>7. CASE SayAbort
  <2>1. <<255>> \in Seq(Byte) /\ Say(<<255>>) /\ phase \in {"header", "data", "eof"} /\ phase' = "silent"
    BY <1>7, OneByte DEF SayAbort
  <2>2. Answered /\ Flow' = <<255>> /\ reply' = "none" /\ UNCHANGED agon
    BY <2>1, SayMoves
  <2>3. pc = "commands"
    BY <2>1, <2>2 DEF Answered
  <2>4. AbortSaid'
    BY <2>1, <2>2, <2>3 DEF AbortSaid, Said
  <2> QED
    BY <2>2, <2>3, <2>4 DEF Stage
<1> QED
  BY <1>1, <1>2, <1>3, <1>4, <1>5, <1>6, <1>7 DEF Vdp

-----------------------------------------------------------------------------
(* Bytes on their way change nothing. *)

LEMMA FlowKeepsStage ==
  ASSUME Stage, Flow' = Flow, UNCHANGED <<agon, phase, vfile, vpos, reply>>
  PROVE  Stage'
<1> USE DEF agon, Said, Idle, Even
<1>1. Data' = Data /\ Filename' = Filename /\ HeaderCommand' = HeaderCommand
      /\ CheckCommand' = CheckCommand
  BY DEF Data, Filename, HeaderCommand, CheckCommand
<1>2. ASSUME NEW m PROVE Held(m)' <=> Held(m)
  BY <1>1 DEF Held, InDir
<1>3. Silent => Silent'
  BY DEF Silent
<1>4. Answered => Answered'
  <2>1. Held(vpos) => Held(vpos)'
    BY <1>1 DEF Held, InDir
  <2> QED
    BY <2>1 DEF Answered
<1>5. Greeted => Greeted'
  BY DEF Greeted
<1>6. HeaderSaid => HeaderSaid'
  BY <1>1 DEF HeaderSaid
<1>7. DataSaid => DataSaid'
  <2> SUFFICES ASSUME DataSaid PROVE DataSaid'
    OBVIOUS
  <2>1. PICK m \in 0 .. Len(Data) :
          /\ m < vpos /\ vpos <= m + Packet /\ vpos <= Len(Data)
          /\ Held(m) /\ Said(DataCommand(SubSeq(Data, m + 1, vpos)))
    BY DEF DataSaid
  <2>2. Held(m)'
    BY <1>2, <2>1
  <2>3. Said(DataCommand(SubSeq(Data, m + 1, vpos)))'
    BY <1>1, <2>1 DEF DataCommand
  <2> QED
    BY <1>1, <2>1, <2>2, <2>3 DEF DataSaid
<1>8. CheckSaid => CheckSaid'
  <2>1. Held(Len(Data)) => Held(Len(Data))'
    BY <1>1 DEF Held, InDir
  <2> QED
    BY <1>1, <2>1 DEF CheckSaid
<1>9. EofSaid => EofSaid'
  BY DEF EofSaid
<1>10. EndSaid => EndSaid'
  BY DEF EndSaid
<1>11. AbortSaid => AbortSaid'
  BY DEF AbortSaid
<1> QED
  BY <1>3, <1>4, <1>5, <1>6, <1>7, <1>8, <1>9, <1>10, <1>11 DEF Stage

LEMMA AgonKeepsShelf ==
  ASSUME UNCHANGED <<filenumber, filename, dir, disk, names, verified, failed>>
  PROVE  /\ Shelf => Shelf'
         /\ ShelfLeft /\ phase' = phase => ShelfLeft'
<1>1. Verified => Verified'
  BY DEF Verified
<1>2. Session' = Session /\ Begun' = Begun /\ InDir(filename)' = InDir(filename)
  BY DEF Session, Named, Begun, InDir
<1>3. DeletesItsOwn' <=> DeletesItsOwn
  BY DEF DeletesItsOwn, InDir
<1>4. ASSUME NEW path PROVE IsVerified(path)' <=> IsVerified(path)
  BY DEF IsVerified, InDir
<1>5. Shelf => Shelf'
  BY <1>1, <1>2, <1>4 DEF Shelf
<1>6. ShelfLeft /\ phase' = phase => ShelfLeft'
  BY <1>1, <1>2, <1>3, <1>4 DEF ShelfLeft
<1> QED
  BY <1>5, <1>6

-----------------------------------------------------------------------------
(* The utility takes what was said for what it is. *)

LEMMA UsedUp ==
  ASSUME Use, Pending = <<>>, unsent = <<>>, UNCHANGED vdp
  PROVE  Idle'
<1>1. taken' = <<>> /\ Pending' = <<>> /\ unsent' = <<>>
  BY DEF Use, Pending, vdp
<1> QED
  BY <1>1 DEF Idle, Flow

LEMMA FileOfBatch ==
  ASSUME NEW i \in 1 .. Len(Batch)
  PROVE  /\ Batch[i] \in File /\ Batch[i].filename \in Seq(Byte) /\ Batch[i].data \in Seq(Byte)
         /\ Len(Batch[i].filename) \in Nat /\ Batch[i].filename # <<>>
         /\ Len(Batch[i].filename) < 256 ^ UintBytes
         /\ CString(Batch[i].filename) = Batch[i].filename
<1> DEFINE Sent == [filename : Seq(1 .. 255), data : Seq(0 .. 255)]
<1>1. Batch[i] \in Sent
  <2>1. Batch \in Seq(Sent)
    BY BatchAssumption DEF BatchAssumption
  <2> HIDE DEF Sent
  <2> QED
    BY <2>1, ElementOfSeq
<1>2. \A t \in Seq(1 .. 255) : t \in Seq(Byte)
  BY DEF Byte
<1>3. Batch[i] \in File /\ Batch[i].filename \in Seq(Byte) /\ Batch[i].data \in Seq(Byte)
      /\ Batch[i].filename \in Seq(1 .. 255)
  BY <1>1, <1>2 DEF File, Byte
<1>4. Len(Batch[i].filename) \in 1 .. 256 ^ UintBytes - 1 /\ 256 ^ UintBytes \in Nat \ {0}
  BY Widths, LengthsAssumption DEF LengthsAssumption
<1> DEFINE k == Len(Batch[i].filename)
           d == 256 ^ UintBytes
<1>5. k \in 1 .. d - 1 /\ d \in Nat
  BY <1>4
<1> HIDE DEF k, d
<1>6. k \in Nat /\ k # 0 /\ k < d
  BY <1>5
<1>7. CString(Batch[i].filename) = Batch[i].filename
  <2> DEFINE name == Batch[i].filename
  <2>1. \A j \in DOMAIN name : name[j] # 0
    <3>1. name \in Seq(1 .. 255)
      BY <1>3
    <3> HIDE DEF name
    <3>2. DOMAIN name = 1 .. Len(name) /\ \A j \in 1 .. Len(name) : name[j] \in 1 .. 255
      BY <3>1, LenProperties, ElementOfSeq
    <3> TAKE j \in DOMAIN name
    <3>3. name[j] \in 1 .. 255
      BY <3>2
    <3>4. \A n \in 1 .. 255 : n # 0
      OBVIOUS
    <3> QED
      BY <3>3, <3>4
  <2> HIDE DEF name
  <2> QED
    BY <2>1 DEF CString, name
<1> QED
  BY <1>3, <1>6, <1>7 DEF k, d

\* The packet is what the file has next.
DataTaken ==
  \E m \in 0 .. Len(Data) :
    /\ m < vpos /\ vpos <= Len(Data) /\ Held(m) /\ phase = "data"
    /\ SubSeq(taken, NameAt, Len(taken)) = SubSeq(Data, m + 1, vpos)

LEMMA HeaderFlow ==
  ASSUME AllTypes, HeaderSaid
  PROVE  /\ vfile \in 1 .. Len(Batch) /\ IsCommand(Flow, 1, Len(Filename))
         /\ SubSeq(Flow, NameAt, NameAt + Len(Filename) - 1) = Filename
<1>1. vfile \in 1 .. Len(Batch) /\ Flow = HeaderCommand
  BY BatchAssumption, LenProperties DEF AllTypes, VdpTypeOK, BatchAssumption, HeaderSaid, Said
<1>2. /\ Filename \in Seq(Byte) /\ Filename # <<>> /\ Len(Filename) < 256 ^ UintBytes
      /\ Len(Data) \in Nat
  BY <1>1, FileOfBatch, LenProperties DEF Filename, Data
<1>3. /\ IsCommand(HeaderCommand, 1, Len(Filename))
      /\ SubSeq(HeaderCommand, NameAt, NameAt + Len(Filename) - 1) = Filename
  BY <1>2, HeaderIsCommand DEF HeaderCommand
<1> QED
  BY <1>1, <1>3

LEMMA DataFlow ==
  ASSUME AllTypes, DataSaid
  PROVE  \E m \in 0 .. Len(Data) :
           /\ m < vpos /\ vpos <= Len(Data) /\ Held(m) /\ phase = "data"
           /\ vpos - m \in 1 .. Packet /\ IsCommand(Flow, 2, vpos - m)
           /\ SubSeq(Flow, NameAt, Len(Flow)) = SubSeq(Data, m + 1, vpos)
<1>1. PICK m \in 0 .. Len(Data) :
        /\ m < vpos /\ vpos <= m + Packet /\ vpos <= Len(Data)
        /\ Held(m) /\ Flow = DataCommand(SubSeq(Data, m + 1, vpos)) /\ phase = "data"
  BY DEF DataSaid, Said
<1> DEFINE s == SubSeq(Data, m + 1, vpos)
<1>2. vfile \in Nat \ {0} /\ vpos \in Nat /\ Len(Batch) \in Nat /\ Packet \in Nat
      /\ BufferSize \in Nat /\ Packet <= BufferSize
  BY BatchAssumption, LenProperties, AgonAssumption
     DEF AllTypes, VdpTypeOK, BatchAssumption, AgonAssumption
<1>3. vfile \in 1 .. Len(Batch)
  BY <1>1, <1>2 DEF Held
<1>4. Data \in Seq(Byte) /\ Len(Data) \in Nat /\ m \in Nat
  BY <1>1, <1>3, FileOfBatch, LenProperties DEF Data
<1>5. s \in Seq(Byte) /\ Len(s) = vpos - m
  <2>1. \A i \in m + 1 .. vpos : i \in 1 .. Len(Data)
    BY <1>1, <1>2, <1>4
  <2>2. \A i \in m + 1 .. vpos : Data[i] \in Byte
    <3> HIDE DEF Byte
    <3> QED
      BY <1>4, <2>1, ElementOfSeq
  <2>3. m + 1 \in Int /\ vpos \in Int /\ m + 1 <= vpos /\ vpos - (m + 1) + 1 = vpos - m
    BY <1>1, <1>2, <1>4
  <2> HIDE DEF Byte
  <2> QED
    BY <2>2, <2>3, SubSeqProperties
<1> HIDE DEF s
<1>6. vpos - m \in 1 .. Packet
  BY <1>1, <1>2, <1>4
<1>7. s # <<>> /\ Len(s) < 256 ^ UintBytes
  <2> DEFINE d == 256 ^ UintBytes
  <2>1. d \in Nat /\ BufferSize < d
    BY Widths, LengthsAssumption DEF LengthsAssumption
  <2> HIDE DEF d
  <2>2. Len(s) < d /\ Len(s) # 0
    BY <1>2, <1>5, <1>6, <2>1
  <2> QED
    BY <2>2 DEF d
<1>8. /\ IsCommand(DataCommand(s), 2, Len(s))
      /\ Len(DataCommand(s)) = NameAt + Len(s) - 1
      /\ SubSeq(DataCommand(s), NameAt, NameAt + Len(s) - 1) = s
  BY <1>5, <1>7, DataIsCommand
<1>9. Flow = DataCommand(s)
  BY <1>1 DEF s
<1>10. IsCommand(Flow, 2, vpos - m)
  BY <1>5, <1>8, <1>9
<1>11. SubSeq(Flow, NameAt, Len(Flow)) = SubSeq(Data, m + 1, vpos)
  BY <1>8, <1>9 DEF s
<1> QED
  BY <1>1, <1>6, <1>10, <1>11

LEMMA CheckFlow ==
  ASSUME AllTypes, CheckSaid
  PROVE  IsCommand(Flow, 3, Crc(Data))
<1>1. vfile \in 1 .. Len(Batch) /\ Flow = CheckCommand
  BY BatchAssumption, LenProperties DEF AllTypes, VdpTypeOK, BatchAssumption, CheckSaid, Said, Held
<1>2. Crc(Data) \in Nat
  BY <1>1, BatchAssumption DEF BatchAssumption, Data
<1> QED
  BY <1>1, <1>2, CheckIsCommand DEF CheckCommand

LEMMA ByteFlow ==
  ASSUME NEW code \in {4, 0, 255}, Flow = <<code>>
  PROVE  IsCommand(Flow, code, 0)
<1>1. code \in Byte \ {1, 2, 3}
  BY DEF Byte
<1> QED
  BY <1>1, OneByteCommand

\* Of what get_files may be waiting for, something is on its way.
LEMMA SomethingSaid ==
  ASSUME AllTypes, Stage, pc = "commands", taken # <<>>
  PROVE  HeaderSaid \/ DataSaid \/ CheckSaid \/ EofSaid \/ EndSaid \/ AbortSaid
<1>1. Flow # <<>>
  BY NothingSaid
<1> QED
  BY <1>1 DEF Stage, Silent, Answered, Greeted, Idle

LEMMA CommandTaken ==
  ASSUME AllTypes, Stage, pc = "commands", Complete
  PROVE  /\ taken = Flow /\ Pending = <<>> /\ unsent = <<>> /\ reply = "none"
         /\ \/ /\ HeaderSaid /\ taken[1] = 1 /\ Length = Len(Filename)
               /\ SubSeq(taken, NameAt, NameAt + Length - 1) = Filename
            \/ DataTaken /\ taken[1] = 2
            \/ CheckSaid /\ taken[1] = 3 /\ ReadInt(2) = Crc(Data) % 256 ^ IntBytes
            \/ EofSaid /\ taken[1] = 4
            \/ EndSaid /\ taken[1] = 0
            \/ AbortSaid /\ taken[1] = 255
<1>1. HeaderSaid \/ DataSaid \/ CheckSaid \/ EofSaid \/ EndSaid \/ AbortSaid
  BY SomethingSaid DEF Complete
<1>2. reply = "none"
  BY <1>1 DEF HeaderSaid, DataSaid, CheckSaid, EofSaid, EndSaid, AbortSaid, Said
<1>3. CASE HeaderSaid
  <2>1. taken = Flow /\ taken[1] = 1 /\ Pending = <<>> /\ unsent = <<>> /\ Length = Len(Filename)
    BY <1>3, HeaderFlow, WholeCommand
  <2> QED
    BY <1>2, <1>3, <2>1, HeaderFlow
<1>4. CASE DataSaid
  <2>1. PICK m \in 0 .. Len(Data) :
          /\ m < vpos /\ vpos <= Len(Data) /\ Held(m) /\ phase = "data"
          /\ IsCommand(Flow, 2, vpos - m)
          /\ SubSeq(Flow, NameAt, Len(Flow)) = SubSeq(Data, m + 1, vpos)
    BY <1>4, DataFlow
  <2>2. taken = Flow /\ taken[1] = 2 /\ Pending = <<>> /\ unsent = <<>>
    BY <2>1, WholeCommand
  <2>3. DataTaken
    BY <2>1, <2>2 DEF DataTaken
  <2> QED
    BY <1>2, <2>2, <2>3
<1>5. CASE CheckSaid
  BY <1>2, <1>5, CheckFlow, WholeCommand
<1>6. CASE EofSaid
  <2>1. IsCommand(Flow, 4, 0)
    BY <1>6, ByteFlow DEF EofSaid, Said
  <2> QED
    BY <1>2, <1>6, <2>1, WholeCommand
<1>7. CASE EndSaid
  <2>1. IsCommand(Flow, 0, 0)
    BY <1>7, ByteFlow DEF EndSaid, Said
  <2> QED
    BY <1>2, <1>7, <2>1, WholeCommand
<1>8. CASE AbortSaid
  <2>1. IsCommand(Flow, 255, 0)
    BY <1>8, ByteFlow DEF AbortSaid, Said
  <2> QED
    BY <1>2, <1>8, <2>1, WholeCommand
<1> QED
  BY <1>1, <1>3, <1>4, <1>5, <1>6, <1>7, <1>8

\* Nothing is written outside the arrays while every command is as it was sent,
\* unless a name is too long.
TooLong == \E i \in DOMAIN Batch : Len(Batch[i].filename) >= NameSize

LEMMA OverflowOfName ==
  ASSUME AllTypes, Stage, Overflow
  PROVE  TooLong
<1>1. /\ pc = "commands" /\ Undefined /\ LengthRead /\ taken # <<>> /\ taken[1] \in {1, 2}
      /\ Len(taken) > IntBytes
  BY DEF Overflow, Undefined, NamePastEnd, PacketPastEnd, LengthRead
<1>2. Len(taken) \in Nat /\ Len(Flow) \in Nat /\ Len(taken) <= Len(Flow) /\ IntBytes \in Nat
      /\ BufferSize \in Nat /\ Packet <= BufferSize /\ Packet \in Nat /\ NameSize \in Nat
  BY StartOfFlow, AgonAssumption DEF AgonAssumption
<1>3. Len(taken) >= 1 + IntBytes
  BY <1>1, <1>2
<1>4. HeaderSaid \/ DataSaid \/ CheckSaid \/ EofSaid \/ EndSaid \/ AbortSaid
  BY <1>1, SomethingSaid
<1>5. CASE HeaderSaid
  <2>1. vfile \in 1 .. Len(Batch) /\ taken[1] = 1 /\ Length = Len(Filename)
        /\ Block(Length) = Len(Filename) /\ Len(Filename) \in Nat
    BY <1>1, <1>3, <1>5, HeaderFlow, BeginningRead, FileOfBatch DEF Filename
  <2>2. NamePastEnd
    BY <1>1, <2>1 DEF Undefined, PacketPastEnd
  <2>3. Len(Filename) >= NameSize
    BY <1>2, <2>1, <2>2 DEF NamePastEnd
  <2>4. vfile \in DOMAIN Batch
    BY <2>1, BatchAssumption, LenProperties DEF BatchAssumption
  <2> QED
    BY <2>3, <2>4 DEF TooLong, Filename
<1>6. CASE DataSaid
  <2>1. PICK m \in 0 .. Len(Data) :
          Held(m) /\ vpos - m \in 1 .. Packet /\ IsCommand(Flow, 2, vpos - m)
    BY <1>6, DataFlow
  <2>2. taken[1] = 2 /\ Len(Flow) = 1 + IntBytes + (vpos - m)
    BY <1>1, <2>1, BeginningRead DEF IsCommand, SizeFor
  <2>3. filenumber # 0
    BY <2>1 DEF Held, AllTypes, VdpTypeOK
  <2>4. Stored > BufferSize
    BY <1>1, <2>2, <2>3 DEF Undefined, NamePastEnd, PacketPastEnd
  <2>5. PICK k \in 1 .. Packet : Len(Flow) = 1 + IntBytes + k
    BY <2>1, <2>2
  <2>6. ~(Stored > BufferSize)
    BY <1>2, <2>5 DEF Stored
  <2> QED
    BY <2>4, <2>6
<1>7. CASE CheckSaid \/ EofSaid \/ EndSaid \/ AbortSaid
  <2>1. \E code \in {3, 4, 0, 255}, m \in Nat : IsCommand(Flow, code, m)
    <3>1. CheckSaid => IsCommand(Flow, 3, Crc(Data)) /\ Crc(Data) \in Nat
      BY CheckFlow DEF IsCommand
    <3> QED
      BY <1>7, <3>1, ByteFlow DEF EofSaid, EndSaid, AbortSaid, Said
  <2>2. taken[1] \in {3, 4, 0, 255}
    BY <1>1, <2>1, BeginningRead
  <2> QED
    BY <1>1, <2>2
<1> QED
  BY <1>4, <1>5, <1>6, <1>7

-----------------------------------------------------------------------------
(* What each command does to the card. *)

LEMMA HeaderKeepsTalk ==
  ASSUME AllTypes, Stage, Shelf, Header
  PROVE  Stage' /\ Shelf' /\ pc' = "commands"
<1> DEFINE new == InDir(Filename)
<1>1. /\ pc = "commands" /\ pc' = "commands" /\ Complete /\ taken[1] = 1 /\ Use
      /\ filenumber' = filenumber + 1 /\ crc' = <<>> /\ reply' = "S1"
      /\ UNCHANGED <<dir, vdp, verified>>
  BY DEF Header, Command
<1>2. /\ Pending = <<>> /\ unsent = <<>> /\ HeaderSaid /\ Length = Len(Filename)
      /\ SubSeq(taken, NameAt, NameAt + Length - 1) = Filename
  BY <1>1, CommandTaken
<1>3. /\ vfile <= Len(Batch) /\ filenumber = vfile - 1 /\ Len(verified) = vfile - 1
      /\ phase = "data" /\ vpos = 0
  BY <1>2 DEF HeaderSaid, Even
<1>4. vfile \in Nat \ {0} /\ Len(Batch) \in Nat
  BY BatchAssumption, LenProperties DEF AllTypes, VdpTypeOK, BatchAssumption
<1>5. vfile \in 1 .. Len(Batch) /\ filenumber' = vfile
  BY <1>1, <1>3, <1>4
<1>6. /\ filename' = Filename /\ names' = names \cup {Filename}
      /\ ~failed' => ~failed /\ new # NoPath /\ open' = new /\ disk' = Created(new)
  <2> DEFINE name == CString(SubSeq(taken, NameAt, NameAt + Length - 1))
  <2>1. /\ filename' = name /\ names' = names \cup {name}
        /\ \/ /\ Path(name) # NoPath /\ failed' = failed
              /\ open' = Path(name) /\ disk' = Created(Path(name))
           \/ failed' = TRUE
    BY DEF Header, Works, MayFail
  <2>2. name = Filename
    BY <1>2, <1>5, FileOfBatch DEF Filename
  <2>3. Path(name) = InDir(name)
    BY DEF Path, InDir
  <2> HIDE DEF name
  <2> QED
    BY <2>1, <2>2, <2>3
<1>7. ASSUME ~failed'
      PROVE  /\ DOMAIN disk' = DOMAIN disk \cup {new} /\ new \in DOMAIN disk' /\ disk'[new] = <<>>
             /\ \A path \in DOMAIN disk : path # new => disk'[path] = disk[path]
  <2>1. disk' = Created(new)
    BY <1>6, <1>7
  <2> HIDE DEF new
  <2> QED
    BY <2>1 DEF Created
<1>8. Named' = Named \cup {new}
  BY <1>1, <1>6 DEF Named, InDir
<1>9. InDir(filename)' = new /\ Data' = Data /\ vfile' = vfile /\ vpos' = 0 /\ phase' = "data"
  BY <1>1, <1>3, <1>6 DEF InDir, vdp, Data
<1> HIDE DEF new
<1>10. Data \in Seq(Byte) /\ Len(Data) \in Nat
  BY <1>5, FileOfBatch, LenProperties DEF Data
<1>11. Held(vpos)'
  <2>1. SubSeq(Data, 1, 0) = <<>>
    BY SubSeqEmpty
  <2>2. ~failed' => open' = new /\ new # NoPath /\ open' \in DOMAIN disk' /\ disk'[open'] = <<>>
    BY <1>6, <1>7
  <2>3. /\ vfile' <= Len(Batch) /\ filenumber' = vfile' /\ Len(verified') = vfile' - 1
        /\ 0 \in 0 .. Len(Data')
    BY <1>1, <1>3, <1>5, <1>9, <1>10
  <2>4. crc' = SubSeq(Data', 1, 0)
    BY <1>1, <1>9, <2>1
  <2> QED
    BY <1>9, <2>1, <2>2, <2>3, <2>4 DEF Held
<1>12. Stage'
  <2>1. Idle'
    BY <1>1, <1>2, UsedUp
  <2>2. Answered'
    BY <1>1, <1>9, <1>11, <2>1 DEF Answered
  <2> QED
    BY <2>2 DEF Stage
<1>13. Verified'
  BY <1>1 DEF Shelf, Verified
<1>14. ASSUME ~failed', NEW path \in Session'
       PROVE  IsVerified(path)' \/ (path = InDir(filename)' /\ Len(verified') < filenumber')
  <2>1. CASE path = new
    BY <1>1, <1>3, <1>4, <1>5, <1>9, <2>1
  <2>2. CASE path # new
    <3>1. path \in Session /\ disk'[path] = disk[path]
      BY <1>7, <1>8, <1>14, <2>2 DEF Session
    <3>2. IsVerified(path)
      BY <1>3, <1>4, <1>6, <1>14, <3>1 DEF Shelf
    <3> QED
      BY <1>1, <3>1, <3>2 DEF IsVerified, InDir
  <2> QED
    BY <2>1, <2>2
<1>15. ASSUME ~failed'
       PROVE  Session' = Begun'
  <2>1. Session' = Session \cup {new}
    BY <1>7, <1>8, <1>15 DEF Session
  <2>2. Session = Begun
    BY <1>6, <1>15 DEF Shelf
  <2>3. Begun' = Begun \cup {new}
    <3>1. 1 .. filenumber' = (1 .. filenumber) \cup {vfile}
      BY <1>3, <1>4, <1>5
    <3>2. \A i : InDir(Batch[i].filename)' = InDir(Batch[i].filename)
      BY <1>1 DEF InDir
    <3>3. InDir(Batch[vfile].filename) = new
      BY DEF new, Filename
    <3>4. Begun' = {InDir(Batch[i].filename) : i \in 1 .. filenumber'}
      BY <3>2 DEF Begun
    <3> QED
      BY <3>1, <3>3, <3>4 DEF Begun
  <2> QED
    BY <2>1, <2>2, <2>3
<1>16. filenumber' \in 0 .. Len(Batch) /\ filename' = Batch[filenumber'].filename
  BY <1>4, <1>5, <1>6 DEF Filename
<1>17. names' = {Batch[i].filename : i \in 1 .. filenumber'}
  <2>1. 1 .. filenumber' = (1 .. filenumber) \cup {vfile}
    BY <1>3, <1>4, <1>5
  <2>2. names = {Batch[i].filename : i \in 1 .. filenumber}
    BY DEF Shelf
  <2> QED
    BY <1>6, <2>1, <2>2 DEF Filename
<1>18. Shelf'
  BY <1>13, <1>14, <1>15, <1>16, <1>17 DEF Shelf
<1> QED
  BY <1>1, <1>12, <1>18

LEMMA DataKeepsTalk ==
  ASSUME AllTypes, Stage, Shelf, DataPacket
  PROVE  Stage' /\ Shelf' /\ pc' = "commands"
<1>1. /\ pc = "commands" /\ pc' = "commands" /\ Complete /\ taken[1] = 2 /\ Use
      /\ reply' = "S2"
      /\ UNCHANGED <<dir, vdp, filenumber, filename, open, names, verified>>
  BY DEF DataPacket, Command
<1>2. Pending = <<>> /\ unsent = <<>> /\ DataTaken
  BY <1>1, CommandTaken
<1>3. PICK m \in 0 .. Len(Data) :
        /\ m < vpos /\ vpos <= Len(Data) /\ Held(m) /\ phase = "data"
        /\ SubSeq(taken, NameAt, Len(taken)) = SubSeq(Data, m + 1, vpos)
  BY <1>2 DEF DataTaken
<1>4. vfile \in Nat \ {0} /\ Len(Batch) \in Nat /\ vpos \in Nat
  BY BatchAssumption, LenProperties DEF AllTypes, VdpTypeOK, BatchAssumption
<1>5. vfile \in 1 .. Len(Batch) /\ filenumber = vfile /\ Len(verified) = vfile - 1
  BY <1>3, <1>4 DEF Held
<1>6. Data \in Seq(Byte) /\ Len(Data) \in Nat
  BY <1>5, FileOfBatch, LenProperties DEF Data
<1> DEFINE packet == SubSeq(Data, m + 1, vpos)
           whole == SubSeq(Data, 1, vpos)
<1>7. SubSeq(Data, 1, m) \o packet = whole
  <2>1. 1 \in 1 .. Len(Data) + 1 /\ m \in 1 - 1 .. Len(Data) /\ vpos \in m .. Len(Data)
    BY <1>3, <1>4, <1>6
  <2> HIDE DEF Byte
  <2> QED
    BY <1>6, <2>1, ConcatAdjacentSubSeq
<1>8. /\ crc' = crc \o packet
      /\ ~failed' => /\ ~failed
                     /\ disk' = IF open = NoPath THEN disk
                                ELSE [disk EXCEPT ![open] = disk[open] \o packet]
  <2> DEFINE read == SubSeq(taken, NameAt, Len(taken))
  <2>1. /\ crc' = crc \o read
        /\ \/ /\ failed' = failed
              /\ disk' = IF open = NoPath THEN disk ELSE [disk EXCEPT ![open] = disk[open] \o read]
           \/ failed' = TRUE
    BY DEF DataPacket, CrcOver, Written, Works, MayFail
  <2>2. read = packet
    BY <1>3
  <2> HIDE DEF read, packet
  <2> QED
    BY <2>1, <2>2
<1> HIDE DEF packet
<1>9. crc' = whole
  BY <1>3, <1>7, <1>8 DEF Held
<1>10. ASSUME ~failed'
       PROVE  /\ open = InDir(filename) /\ open # NoPath
              /\ open \in DOMAIN disk' /\ disk'[open] = whole
              /\ DOMAIN disk' = DOMAIN disk
              /\ \A path \in DOMAIN disk : path # open => disk'[path] = disk[path]
  <2>1. /\ open = InDir(filename) /\ open # NoPath
        /\ open \in DOMAIN disk /\ disk[open] = SubSeq(Data, 1, m)
    BY <1>3, <1>8, <1>10 DEF Held
  <2>2. disk' = [disk EXCEPT ![open] = whole]
    BY <1>7, <1>8, <1>10, <2>1
  <2> HIDE DEF whole
  <2> QED
    BY <2>1, <2>2
<1>11. Data' = Data /\ vfile' = vfile /\ vpos' = vpos /\ phase' = "data" /\ InDir(filename)' = InDir(filename)
  BY <1>1, <1>3 DEF InDir, vdp, Data
<1>12. Held(vpos)'
  <2>1. vpos \in 0 .. Len(Data) /\ vfile <= Len(Batch)
    BY <1>3, <1>4, <1>5, <1>6
  <2> QED
    BY <1>1, <1>5, <1>9, <1>10, <1>11, <2>1 DEF Held
<1>13. Stage'
  <2>1. Idle'
    BY <1>1, <1>2, UsedUp
  <2>2. Answered'
    BY <1>1, <1>11, <1>12, <2>1 DEF Answered
  <2> QED
    BY <2>2 DEF Stage
<1>14. Verified'
  BY <1>1 DEF Shelf, Verified
<1> HIDE DEF whole
<1>15. ASSUME ~failed', NEW path \in Session'
       PROVE  IsVerified(path)' \/ (path = InDir(filename)' /\ Len(verified') < filenumber')
  <2>1. CASE path = open
    BY <1>1, <1>4, <1>5, <1>10, <1>11, <1>15, <2>1
  <2>2. CASE path # open
    <3>1. path \in Session /\ disk'[path] = disk[path]
      BY <1>1, <1>10, <1>15, <2>2 DEF Session, Named, InDir
    <3>2. IsVerified(path)
      BY <1>8, <1>10, <1>15, <2>2, <3>1 DEF Shelf
    <3> QED
      BY <1>1, <3>1, <3>2 DEF IsVerified, InDir
  <2> QED
    BY <2>1, <2>2
<1>16. ASSUME ~failed'
       PROVE  Session' = Begun'
  <2>1. Session' = Session
    BY <1>1, <1>10, <1>16 DEF Session, Named, InDir
  <2>2. Session = Begun
    BY <1>8, <1>16 DEF Shelf
  <2>3. Begun' = Begun
    BY <1>1 DEF Begun, InDir
  <2> QED
    BY <2>1, <2>2, <2>3
<1>17. Shelf'
  BY <1>1, <1>14, <1>15, <1>16 DEF Shelf
<1> QED
  BY <1>1, <1>13, <1>17

LEMMA CheckKeepsTalk ==
  ASSUME AllTypes, Stage, Shelf, CheckCrc
  PROVE  Stage' /\ Shelf' /\ pc' = "commands"
<1>1. /\ pc = "commands" /\ Complete /\ taken[1] = 3 /\ Use
      /\ UNCHANGED <<dir, vdp, filename, names, failed>>
  BY DEF CheckCrc, Command
<1>2. /\ Pending = <<>> /\ unsent = <<>>
      /\ CheckSaid /\ ReadInt(2) = Crc(Data) % 256 ^ IntBytes
  BY <1>1, CommandTaken
<1>3. vfile \in Nat \ {0} /\ Len(Batch) \in Nat
  BY BatchAssumption, LenProperties DEF AllTypes, VdpTypeOK, BatchAssumption
<1>4. /\ vfile \in 1 .. Len(Batch) /\ filenumber = vfile /\ Len(verified) = vfile - 1
      /\ crc = SubSeq(Data, 1, Len(Data)) /\ phase = "eof"
      /\ ~failed => open = InDir(filename) /\ open \in DOMAIN disk
                    /\ disk[open] = SubSeq(Data, 1, Len(Data))
  BY <1>2, <1>3 DEF CheckSaid, Held
<1>5. Data \in Seq(Byte) /\ SubSeq(Data, 1, Len(Data)) = Data
  <2>1. Data \in Seq(Byte)
    BY <1>4, FileOfBatch DEF Data
  <2> HIDE DEF Byte
  <2> QED
    BY <2>1, SubSeqFull
<1>6. Matches
  BY <1>2, <1>4, <1>5 DEF Matches
<1> DEFINE file == [filename |-> filename, data |-> crc]
<1>7. /\ reply' = "SV" /\ verified' = Append(verified, file)
      /\ UNCHANGED <<pc, open, disk, filenumber>>
  BY <1>6 DEF CheckCrc
<1>8. file = Batch[vfile] /\ file \in File /\ filename = Batch[vfile].filename
  <2>1. filename = Batch[vfile].filename /\ crc = Batch[vfile].data
    BY <1>3, <1>4, <1>5 DEF Shelf, Data
  <2>2. Batch[vfile] \in File
    BY <1>4, FileOfBatch
  <2>3. Batch[vfile] = [filename |-> Batch[vfile].filename, data |-> Batch[vfile].data]
    <3> DEFINE b == Batch[vfile]
    <3> HIDE DEF b, Byte
    <3>1. b \in File
      BY <2>2 DEF b
    <3>2. b = [filename |-> b.filename, data |-> b.data]
      BY <3>1 DEF File
    <3> QED
      BY <3>2 DEF b
  <2> QED
    BY <2>1, <2>2, <2>3
<1> HIDE DEF file
<1>9. /\ verified \in Seq(File) /\ \A i \in 1 .. Len(verified) : verified[i] = Batch[i]
  BY DEF Shelf, Verified
<1>10. /\ verified' \in Seq(File) /\ Len(verified') = vfile
       /\ \A i \in 1 .. vfile - 1 : verified'[i] = verified[i]
       /\ verified'[vfile] = file
  <2>1. /\ Append(verified, file) \in Seq(File) /\ Len(Append(verified, file)) = Len(verified) + 1
        /\ \A i \in 1 .. Len(verified) : Append(verified, file)[i] = verified[i]
        /\ Append(verified, file)[Len(verified) + 1] = file
    <3> HIDE DEF File
    <3> QED
      BY <1>8, <1>9, AppendProperties
  <2>2. Len(verified) + 1 = vfile
    BY <1>3, <1>4
  <2> QED
    BY <1>4, <1>7, <2>1, <2>2
<1>11. Verified'
  <2>1. \A i \in 1 .. vfile : verified'[i] = Batch[i]
    <3> TAKE i \in 1 .. vfile
    <3>1. i \in 1 .. vfile - 1 \/ i = vfile
      BY <1>3
    <3> QED
      BY <1>4, <1>8, <1>9, <1>10, <3>1
  <2>2. vfile <= Len(Batch)
    BY <1>3, <1>4
  <2> QED
    BY <1>10, <2>1, <2>2 DEF Verified
<1>12. DOMAIN verified = 1 .. vfile - 1 /\ DOMAIN verified' = 1 .. vfile
  <2> HIDE DEF File
  <2> QED
    BY <1>4, <1>9, <1>10, LenProperties
<1>13. ASSUME NEW path, IsVerified(path) PROVE IsVerified(path)'
  <2>1. PICK i \in DOMAIN verified : path = InDir(verified[i].filename) /\ disk[path] = verified[i].data
    BY <1>13 DEF IsVerified
  <2>2. i \in DOMAIN verified' /\ verified'[i] = verified[i]
    BY <1>3, <1>10, <1>12
  <2> QED
    BY <1>1, <1>7, <2>1, <2>2 DEF IsVerified, InDir
<1>14. ASSUME ~failed' PROVE IsVerified(InDir(filename))'
  <2>1. vfile \in DOMAIN verified'
    BY <1>3, <1>12
  <2>2. verified'[vfile].filename = filename /\ verified'[vfile].data = Data
    BY <1>8, <1>10 DEF Data
  <2>3. disk[InDir(filename)] = Data
    BY <1>1, <1>4, <1>5, <1>14
  <2>4. InDir(filename)' = InDir(filename)
    BY <1>1 DEF InDir
  <2> QED
    BY <1>1, <1>7, <2>1, <2>2, <2>3, <2>4 DEF IsVerified, InDir
<1>15. ASSUME ~failed', NEW path \in Session'
       PROVE  IsVerified(path)'
  <2>1. path \in Session
    BY <1>1, <1>7 DEF Session, Named, InDir
  <2>2. IsVerified(path) \/ path = InDir(filename)
    BY <1>1, <1>15, <2>1 DEF Shelf
  <2>3. InDir(filename)' = InDir(filename)
    BY <1>1 DEF InDir
  <2>4. CASE path = InDir(filename)
    BY <1>1, <1>14, <1>15, <2>3, <2>4 DEF IsVerified, InDir
  <2> QED
    BY <1>13, <2>2, <2>4
<1>16. ASSUME ~failed'
       PROVE  Session' = Begun'
  BY <1>1, <1>7, <1>16 DEF Session, Named, Begun, InDir, Shelf
<1>17. Shelf'
  BY <1>1, <1>7, <1>11, <1>15, <1>16 DEF Shelf
<1>18. Stage'
  <2>1. Idle'
    BY <1>1, <1>2, UsedUp
  <2>2. Even(vfile)' /\ vfile' <= Len(Batch) /\ phase' = "eof"
    BY <1>1, <1>3, <1>4, <1>7, <1>10 DEF Even, vdp
  <2>3. Answered'
    BY <1>1, <1>7, <2>1, <2>2 DEF Answered
  <2> QED
    BY <2>3 DEF Stage
<1> QED
  BY <1>1, <1>7, <1>17, <1>18

-----------------------------------------------------------------------------
(* The other steps of get_files. *)

LEMMA EofKeepsTalk ==
  ASSUME AllTypes, Stage, Shelf, EndOfFile
  PROVE  Stage' /\ Shelf' /\ pc' = "commands"
<1>1. /\ pc = "commands" /\ pc' = "commands" /\ Complete /\ taken[1] = 4 /\ Use /\ reply' = "S4"
      /\ UNCHANGED <<dir, vdp, filenumber, filename, disk, names, verified, failed>>
  BY DEF EndOfFile, Command
<1>2. Pending = <<>> /\ unsent = <<>> /\ EofSaid
  BY <1>1, CommandTaken
<1>3. Idle'
  BY <1>1, <1>2, UsedUp
<1>4. phase' = "header" /\ vfile' <= Len(Batch) + 1 /\ Even(vfile - 1)'
  BY <1>1, <1>2 DEF EofSaid, Even, vdp
<1>5. Answered'
  BY <1>1, <1>3, <1>4 DEF Answered
<1>6. Shelf'
  BY <1>1, AgonKeepsShelf
<1> QED
  BY <1>1, <1>5, <1>6 DEF Stage

LEMMA EndKeepsTalk ==
  ASSUME AllTypes, Stage, Shelf, EndOfBatch
  PROVE  Stage' /\ ShelfLeft' /\ pc' = "returned"
<1>1. /\ pc = "commands" /\ pc' = "returned" /\ Complete /\ taken[1] = 0 /\ Use
      /\ UNCHANGED <<dir, vdp, filenumber, filename, disk, names, verified, failed, reply>>
  BY DEF EndOfBatch, Command
<1>2. Pending = <<>> /\ unsent = <<>> /\ EndSaid /\ reply = "none"
  BY <1>1, CommandTaken
<1>3. Idle'
  BY <1>1, <1>2, UsedUp
<1>4. phase' = "ended" /\ filenumber = Len(Batch) /\ Len(verified) = Len(Batch) /\ reply' = "none"
  BY <1>1, <1>2 DEF EndSaid, Even, vdp
<1>5. Stage'
  BY <1>1, <1>3, <1>4 DEF Silent, Stage
<1>6. Shelf'
  BY <1>1, AgonKeepsShelf
<1>7. Len(Batch) \in Nat
  BY BatchAssumption, LenProperties DEF BatchAssumption
<1>8. ~(Len(verified') < filenumber')
  BY <1>1, <1>4, <1>7
<1>9. ShelfLeft'
  BY <1>1, <1>4, <1>6, <1>8 DEF Shelf, ShelfLeft
<1> QED
  BY <1>1, <1>5, <1>9

\* The file that failed is deleted under its bare name.
LEMMA AbortKeepsTalk ==
  ASSUME AllTypes, Stage, Shelf, Abort
  PROVE  Stage' /\ ShelfLeft' /\ pc' = "returned"
<1>1. /\ pc = "commands" /\ pc' = "returned" /\ Complete /\ taken[1] \in 5 .. 255 /\ Use
      /\ UNCHANGED <<dir, vdp, filename, names, verified, failed, reply>>
      /\ \/ filenumber > 0 /\ Discard
         \/ ~(filenumber > 0) /\ UNCHANGED <<disk, filenumber>>
  BY DEF Abort, Command
<1>2. Pending = <<>> /\ unsent = <<>> /\ AbortSaid /\ reply = "none"
  <2>1. taken[1] # 0 /\ taken[1] # 1 /\ taken[1] # 2 /\ taken[1] # 3 /\ taken[1] # 4
    BY <1>1
  <2> QED
    BY <1>1, <2>1, CommandTaken
<1>3. Idle'
  BY <1>1, <1>2, UsedUp
<1>4. phase' = "silent" /\ reply' = "none"
  BY <1>1, <1>2 DEF AbortSaid, vdp
<1>5. Stage'
  BY <1>1, <1>3, <1>4 DEF Silent, Stage
<1>6. Verified'
  BY <1>1 DEF Shelf, Verified
<1>7. /\ filenumber \in 0 .. Len(Batch) /\ Len(Batch) \in Nat /\ Len(verified) \in Nat
  <2>1. Len(Batch) \in Nat
    BY BatchAssumption, LenProperties DEF BatchAssumption
  <2>2. Len(verified) \in Nat
    BY LenProperties DEF Shelf, Verified
  <2> QED
    BY <2>1, <2>2 DEF Shelf
<1>8. CASE ~(filenumber > 0) /\ UNCHANGED <<disk, filenumber>>
  <2>1. Shelf'
    BY <1>1, <1>8, AgonKeepsShelf
  <2>2. ~(Len(verified') < filenumber') /\ filenumber' \in 0 .. Len(Batch)
    BY <1>1, <1>7, <1>8
  <2>3. ShelfLeft'
    BY <1>1, <1>4, <2>1, <2>2 DEF Shelf, ShelfLeft
  <2> QED
    BY <1>1, <1>5, <2>3
<1>9. CASE filenumber > 0 /\ Discard
  <2> DEFINE gone == Resolve(filename)
  <2>1. DOMAIN disk' = DOMAIN disk \ {gone} /\ \A path \in DOMAIN disk' : disk'[path] = disk[path]
    BY <1>9 DEF Discard, Deleted
  <2>2. filenumber' = filenumber - 1 /\ filenumber' \in 0 .. Len(Batch)
    BY <1>7, <1>9 DEF Discard
  <2>3. Session' = Session \ {gone}
    <3>1. Named' = Named
      BY <1>1 DEF Named, InDir
    <3> HIDE DEF gone
    <3> QED
      BY <2>1, <3>1 DEF Session
  <2>4. ASSUME NEW path \in Session', IsVerified(path) PROVE IsVerified(path)'
    <3>1. disk'[path] = disk[path]
      BY <2>1 DEF Session
    <3> QED
      BY <1>1, <2>4, <3>1 DEF IsVerified, InDir
  <2>5. filenumber \in 1 .. Len(Batch) /\ filename = Batch[filenumber].filename
        /\ filename \in names
    BY <1>7, <1>9 DEF Shelf
  <2>6. InDir(filename)' = InDir(filename) /\ (DeletesItsOwn' => InDir(filename) = gone)
    <3>1. DeletesItsOwn' = DeletesItsOwn
      BY <1>1 DEF DeletesItsOwn, InDir
    <3> QED
      BY <1>1, <2>5, <3>1 DEF InDir, DeletesItsOwn
  <2> HIDE DEF gone
  <2>7. ASSUME ~failed', NEW path \in Session' PROVE IsVerified(path)' \/ path = InDir(filename)'
    <3>1. IsVerified(path) \/ path = InDir(filename)
      BY <1>1, <2>3, <2>7 DEF Shelf
    <3> QED
      BY <2>4, <2>6, <2>7, <3>1
  <2>8. ASSUME ~failed', DeletesItsOwn' PROVE \A path \in Session' : IsVerified(path)'
    BY <2>3, <2>6, <2>7, <2>8
  <2>9. ASSUME ~failed', DeletesItsOwn', Distinct PROVE Session' = Begun'
    <3>1. Session = Begun
      BY <1>1, <2>9 DEF Shelf
    <3>2. gone = InDir(Batch[filenumber].filename)
      BY <2>5, <2>6, <2>9
    <3>3. \A i : InDir(Batch[i].filename)' = InDir(Batch[i].filename)
      BY <1>1 DEF InDir
    <3>4. Begun' = {InDir(Batch[i].filename) : i \in 1 .. filenumber - 1}
      BY <2>2, <3>3 DEF Begun
    <3>5. ASSUME NEW i \in 1 .. filenumber - 1
          PROVE  InDir(Batch[i].filename) # gone
      <4>1. i \in DOMAIN Batch /\ filenumber \in DOMAIN Batch /\ i # filenumber
        <5>1. DOMAIN Batch = 1 .. Len(Batch)
          BY BatchAssumption, LenProperties DEF BatchAssumption
        <5> QED
          BY <1>7, <2>5, <5>1
      <4>2. dir \in Dirs
        BY DEF AllTypes, UtilityTypeOK
      <4>3. Resolve(dir \o Batch[i].filename) # Resolve(dir \o Batch[filenumber].filename)
        BY <2>9, <4>1, <4>2 DEF Distinct
      <4> QED
        BY <3>2, <4>3 DEF InDir
    <3>6. 1 .. filenumber = (1 .. filenumber - 1) \cup {filenumber}
      BY <2>5
    <3> QED
      BY <2>3, <3>1, <3>2, <3>4, <3>5, <3>6 DEF Begun
  <2>10. ShelfLeft'
    BY <1>4, <1>6, <2>2, <2>7, <2>8, <2>9 DEF ShelfLeft
  <2> QED
    BY <1>1, <1>5, <2>10
<1> QED
  BY <1>1, <1>8, <1>9

LEMMA StartKeepsTalk ==
  ASSUME AllTypes, Stage, Shelf, Start
  PROVE  Stage' /\ Shelf' /\ pc' = "hello"
<1>1. /\ pc = "start" /\ pc' = "hello" /\ reply' = "YMODEM_RECEIVE"
      /\ UNCHANGED <<mailbox, filenumber, filename, dir, disk, names, verified, failed, vdp>>
  BY DEF Start
<1>2. Silent
  BY <1>1 DEF Stage, Answered, Greeted, HeaderSaid, DataSaid, CheckSaid, EofSaid, EndSaid, AbortSaid
<1>3. Flow' = Flow
  BY <1>1 DEF Flow, Pending, mailbox, vdp
<1>4. Answered'
  BY <1>1, <1>2, <1>3 DEF Silent, Answered, Idle, Even, vdp
<1>5. Shelf'
  BY <1>1, AgonKeepsShelf
<1> QED
  BY <1>1, <1>4, <1>5 DEF Stage

LEMMA HelloKeepsTalk ==
  ASSUME AllTypes, Stage, Shelf, Hello
  PROVE  Stage' /\ IF pc' = "returned" THEN ShelfLeft' ELSE Shelf'
<1>1. /\ pc = "hello" /\ taken # <<>> /\ Use
      /\ UNCHANGED <<filenumber, filename, dir, disk, names, verified, failed, vdp>>
  BY DEF Hello
<1>2. Flow # <<>>
  BY <1>1, NothingSaid
<1>3. Greeted
  BY <1>1, <1>2 DEF Stage, Silent, Answered, HeaderSaid, DataSaid, CheckSaid, EofSaid, EndSaid,
     AbortSaid, Idle
<1>4. Len(Flow) = 1
  BY <1>3 DEF Greeted, Said
<1>5. taken = Flow /\ Pending = <<>> /\ unsent = <<>>
  <2>1. Len(taken) \in Nat /\ Len(taken) <= Len(Flow)
    BY StartOfFlow
  <2>2. Len(taken) # 0
    <3> HIDE DEF Byte
    <3> QED
      BY <1>1, FlowParts, EmptySeq
  <2> QED
    BY <1>4, <2>1, <2>2, PartIsAll
<1>6. Idle' /\ Even(0)' /\ Even(0)
  BY <1>1, <1>3, <1>5, UsedUp DEF Greeted, Even
<1>7. Shelf'
  BY <1>1, AgonKeepsShelf
<1>8. CASE Flow = <<67>> /\ phase = "header" /\ vfile = 1
  <2>1. pc' = "commands" /\ reply' = "ready"
    BY <1>5, <1>8 DEF Hello
  <2>2. phase' = "header" /\ vfile' = 1
    BY <1>1, <1>8 DEF vdp
  <2>3. Len(Batch) \in Nat
    BY BatchAssumption, LenProperties DEF BatchAssumption
  <2>4. Answered'
    BY <1>6, <2>1, <2>2, <2>3 DEF Answered, Even
  <2> QED
    BY <1>7, <2>1, <2>4 DEF Stage
<1>9. CASE Flow = <<0>> /\ phase = "silent"
  <2>1. pc' = "returned" /\ reply' = "none"
    BY <1>5, <1>9 DEF Hello
  <2>2. phase' = "silent"
    BY <1>1, <1>9 DEF vdp
  <2>3. Silent'
    BY <1>6, <2>1, <2>2 DEF Silent
  <2>4. filenumber' = 0 /\ Len(verified') = 0
    BY <1>6 DEF Even
  <2>5. ShelfLeft'
    BY <1>7, <2>2, <2>4 DEF Shelf, ShelfLeft
  <2> QED
    BY <2>1, <2>3, <2>5 DEF Stage
<1> QED
  BY <1>3, <1>8, <1>9 DEF Greeted, Said

Talk ==
  CASE pc = "undefined" -> TooLong /\ Shelf
    [] pc = "returned"  -> Stage /\ ShelfLeft
    [] OTHER            -> Stage /\ Shelf

\* get_files goes on no more.
LEMMA UndefinedStays ==
  ASSUME Talk, pc = "undefined", [Next]_vars
  PROVE  Talk'
<1>1. ~Agon
  BY DEF Agon, Start, Read, Hello, Header, DataPacket, CheckCrc, EndOfFile, EndOfBatch, Abort,
     Overflow, Command
<1>2. UNCHANGED agon
  BY <1>1 DEF Next, Vdp, SayHello, SayHeader, SayData, SayCheck, SayEof, SayEnd, SayAbort, Say,
     Interrupt, vars
<1>3. Shelf' /\ pc' = "undefined"
  BY <1>2, AgonKeepsShelf DEF agon, Talk
<1> QED
  BY <1>3 DEF Talk, TooLong

LEMMA OverflowKeepsTalk ==
  ASSUME AllTypes, Stage, Shelf, Overflow
  PROVE  Talk'
<1>1. pc' = "undefined" /\ UNCHANGED <<filenumber, filename, dir, disk, names, verified, failed>>
  BY DEF Overflow
<1>2. TooLong
  BY OverflowOfName
<1>3. Shelf'
  BY <1>1, AgonKeepsShelf
<1> QED
  BY <1>1, <1>2, <1>3 DEF Talk, TooLong

LEMMA AgonKeepsTalk ==
  ASSUME AllTypes, Talk, Agon, ~Read
  PROVE  Talk'
<1>1. pc # "returned" /\ pc # "undefined"
  BY DEF Agon, Start, Hello, Header, DataPacket, CheckCrc, EndOfFile, EndOfBatch, Abort, Overflow,
     Command
<1>2. Stage /\ Shelf
  BY <1>1 DEF Talk
<1>3. CASE Start
  BY <1>2, <1>3, StartKeepsTalk DEF Talk
<1>4. CASE Hello
  <2>1. pc' \in {"commands", "returned"}
    BY <1>4 DEF Hello
  <2> QED
    BY <1>2, <1>4, <2>1, HelloKeepsTalk DEF Talk
<1>5. CASE Header
  BY <1>2, <1>5, HeaderKeepsTalk DEF Talk
<1>6. CASE DataPacket
  BY <1>2, <1>6, DataKeepsTalk DEF Talk
<1>7. CASE CheckCrc
  BY <1>2, <1>7, CheckKeepsTalk DEF Talk
<1>8. CASE EndOfFile
  BY <1>2, <1>8, EofKeepsTalk DEF Talk
<1>9. CASE EndOfBatch
  BY <1>2, <1>9, EndKeepsTalk DEF Talk
<1>10. CASE Abort
  BY <1>2, <1>10, AbortKeepsTalk DEF Talk
<1>11. CASE Overflow
  BY <1>2, <1>11, OverflowKeepsTalk
<1> QED
  BY <1>3, <1>4, <1>5, <1>6, <1>7, <1>8, <1>9, <1>10, <1>11 DEF Agon

LEMMA MovesKeepTalk ==
  ASSUME Talk, pc # "undefined", Flow' = Flow, UNCHANGED <<agon, phase, vfile, vpos, reply>>
  PROVE  Talk'
<1>1. Stage'
  BY FlowKeepsStage DEF Talk
<1>2. UNCHANGED <<filenumber, filename, dir, disk, names, verified, failed, phase, pc>>
  BY DEF agon
<1> QED
  BY <1>1, <1>2, AgonKeepsShelf DEF Talk

Conversation == overruns = 0 => Talk

LEMMA TalkHolds == Spec => []Conversation
<1>1. Init => Conversation
  <2> SUFFICES ASSUME Init PROVE Talk
    BY DEF Conversation
  <2>1. /\ pc = "start" /\ filenumber = 0 /\ reply = "none" /\ phase = "hello" /\ vfile = 1
        /\ verified = <<>> /\ taken = <<>> /\ seen = TRUE /\ unsent = <<>>
        /\ names = {}
    BY DEF Init, MailboxInit
  <2>2. Flow = <<>>
    BY <2>1, ConcatEmptySeq DEF Flow, Pending
  <2>3. Len(verified) = 0 /\ Len(Batch) \in Nat /\ verified \in Seq(File)
    BY <2>1, BatchAssumption, LenProperties, EmptySeq DEF BatchAssumption
  <2>4. Stage
    BY <2>1, <2>2, <2>3 DEF Stage, Silent, Idle, Even
  <2>5. Session = {}
    BY <2>1 DEF Session, Named
  <2>6. Begun = {}
    BY <2>1 DEF Begun
  <2>7. Verified
    BY <2>3 DEF Verified
  <2>8. Shelf
    <3>1. names = {Batch[i].filename : i \in 1 .. filenumber}
      BY <2>1
    <3> QED
      BY <2>1, <2>3, <2>5, <2>6, <2>7, <3>1 DEF Shelf
  <2> QED
    BY <2>1, <2>4, <2>8 DEF Talk
<1>2. AllTypes /\ Mailbox /\ Conversation /\ [Next]_vars => Conversation'
  <2> SUFFICES ASSUME AllTypes, Mailbox, Conversation, [Next]_vars, overruns' = 0
               PROVE  Talk'
    BY DEF Conversation
  <2>1. overruns \in Nat /\ (overruns' = overruns \/ overruns' = overruns + 1)
    <3>1. overruns \in Nat
      BY AgonAssumption DEF AgonAssumption, Mailbox, Types
    <3>2. CASE Interrupt \/ Read
      <4>1. seen \in BOOLEAN
        BY DEF Mailbox, Types
      <4>2. Interrupt => overruns' = overruns \/ overruns' = overruns + 1
        BY <4>1 DEF Interrupt
      <4>3. Read => overruns' = overruns
        BY DEF Read, vdp
      <4> QED
        BY <3>1, <3>2, <4>2, <4>3
    <3>3. CASE ~Interrupt /\ ~Read
      BY <3>3, ProgramKeeps
    <3> QED
      BY <3>1, <3>2, <3>3
  <2>2. Talk
    BY <2>1 DEF Conversation
  <2>3. SUFFICES ASSUME pc # "undefined" PROVE Talk'
    BY <2>2, UndefinedStays
  <2>4. CASE Interrupt
    BY <2>1, <2>2, <2>4, <2>3, InterruptKeepsFlow, MovesKeepTalk
  <2>5. CASE Read
    BY <2>2, <2>5, <2>3, ReadKeepsFlow, MovesKeepTalk
  <2>6. CASE Vdp /\ ~Interrupt
    <3>1. Stage' /\ UNCHANGED agon /\ pc # "returned"
      BY <2>2, <2>6, <2>3, SayKeepsTalk DEF Talk
    <3>2. UNCHANGED <<filenumber, filename, dir, disk, names, verified, failed, pc>>
      BY <3>1 DEF agon
    <3> QED
      BY <2>2, <2>3, <3>1, <3>2, AgonKeepsShelf DEF Talk
  <2>7. CASE Agon /\ ~Read
    BY <2>2, <2>7, AgonKeepsTalk
  <2>8. CASE UNCHANGED vars
    <3>1. Flow' = Flow /\ UNCHANGED <<agon, phase, vfile, vpos, reply>>
      BY <2>8 DEF vars, mailbox, vdp, Flow, Pending
    <3> QED
      BY <2>2, <2>3, <3>1, MovesKeepTalk
  <2> QED
    BY <2>4, <2>5, <2>6, <2>7, <2>8 DEF Next
<1> QED
  BY <1>1, <1>2, TypesHold, MailboxHolds, PTL DEF Spec

-----------------------------------------------------------------------------
(* What follows. *)

LEMMA VerifiedDomain ==
  ASSUME Verified
  PROVE  DOMAIN verified = 1 .. Len(verified) /\ DOMAIN Batch = 1 .. Len(Batch)
         /\ \A i \in DOMAIN verified : i \in DOMAIN Batch /\ verified[i] = Batch[i]
<1>1. verified \in Seq(File) /\ Len(verified) <= Len(Batch)
      /\ \A i \in 1 .. Len(verified) : verified[i] = Batch[i]
  BY DEF Verified
<1>2. DOMAIN verified = 1 .. Len(verified) /\ Len(verified) \in Nat
  <2> HIDE DEF File
  <2> QED
    BY <1>1, LenProperties
<1>3. DOMAIN Batch = 1 .. Len(Batch) /\ Len(Batch) \in Nat
  BY BatchAssumption, LenProperties DEF BatchAssumption
<1> QED
  BY <1>1, <1>2, <1>3

LEMMA TalkVerified ==
  ASSUME Talk
  PROVE  Verified
  BY DEF Talk, Shelf, ShelfLeft

\* While no byte is lost, what was verified is the batch as it was sent, from
\* its first file on and in its order.
THEOREM VerifiedAsSent == Spec => [](overruns = 0 => VerifiedIsSent)
<1>1. ASSUME Conversation, overruns = 0 PROVE VerifiedIsSent
  BY <1>1, TalkVerified, VerifiedDomain DEF Conversation, VerifiedIsSent
<1> QED
  BY <1>1, TalkHolds, PTL

\* While no byte is lost and the card works, at any time, and whatever ends the
\* transfer, of the files that headers named the card has verified ones and at
\* most one other: the last one announced.
THEOREM OnlyLastIncomplete == Spec => [](overruns = 0 => OnlyLastUnverified)
<1>1. ASSUME Conversation, overruns = 0 PROVE OnlyLastUnverified
  BY <1>1 DEF Conversation, OnlyLastUnverified, Understood, Talk, Shelf, ShelfLeft
<1> QED
  BY <1>1, TalkHolds, PTL

LEMMA FilesCounted ==
  ASSUME Distinct, dir \in Dirs, filenumber \in 0 .. Len(Batch)
  PROVE  Cardinality(Begun) = filenumber
<1> DEFINE I == 1 .. filenumber
           f == [i \in I |-> InDir(Batch[i].filename)]
<1>1. filenumber \in Nat /\ filenumber <= Len(Batch) /\ Len(Batch) \in Nat
  BY BatchAssumption, LenProperties DEF BatchAssumption
<1>2. DOMAIN Batch = 1 .. Len(Batch)
  BY BatchAssumption, LenProperties DEF BatchAssumption
<1>3. f \in Surjection(I, Begun)
  BY DEF Surjection, Begun
<1>4. f \in Injection(I, Begun)
  <2>1. ASSUME NEW i \in I, NEW j \in I, f[i] = f[j] PROVE i = j
    <3>1. Resolve(dir \o Batch[i].filename) = Resolve(dir \o Batch[j].filename)
      BY <2>1 DEF InDir
    <3>2. i \in DOMAIN Batch /\ j \in DOMAIN Batch
      BY <1>1, <1>2
    <3> QED
      BY <3>1, <3>2 DEF Distinct
  <2>2. f \in [I -> Begun]
    BY <1>3 DEF Surjection
  <2> HIDE DEF f
  <2> QED
    BY <2>1, <2>2 DEF Injection, IsInjective
<1>5. IsFiniteSet(I) /\ Cardinality(I) = filenumber
  BY <1>1, FS_Interval
<1> HIDE DEF f, I
<1>6. Cardinality(Begun) = Cardinality(I)
  BY <1>3, <1>4, <1>5, FS_Surjection
<1> QED
  BY <1>5, <1>6

\* If every name means the same file with and without the directory, no two
\* mean the same one, no byte is lost and the card works, get_files returns the
\* number of files it leaves behind, all verified, wherever in the batch the
\* transfer ended.
THEOREM CountOfFilesKept == Distinct => (Spec => [](overruns = 0 => CountIsKept))
<1> SUFFICES ASSUME Distinct PROVE Spec => [](overruns = 0 => CountIsKept)
  OBVIOUS
<1>1. ASSUME Conversation, AllTypes, overruns = 0 PROVE CountIsKept
  <2> SUFFICES ASSUME pc = "returned", DeletesItsOwn, ~failed
               PROVE  /\ \A path \in Session : IsVerified(path)
                      /\ filenumber = Cardinality(Session)
    BY DEF CountIsKept, Understood
  <2>1. ShelfLeft /\ dir \in Dirs
    BY <1>1 DEF Conversation, Talk, AllTypes, UtilityTypeOK
  <2> QED
    BY <2>1, FilesCounted DEF ShelfLeft
<1> QED
  BY <1>1, TalkHolds, TypesHold, PTL

\* While no byte is lost, whatever the files, the length of a packet and the
\* moments at which bytes arrive: get_files writes outside its arrays only if a
\* name is too long for filename; and if the card works, names lead to different
\* files and the VDP ends the batch, no file was refused, and every one of the
\* batch is on the card as it was sent.
THEOREM EveryFileReceived == Distinct => (Spec => []AllReceived)
<1> SUFFICES ASSUME Distinct PROVE Spec => []AllReceived
  OBVIOUS
<1>1. ASSUME Conversation, AllTypes PROVE AllReceived
  <2>1. ASSUME overruns = 0, pc = "undefined"
        PROVE  \E i \in DOMAIN Batch : Len(Batch[i].filename) >= NameSize
    BY <1>1, <2>1 DEF Conversation, Talk, TooLong
  <2>2. ASSUME pc = "returned", phase # "silent", overruns = 0, ~failed
        PROVE  /\ filenumber = Len(Batch)
               /\ \A i \in DOMAIN Batch : LET path == InDir(Batch[i].filename) IN
                    path \in DOMAIN disk /\ disk[path] = Batch[i].data
    <3>1. Stage /\ ShelfLeft /\ dir \in Dirs
      BY <1>1, <2>2 DEF Conversation, Talk, AllTypes, UtilityTypeOK
    <3>2. phase = "ended"
      BY <2>2, <3>1 DEF Stage, Silent, Answered, Greeted, HeaderSaid, DataSaid, CheckSaid, EofSaid,
         EndSaid, AbortSaid
    <3>3. filenumber = Len(Batch) /\ Session = Begun /\ \A path \in Session : IsVerified(path)
      BY <2>2, <3>1, <3>2 DEF ShelfLeft
    <3>4. Verified
      BY <3>1 DEF ShelfLeft
    <3>5. ASSUME NEW i \in DOMAIN Batch
          PROVE  /\ InDir(Batch[i].filename) \in DOMAIN disk
                 /\ disk[InDir(Batch[i].filename)] = Batch[i].data
      <4> DEFINE path == InDir(Batch[i].filename)
      <4>1. path \in Session
        BY <3>3, <3>4, VerifiedDomain DEF Begun
      <4>2. PICK j \in DOMAIN verified : path = InDir(verified[j].filename) /\ disk[path] = verified[j].data
        BY <3>3, <4>1 DEF IsVerified
      <4>3. j \in DOMAIN Batch /\ verified[j] = Batch[j]
        BY <3>4, VerifiedDomain
      <4>4. Resolve(dir \o Batch[i].filename) = Resolve(dir \o Batch[j].filename)
        BY <4>2, <4>3 DEF InDir
      <4>5. i = j
        BY <3>1, <4>3, <4>4 DEF Distinct
      <4> QED
        BY <4>1, <4>2, <4>3, <4>5 DEF Session
    <3> QED
      BY <3>3, <3>5
  <2> QED
    BY <2>1, <2>2 DEF AllReceived
<1> QED
  BY <1>1, TalkHolds, TypesHold, PTL
==============================================================================
