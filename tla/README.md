# agon-ymodem: specifications and proofs

agon-ymodem moves files between a PC and an Agon computer over a serial line with
the YMODEM protocol. A PC program sends or receives; on the Agon side the VDP (a
second processor, whose firmware is not in the repository) speaks YMODEM on the
line and hands bytes to a small MOS utility. Line numbers below are those of the
repository's files; `ymodem.cpp` is `src/pc/ymodem.cpp`.

## 1. The system

| Component | State it keeps | Operations | What makes it correct |
|---|---|---|---|
| Wire format, `ymodem.cpp:129-209, 425-488` | none (static block buffers) | `get_block`, `is_end_of_batch`, `send_block`, `make_ymodem_block0` | a block that arrives whole is the block sent; anything else is recognised as damaged, cut or a control byte |
| PC receiver, `ymodem.cpp:651-763` | expected number, offset, receiving or not, three counters, done/aborted | one turn of the receive loop per block, then `send_abort`, `writeFiles` | what is acknowledged is stored; nothing is stored twice or in the wrong file; it ends |
| PC sender, `ymodem.cpp:490-641` | current file, offset, block number, retries, the loop it is in | seven retry loops, each of which sends (or not) and reads one answer | EOT and Done only after everything was acknowledged; numbers in step with offsets; it ends |
| File session, `ymodem.cpp:211-420` | up to 128 files: name, size, buffer, fill pointer | `addFile`, `addData`, `writeFiles`, `readFiles` | holds the files named or received; writes the whole ones |
| Agon receive utility, `agon/src/main.c:73-160` | open file, file count, running CRC-32 | the handshake, commands 0-4 and abort from the VDP | what is verified is what was sent; a file whose CRC fails is removed, the count is that of files kept |
| Agon send utility, `main.c:162-228` | remaining files and bytes | header, data and CRC messages to the VDP | the batch announced is the batch sent |
| VDP mailbox, `serial.asm` | last key count seen | `getbyte`, `getblock`, `putblock` | every byte once, in order |
| CRCs, `pc/CRC*.cpp`, `agon/src/crc32.asm` | running remainder | restart, add, calc | equals the polynomial division |
| Device detection, `pc/serial_enum*.c` | none | enumerate, filter, choose | exactly one candidate among those looked at, or none chosen |
| Serial port and clock, `pc/serial.c`, `millis.c` | none of their own | `serial_open`, reads | opened with the speed asked for or not at all |
| Command lines, `pc/main.c:37-125`, `agon/src/main.c:247-314` | mode, device, speed | the option loop, then the port and the sender or receiver | the files handed on are those typed |
| `getopt`, `agon/src/getopt.c` | `optind`, the segment of operands skipped, the letters left of a word | one option per call, `exchange` | operands stay in order, arguments go with their options |

**How they interact.** The two YMODEM programs share nothing but the line: two byte
streams. The receiver drives: it asks with `C`, answers blocks with `ACK` or `NAK`,
and stays silent about a block that stopped short. The sender resends after any
answer that is not `ACK` and after a timeout. Both timers are `YMODEM_TIMEOUT`, per
byte. The receiver calls its session on every header (`addFile`) and data block
(`addData`), and once at the end (`writeFiles`); until then files are in memory only.
The sender fills its session (`readFiles`) before it opens the conversation. Before that `main`
calls `getopt` until the options are over, looks for a port (`serial_autodetect`) if none was named, and opens it. On the
Agon, the utility and the VDP exchange single bytes through a key mailbox in one
direction and the MOS character output in the other.

**What is hard.** Nothing in an answer says which block it answers, and the sender
throws nothing away before a resend. Equal timers let either side expire first after a
loss, so the rest of a cut block may be read as control bytes. Numbers wrap after 256
blocks, on both sides, and two loops of the sender share one counter. The receiver
keeps two counts of the same file. Acknowledgements go out before the data are stored.
Errors accumulate over a whole session, silence counts only at some block numbers.
`PROJECT.json` lists each such hazard with its line and the properties aimed at it.

## 2. The modules

| Module | Models |
|---|---|
| `YmodemWire` | bytes on the line: `SendBlock`, `GetBlock`, `IsEndOfBatch` |
| `YmodemReceiver` | `ymodem_receive_cpp` with the receiving session |
| `ReceiverHistory` | the same with a history variable, the last two bytes heard, for what its CAN counter must remember |
| `YmodemSender` | `ymodem_send_cpp` after the files are read |
| `SendSession` | `readFiles` with `addFile` |
| `Getopt` | `getopt` with short options, call by call, and what a command line means |
| `SerialDetect` | enumeration, filter and choice of a serial device |
| `HeaderCodec` | the text of block 0, written and parsed |
| `Program` | `main` of both utilities, over the four modules above |
| `BatchDelivery` | the abstract specification: files arrive in order, each grows to what was sent, Done is said of a whole batch only |
| `YmodemTransfer` | `YmodemSender` and `YmodemReceiver` joined by a line with faults; implements `BatchDelivery` |
| `VdpMailbox` | the VDP's one-byte mailbox, its interrupt, and `getbyte` in its three accesses |
| `AgonReceive` | `get_files` of the Agon utility, over `VdpMailbox`, with the VDP that feeds it |
| `AgonSend` | `check_files` and `send_files` of the Agon utility, with the VDP that takes its messages apart |
| `YmodemCrc` | the CRC library of the PC, the table CRC-32 of the Agon, the trailer of a block |
| `YmodemWireProofs` | lemmas about what `SendBlock`, `GetBlock` and the cut of a file into blocks yield |
| `YmodemReceiverProofs`, `YmodemSenderProofs` | theorems about each program on its own |
| `YmodemTransferProofs` | theorems about a transfer under any trouble; the invariant of one that loses whole messages, what each step does to it, and the refinement |
| `ProgramProofs` | theorems about `SendSession` and `Program`: `getopt`, detection, block 0, `readFiles` |
| `AgonReceiveProofs`, `AgonSendProofs` | theorems about the two halves of the Agon utility, the mailbox included |
| `YmodemCrcProofs` | theorems about the three checks |
| `Crc32Table` | the 256 literals of `crc32.asm`, which TLC compares with `YmodemCrc`'s `Table` |
| `MCReceiver`, `MCSender`, `MCTransfer`, `MCSession`, `MCProgram`, `MCAgonReceive`, `MCAgonSend`, `MCCrc` | instances for TLC |

**YmodemWire.** A byte is a natural number and a line a sequence of them. Payload sizes
and the number of block numbers are constants. The two CRC bytes are one symbol, the
function `Crc` of the padded payload; of block 0 the name is one symbol, the decimal
size another, the rest zero. `GetBlock(bytes, expected)` is `get_block` over the bytes
that can be read before its timer expires, and `AfterBlock` what is left of them.

**YmodemReceiver.** Variables have the names of the C++ locals. `Init` is the state after
the assignments of lines 667-674; one step is one turn of the loop, and there is one
action for each way through the `switch`:

| Lines | Action |
|---|---|
| 682-689 | `Silence` |
| 697-702 | `EndOfBatch` |
| 703-707 | `IncompleteBlock` |
| 708-721 | `HeaderBlock`, with `AddFile` (355-386) |
| 722-734 | `DataBlock`, with `WriteLen` (724-729) and `AddData` (393-405) |
| 736 | `BadBlock` |
| 738-744 | `EndOfTransmission` |
| 745-750 | `Cancel` |
| 751-752 | `StrayByte` |
| 759-762 | `Finish`, with `WriteFiles` (310-344) |

What lines 681-692 do to the line and the counters is `Heard`, a conjunct of every action
that heard a byte; the test of line 754 is part of `CountError`. `files[i].data` stands for
both `received` and the distance from `buffer` to `bufptr`, which `addData` moves
together. `HostFails` lets `malloc`, `fopen` and `fwrite` fail at any call. After a short `fwrite` (338-340) what was written
of the file stays and `writeFiles` goes on with the next: `WrittenLengths` is how much of each file reaches the disk.

**YmodemSender.** `pc` names the loop the function is in, `retry` is the loop counter;
`TryAgain` is the end of a turn that was not answered as it should be, with the message
printed when the loop has run out. The 1K loop (554-580) and the 128-byte loop (583-612)
are one pair of actions, `SendData` and `DataReply`, whose block size `ChunkStart` is the
first loop's condition: it can only turn from one to the other once, as in the code.

**SendSession.** One step is one turn of the loop of `readFiles`. `Bound` is the index the
reference `f` is bound to, before the loop. A read past the end of a buffer is recorded
in `spilled` and may crash the program; where the surplus bytes go otherwise is left out.

**Getopt.** What `getopt` keeps between calls is a record, a call (`GetoptCall`) maps it to the next one. A word is a
sequence of one-character strings, and indices are those of C, with `argv[0]` left out. `Advance` is the way to the next
word (360-435): `Permute`, then `SkipDashes`, then `OpenWord`; `ShortOption` is the way from a letter to its argument (583-602, 725-771).
`Exchange` repeats `ExchangeTurn`, the body of `exchange`'s loop, often enough. The module models both orderings. The Agon's is the one line 272 sets, `AgonOrdering`, and never
another. The PC program uses its system's getopt, which is outside the repository (`SystemOrdering`, external: on Linux it permutes, on macOS it does not); the
branches for PERMUTE in `getopt.c` are dead code there and serve as its description. `Operands` says what the words of a command
line are by reading them once from left to right, without moving any.

**SerialDetect and HeaderCodec.** Operators without state. A device attached is its node and whether the name has one of the
three patterns. In `HeaderCodec` a text is made of one-character strings, the zero byte the empty one, and numbers are written and read digit by digit;
the size passes a `uint32_t` (`SizeCount` values) on its way.

**Program.** Extends `SendSession`, so that the session is read as part of the program. One action per call of `getopt` with the case
of the `switch` it leads to (`Option`), and one per outcome of each step after it: `Detect` (`main.c:74`), `SerialOpen` (77-81),
`StartSend` and `StartReceive` (86-120) with their refusals. `host` selects the options, the ordering and whether there is a port to find; on the Agon
`check_files` (285) is part of `StartSendAgon`, with its limit on the length of a name (`CheckFiles`), and its send loop is `AgonSend`'s. A program ends in phase `ended`; usage text and
return codes are left out. What the session then sends, `YmodemTransfer` models.

**YmodemTransfer.** The sender's `tx` is the receiver's `rx`, and the other way round. The line
is FIFO and may drop everything under way (`Burst`), one answer (`LoseAnswer`) or one byte of what the sender sends (`Lose`), or change one
(`Corrupt`, into any byte of `Noise`). `Discard` empties a direction whose reader has no open port. `Die` stops a
program: the sender sends no CAN, the receiver writes nothing. How much of this a behaviour may meet is its `trouble`, chosen
at the start from the set `Troubles`: how many line faults and of which kinds, how many
early timeouts, and which programs may be interrupted. `BlocksWhole` says that a block arrives as it was sent or not at all. So one run can ask its properties under
several kinds of trouble without asking them under all at once.

Time is abstracted to the order in which timers expire. A read may time out when
nothing is left to read. While the other program can still act this is an *early* timeout, a
program or line slower than 1.2 s, and happens at most `trouble.late` times; when both are
stuck either timer may expire first. Per-byte timers are kept: a program that finds the beginning
of a block may wait for the rest or, when the other is stuck too, see it cut short.

`Files` is what the sender's session holds. Because of `readFiles` (section 5) the second
buffer of a real batch has arbitrary contents; the transfer does not depend on what they
are, and a batch of several files is sent all the same.

**VdpMailbox and AgonReceive.** An interrupt stores a byte in `keyascii` and counts `vkeycount` up. `getbyte`
(`serial.asm:91-105`) and the loop of `getblock` (32-58) compare the counter (`Wait`), load it again and
store it (`Store`), and load the byte (`Fetch`), with interrupts enabled; each access is a step. Nothing
holds the interrupt back until the reader is done, so the model lets it come too early, which it
counts in `overruns`. `AgonReceive` reads a command of `get_files` (`main.c:97-159`) byte by byte and acts on it in
one step when it is complete; between two bytes `get_files` writes nothing that anybody sees. One action per
`case`: `Header` (103-123), `DataPacket` (124-131), `CheckCrc` (132-144), `EndOfFile` (145-149),
`EndOfBatch` (100-102), `Abort` (150-157); `Hello` is `set_VDP_ymodem`. Lengths pass a
24-bit `unsigned int` (`Length`), and a length of 0 makes `getblock` wait for 2^24 bytes (`Block`). A name goes behind the directory as it came (117-119): the path is
`Resolve(dir \o name)`, where `Resolve` is what MOS makes of a string and may lead anywhere; it is a constant, and the run's walks through `.` and `..`. `filename[100]` and `buffer[1024]`
have their sizes: the byte that does not fit, and one that goes through `ptr` before a header has set it, is `Overflow`, after which the program is `undefined` and the model stops.
The CRC register is what it went through since `crc32_initialize`, `Unset` before the first and `Inverted` where `crc32_finalize` inverts it in place.
MOS calls may fail (`MayFail`); the card is a function from paths to data. The VDP is
external: it sends commands in the order `get_files` expects them, each after the answer to the one before, and may abort between any two.

**AgonSend.** One action per turn of `send_files` (183-228) that can be told apart: `OpenFile` with the
messages before a file's data, `OpenFails`, `SendChunk`, `SendCrc`, `SendEnd`, `Final`. An integer of
`writeint` is one symbol on the line; the size is taken modulo 2^24, as `getfilesize` loads it
(`filesize.asm:10-27`), and counted down without a sign (`Minus`). A read that fails brings nothing and the loop goes round again.
The VDP takes the line apart by the lengths in it, and drops a file whose CRC does not fit.

**YmodemCrc.** A word is the set of positions of its ones. `AddByte` is `CRC16::_add` and `CRC32::_add` (89-105 of both files),
which differ in width and in the reversal of the byte; `Trailer` and `CrcVerified` are the bytes `send_block` appends (484-485)
and what `get_block` asks of them (183-185); `TableStep` is the loop of `crc32.asm` (96-129), on the
table that `Table` defines. The 256 entries in `crc32.asm:152-215` are literals: `Crc32Table` has them as they stand there, and its assumption `TableAsWritten`, which TLC evaluates in `crc`, says that they are the
entries `Table` gives for 8-bit bytes and the polynomial 0x04C11DB7. The PC calls CRC-32 only in
`debug`; the VDP's own CRC-32 is outside the repository.

Each module also holds, marked *mutant*, the altered definitions used to see that every
property can fail: a dropped check, a missing cut, a wrong comparison.

## 3. Runs

All runs use narrow data: two or three payload bytes where the code has 128 and 1024
(four and five in the transfers, so that block 0 holds its two fields and a zero, and a
file of 17 bytes is three 1K blocks and a padded one), and four block numbers instead of 256, so
that numbers wrap within a file of a handful of blocks (eight in `transfer_wild`, where they must not). The retry and error limits are
the code's (3) or smaller (the code's 32 errors are 1 to 3), so that they are reached.

| Run | Checks | Shows |
|---|---|---|
| `receiver` | `TypeOK`, `StoreSound`, `CancelledByTwo`, `DiskFromSession`, `AckedIsStored`, `FilesOnlyGrow` | a receiver fed 14 kinds of units (headers, data with every number, 1K, damaged, cut, EOT, CAN, stray) in any order, with `malloc`, `fopen` and `fwrite` failing at any call; two files |
| `sender` | `TypeOK`, `NumberMatchesOffset`, `EotAfterAll`, `SessionEnds` | a sender answered ACK, NAK, CAN, C or nothing at any time; four files (both block sizes with a wrap, exactly two 1K blocks, empty, short) |
| `transfer` | `NeverAhead`, `DiskHasNoGaps`, `EndsOnClosingBlock`, `ImplementsDelivery`, `OrphanGivesUp`, `HeardDoneIsWritten`, `SenderEnds` | three losses of blocks or answers, anywhere; or two of all that is under way and either program, or both, interrupted at any time; or three early timeouts on a line that loses nothing; files full of control bytes |
| `transfer_wild` | `ReceivedIsPrefix`, `WholeFilesWritten` | one byte changed into any of ten, every control byte and the values of block numbers among them, and an early timeout; or two losses of bytes, blocks or answers, an early timeout and the sender interrupted |
| `program` | `OneFileHeld`, `NoSpillBehindLargest`, `AllOrNothing`, `FilesInOrder`, `AutodetectedIsOnly`, `HeaderArrives` | every command line of up to four words out of thirteen (modes, a cluster, device and speed with the argument inside or behind, `--`, five files, a directory) under both orderings and on the Agon, eight sets of devices, every failure; files of 0, 1, 12 and 17 bytes where sizes have four bits and names two characters, in block 0 and for `check_files` |
| `agon_receive` | `TypeOK`, `LatestByteSeen`, `VerifiedIsSent`, `CountIsKept`, `OnlyLastUnverified`, `OthersKept`, `AllReceived`, `ReceiveEnds` | three files (two packets, empty, one packet), into the current directory or another, an abort between any two commands, a failing card, two bytes that come too early; a counter of four values, lengths of one byte, arrays for a name of five and a packet of two; a first name of three bytes, so that its header with one byte lost passes for a check, and a third, `../C`, that leads out of the directory |
| `agon_send` | `TypeOK`, `GotIsSent`, `ShortBatchShows`, `SendEnds` | every command line of one to three names out of six: files of two chunks, of one, empty, too large for the size field, missing, with too long a name; a card that fails after the check |
| `crc` | `RemainderOfText`, `OnlyTrailerVerified`, `AgonAgreesWithPc` | every text of up to three four-bit bytes, twice in a row; checks of 8 and 16 bits; and once the table's literals at full width |
| `session_batch` | `EveryFileHeld` (violated) | section 5 |
| `transfer_wrap` | `EndedBySender` (violated) | section 5 |
| `transfer_unclosed` | `DoneIsWritten` (violated) | section 5 |
| `agon_options` | `OperandsComeLast` (violated) | section 5 |

`CHECK_DEADLOCK` is off because the programs end. Two files are enough for the
properties that relate a file to its predecessor or successor; a third would repeat the
step from one to the next, which `sender` checks with four. Four words make `exchange` take both of its branches
and several turns, and three files are one more than the session of the run holds; the scratch of three devices and room for two are both passed. Three faults are as many as the
turns of a retry loop, so both the recovered and the given-up outcome occur.

**Fairness.** `YmodemSender!FairSpec` and `YmodemTransfer!FairSpec` assume that each program, when it
can take a step, eventually does, and that the line carries bytes on. A read of the
code is a loop on `read` and a monotonic clock (`serialRx_byte_t`, 79-90): it returns with a
byte or after its timeout, so weak fairness on the program's step, timeout included, is
what the code gives. Nothing is assumed about which answer comes or whether any does.
The exception is `WaitReceiver` (510-512), which has no limit and needs a byte: the
liveness properties start after it. `AgonReceive!FairSpec` and `AgonSend!FairSpec` assume that the utility and
the VDP each go on when they can. That is an assumption on the VDP's firmware; of the utility it says only that it
runs. In `AgonSend` fairness is on the steps without a failure of the card (`Agon /\ UNCHANGED failed`),
so that no failure is ever due, and one that happens is one that the card chose.

Some properties name the trouble they are about, and `transfer_wild` asks for less than `transfer`: the strongest ones are not true
under all of it, and where they stop is part of the result. What follows are traces of the code.

*Bytes lost inside a block.* `NeverAhead`, `DiskHasNoGaps` and `EndsOnClosingBlock` speak of `BlocksWhole`, and `ImplementsDelivery` is checked
only of such lines. Of a block that lost a byte, the receiver waits for one more; the first byte of the resend completes it, it is damaged, gets a NAK, and the rest of the
resend is read byte by byte. So the data decide:

- Block 3 of a file has a payload byte 4 (EOT) and loses a byte. The rest of the resend is 3, 0, 4, ...: NAK for the damaged block, nothing for 3 and 0, then ACK and C for the 4. The sender
  reads the NAK, resends, and takes the ACK for the block (`ymodem.cpp:596`). The EOT ended the receiver's file (738), so the block is gone; with a few 4s
  in the payload the sender reaches Done. A file followed by another is then written with a tail nobody received, since `writeFiles` looks only at the last (313).
- A block that begins with a zero byte and is cut behind it is taken for the closing block whatever its number (line 145 leaves 0, line 697 looks at the block before the error).

What does hold is `ReceivedIsPrefix`: nothing *wrong* is in the session. It too has its conditions:

- `NoWrap`: after an EOT made this way a data block numbered 0 would be taken for a header.
- `HeadersAreText`: if a repeated header loses its first byte, it is read byte by byte, and if its trailer holds an EOT, the file is begun twice. Before that come
  the bytes of its text, and the receiver counts those as errors: `MaxErrors` (32) of them against 128. So the condition is that the text holds no control byte.
- One changed byte, not two: block number and complement are not under the CRC (184-190), and two changed bytes can turn a repeated block 1 into a block 2.
- The check sum tells every other damage. In the run `Crc` does so for the blocks that occur.

*Other limits.*

- `NeverAhead` stops at a late answer, although the delivery is still a correct one: an ACK that arrives after the resend is taken for the answer
  to what was sent next.
- `ImplementsDelivery` holds under losses and under early timeouts, but not under one of
  each: after a late answer the sender stays one answer ahead, and one more loss makes it say Done
  without the last block.
- `DiskHasNoGaps` also fails when a start byte turns into EOT: the file ends early (`EndOfTransmission` asks
  nothing), and another follows it.
- `HeardDoneIsWritten` stops where the closing block can be lost as often as it is sent (section 5).
- `WholeFilesWritten` is about a host that does not fail. `DiskFromSession` says what is on the disk when it does: of a file whose `fwrite` fell short, the beginning.
- `AutodetectedIsOnly` speaks of the devices looked at, the first 64 with a node. The consoles of an ordinary Linux alone are as many, and a second USB device behind them goes unnoticed:
  the first is opened where `README.md:46` has the program list them and exit.
- `HeaderArrives` stops at sizes that 32 bits do not hold.
- A block whose ACK was lost is resent with a number the receiver no longer expects and gets a
  NAK each time, so one lost ACK ends the session with Max retries. That is why `SenderEnds`
  promises an end and not success.
- `OrphanGivesUp` excepts block number 0: there `Silence` is answered without end (line 683 tests `blocknumber`),
  also just after a wrap.
- On the Agon one byte lost in the mailbox can hang the transfer or have a file refused; it can also make `get_files` take the header
  of a file with a name of three bytes for the check of one. Before the first file that check lowers a count of zero (`main.c:140`
  asks nothing, unlike 152), and what is returned is -1; `main` makes no use of it (310). `TypeOK` and `CountIsKept` name that case. Two lost bytes can have
  a file left behind that was never checked. `CountIsKept` and `OnlyLastUnverified` therefore
  ask for at most one (`Understood`) and for a card that works, while `VerifiedIsSent` holds always. It says nothing of the card: V answers the bytes that
  arrived, written or not (143). `ReceiveEnds` excepts an overrun: neither side has a timeout.
- A length read after a lost byte, or a name of 100 bytes and more, is written past its array. `AllReceived` says that without a lost byte only such a name does so. Nothing is said of what
  the program does from there on. The run reaches both arrays' ends; it does not reach a packet before the first header, which needs a first name of two bytes.
- `CountIsKept` is about names that mean the same file with and without the directory (`DeletesItsOwn`), as in the current one. With another one the file whose check failed stays, because `mos_del` gets the
  bare name (`main.c:139`), and a file of that name in the current directory goes: `OnlyLastUnverified` and `OthersKept` say exactly how much.
- `GotIsSent` is about files below 2^24 bytes. A larger one is announced by its size modulo 2^24, and the VDP then
  takes data for messages.

## 4. Proofs

Every theorem holds for all values of the constants that satisfy the named assumptions of its module: any block
sizes of at least 2 with the 1K one the larger, at least two block numbers, any retry and error limits, capacities, files, names
and command lines, any function for a CRC. What the assumptions ask beyond that:

- typing: `TrailerAssumption`, `SessionAssumption`, `FileAssumption`, `BatchAssumption` (names, data and checks are numbers), `WordsAssumption`
  (a word is made of characters other than the zero byte), `AttachmentsAssumption`;
- that a name is what follows the last slash of its path (`BasenameAssumption`), which is how `Program` gives `SendSession` its `Basename`;
- that fewer bytes overrun the mailbox than its counter has values (`AgonAssumption`), that a packet fits the buffer, and that the lengths the VDP sends
  fit the three bytes they are read into and are not 0 for a name (`LengthsAssumption`: a length of 0 is what `Block` reads as 2^24);
- that the size field of block 0 has the digits a size needs and the block room for both fields (`HeaderAssumption`), and that the scratch holds a device and the filter two (`DetectAssumption`);
- arithmetic the provers lack: `PowersAssumption` and `TensAssumption` say that powers are numbers and each the product of the one before.

TLC evaluates all of them in the runs.

| Module | Theorem | States |
|---|---|---|
| `YmodemReceiverProofs` | `TypeCorrect`, `StoreIsSound`, `DiskHoldsSession`, `WholeFilesReachDisk` | `Spec => []` of `TypeOK`, `StoreSound`, `DiskFromSession`, `WholeFilesWritten` |
| | `CancelTakesTwo` | `HSpec => []CancelledByTwo` |
| | `AckedDataIsStored`, `FilesGrowOnly` | `Spec => AckedIsStored`, `Spec => FilesOnlyGrow` |
| `YmodemSenderProofs` | `SenderTypes`, `EotComesLast`, `BlocksAreNumbered` | `Spec => []` of `TypeOK`, `EotAfterAll`, `NumberMatchesOffset` |
| `YmodemTransferProofs` | `WholeFilesReachDisk` | `Spec => []WholeFilesWritten` |
| | `ReceiverStaysSound`, `SenderStaysSound`, `AckedStaysStored` | what the two modules above prove, of the two programs of a transfer |
| | `InStep` | the inductive invariant of a transfer, under `WholeMessages` |
| | `DeliveryImplemented` | `Spec /\ WholeMessages => ImplementsDelivery` |
| | `PrefixReceived`, `DiskHoldsBatch` | `Spec /\ WholeMessages => []` of `ReceivedIsPrefix`, `DiskAsSent` |
| | `EndsAfterSender` | the same of `EndsOnClosingBlock` |
| | `SenderNeverAhead` | the same of `NeverAhead` |
| | `NoGapsOnDisk` | the same of `DiskHasNoGaps`, if `Uninit` is no byte |
| | `DoneReachesDisk` | the same of `DoneAndClosed`, if files can be written and have different names |
| `ProgramProofs` | `AllFilesAnnounced`, `OneFileRead`, `SpillsOnlyLarger` | `Spec => []` of `AllOrNothing`, `OneFileHeld`, `NoSpillBehindLargest` |
| | `OperandsReadAsNamed` | `ProgramSpec => []` of the same three |
| | `OperandsReachMain`, `OnlyDeviceTaken`, `HeadersArrive` | `ProgramSpec => []` of `FilesInOrder`, `AutodetectedIsOnly`, `HeaderArrives` |
| `AgonReceiveProofs` | `NoByteMissed`, `OtherFilesKept`, `TypeCorrect` | `Spec => []` of `LatestByteSeen`, `OthersKept`, `TypeOK` |
| | `VerifiedAsSent`, `OnlyLastIncomplete` | `Spec => [](overruns = 0 => P)` for `VerifiedIsSent`, `OnlyLastUnverified` |
| | `CountOfFilesKept`, `EveryFileReceived` | if the names of the batch mean different files (`Distinct`), `Spec => [](overruns = 0 => CountIsKept)` and `Spec => []AllReceived` |
| `AgonSendProofs` | `TypeCorrect`, `TakenAsSent`, `LastCountTells` | `Spec => []` of `TypeOK`, `GotIsSent`, `ShortBatchShows` |
| `YmodemCrcProofs` | `CheckIsRemainder`, `TrailerIsOnly`, `AgonAgrees` | `Spec => []` of `RemainderOfText`, `OnlyTrailerVerified`, `AgonAgreesWithPc` |

So every invariant that a passing run checks is the subject of a theorem, with the hypotheses named above where there are any.

**Induction.** Several of these results are about functions that run along a text, a command line, a register or a
number. The induction theorems of the library take an operator and cannot be used; instead a claim is proved by its smallest counterexample, which
exists because the natural numbers are well founded (`Least` from `WFMin`): the claim is written as the set of the numbers it fails for, 0
is shown not to be in it, and no number without its predecessor.

**The receiver.** `Inv == TypeOK /\ StoreSound /\ Bounded`. `StoreSound` is what makes the rest work: `addData` takes a block
only if its own count leaves room, `WriteLen` cuts the block by the loop's count, and only because the two are equal does
every accepted block go in (`DataFacts`). Its clause `~receiving_data => blocknumber = 0` is needed to see that no data block is
accepted before a header. `Bounded` keeps the counters within their limits while the session goes on.
For `CancelTakesTwo` the invariant also says what `cancel_counter` remembers (`Remembers`): it is above 0 just when the byte heard last was a CAN.
That `writeFiles` writes the last of several files of one name needs a largest index of a finite set (`Largest`). `OnDisk` adds what
the disk holds once the receiver has closed, whole or as far as `WrittenLengths` goes. The action theorems follow from the same invariant: `OnlyDataAdvances` finds the one action
that moves the number on within a file, `DataAppends` and `FilesGrow` say what it does.

**The sender.** `NumberMatchesOffset` divides the offset by the block sizes; the invariant says instead that there are `k` and `m` with the offset
at `k` 1K blocks and `m` short ones (`AtBlock`), which a step changes by one, and the lemmas of `YmodemWireProofs` take the one to the other.

**A transfer under any trouble.** The invariants of the two programs speak of their own locals and ask of the line only that it carries bytes.
So each step of a program in `YmodemTransfer` is a step of the program's own module, and the other program, the faults and the timers are to it
nothing but a line that moves. These four theorems assume nothing of `trouble`: bytes lost, changed, late, programs interrupted.

**A transfer that loses whole messages.** `WholeMessages` says that no read times out while the other program can still act (`late = 0`) and that the line loses
blocks and answers only (`BlocksWhole`); how often, and who is interrupted, is left open. The hypothesis is needed: section 3 says how one late answer or
a cut block breaks `NeverAhead`, `EndsOnClosingBlock` and `ImplementsDelivery`. The invariant `Inv` says by the loop the sender is in (`Stage`) that the
receiver's session is where the sender believes it to be or one message further (`OneAhead`), that an ACK on the line is the answer
to the message sent last (`Acks`), and that there is one message or one answer under way (`OneMessage`). `CutShort` is the case in which the
receiver has ended a session that the sender has not: then it holds a prefix, and there is an `Excuse` (memory or slots have run out, or
`LooksLikeEnd`: a data block numbered 0 that begins with a zero byte, section 5). The refinement maps a step to a growing prefix, to a closing
message, or to a stutter. `DiskHoldsBatch` joins `Inv` with the receiver's `OnDisk`: a name on the disk
holds the file of that name as it was sent, or a beginning of it where the host failed.

**readFiles.** `FirstBuffer` is the point: the first buffer keeps the size of the first file, holds it until the second name is read, and is
overrun only by a larger one. What the invariant says is shown once of `SendSession` alone and once of `Program` (`SessionKept`), which reaches `readFiles` by way of `main`.

**getopt.** Until `main` leaves the option loop, `Met` holds between calls. It says that the operands met so far stand, in the order typed, between `first_nonopt` and
`last_nonopt`, behind the options read; that from `optind` on the words are as typed (`Ahead`); and that these operands are what the reference reading
`Operands` has collected of the words before `optind`. In the middle of a call the operands stand right in front of `optind` (`Behind`). `exchange` is shown to be a rotation: each turn of its loop swaps the shorter segment to where it belongs and leaves a smaller
rotation to do (`Becomes`), in both branches (`GoesUp`, `GoesDown`), and the turns are enough. So what a call moves are options in front of
operands, never one operand in front of another.

**Detection.** What `Kept` keeps is a choice: there is a function from the places kept to the places of devices that are wanted,
none of them twice, and if there was room left at the end it misses none (`Selects`). So it keeps the first of them (`SelectsFirst`): one left out stands behind all that are kept. One match
of at most `MaxMatches > 1` is therefore the only USB device among the first `Scratch` with a node; counting uses the cardinality of the function's range.

**Block 0.** `Printed` follows the number through the digits written, `Reads` through the digits read, and one undoes the other; a number below `10^SizeDigits`
takes no more than `SizeDigits` digits. `LaidOut` says where in the text the name, the size and the mode stand and that a zero byte follows the
name, which is why the name must hold none (`WordsAssumption`), and the parser finds each where it was put.

**AgonReceive.** `Behind` says how far the reader's counter is behind: by as many bytes as came since it was stored, all but one of
them on top of a byte not read yet, and by at least one if the byte in the mailbox has not been read and is not about to be. As
the overruns are fewer than the counter's values, such a difference is no multiple of them and `getbyte` sees it. `Card` says that no
file but those named is written, wherever their names lead, and none is deleted before `get_files` returns. `TypeCorrect` shows that the unguarded decrement takes the count
below zero only by a check before any header, which ends the loop.

Those three hold whatever bytes are lost. The other four are about a mailbox that is never overrun, and follow from
`Conversation`: as long as `overruns = 0`, what the utility has taken of a command, the byte in the mailbox and the bytes the VDP has
still to send are together one command, or nothing (`Flow`). The `Stage` says which command may be under way at each phase of the VDP and how
many bytes the open file then holds; an integer read is the integer sent (`IntAt`), so a complete command is taken for what it is. `Shelf` says of the
card that every file begun and not in hand is verified, and that the last one is what the VDP has sent of it. `Distinct` is needed where files are
counted: two names of one file are one file on the card. It is a hypothesis of these two theorems and not an assumption on every batch; in the run the names differ too. A
name too long for its array ends the conversation in `undefined` (`TooLong`), and nothing else does.

**AgonSend.** `Laid` says where on the line each of the files under way begins: after the last symbol of the one before, the first of them as many
symbols before the line's beginning as the VDP has taken of it, and that from there on the line holds the symbols of the
file (`Symbol`). `OpenFile`, `SendChunk`, `SendCrc` and `SendEnd` put symbols behind (`SymbolsPut`, `FileSent`, `EndPut`), the VDP takes them away in front (`TakeSymbol`,
`FileTaken`), and `Stage` says what it has made of those. `TypeCorrect` needs none of this and holds also of files too large for three
bytes; the other two are about files that fit (`Fits`), as their properties are.

**The checks.** The register of the Agon is that of the PC read backwards, before and after every bit (`LowShift` against `Shifts`), so `CrcInv` needs no more than that `TableStep`
does a byte's shifts at once: those of the low bits of the register come from the table, the rest of it only moves.
For the remainder, `Divide` takes one step of the long division for every bit of the text; a division is linear in its dividend, and adding a byte
continues it (`RemainderInv`). The trailer is what the register holds, taken apart into bytes: each byte of
it takes the highest byte of the register away and moves the others up (`Takes`). No other byte does, as the generator has a constant term (`CrcAssumption`), so no other trailer leaves 0.

**Only model-checked**, and why:

- liveness (`SenderEnds`, `SessionEnds`, `OrphanGivesUp`, `HeardDoneIsWritten`, `ReceiveEnds`, `SendEnds`): the provers have no rules for fairness and ENABLED;
- `ReceivedIsPrefix` under the loss or change of single bytes; it, `EndsOnClosingBlock`, `DiskHasNoGaps` and `ImplementsDelivery` under early timeouts, as far as the runs ask for them;
- `VerifiedIsSent` and `OnlyLastUnverified` when bytes of a command are lost, and `CountIsKept` with them: they rest on what is then taken for a command, and on `Crc` telling
  apart the data at hand, which no 32-bit check does for all data;
- that the literals of the table are the entries the theorem `AgonAgrees` is about.

## 5. Where the code and what is said of it part

- **Several files on a command line** (`session_batch`). `readFiles` binds
  `ymodem_fileinfo_t &f = files[_filecount]` before its loop (`ymodem.cpp:288`) and reads every file into it (301). With two names
  the first buffer holds the second file, or is overrun by it, and the second holds what `malloc` left there. The usage text
  (`README.md:16`, `src/pc/main.c:22`) offers `file1 [file2 ...]`. `program` shows what does hold: one file is read
  properly, and the overrun needs a file larger than the first.
- **A data block taken for the end of the batch** (`transfer_wrap`). `is_end_of_batch` (129-131) asks for number 0 and a first
  payload byte 0, and is asked before the CRC and of data blocks too. Block 256 of a file, if it begins with a
  zero byte, ends the session on a perfect line. For a block that was cut short the number is still the 0 of line 145, so
  there any data block beginning with a zero byte will do. The file in
  progress is dropped and the sender ends with Max retries.
- **Operands before options** (`agon_options`). The comments of `getopt.c` (106, 292) describe a parser that moves operands behind the
  options by default. The code sets `ordering` to REQUIRE_ORDER (272), so `exchange` is never reached and the first operand ends the options:
  `ymodem dir -r` shows the usage text, and `ymodem -s a -h` asks for a file `-h`. A PC with a permuting getopt reads the same lines otherwise; `FilesInOrder` in
  `program` says what each of them does.
- **Done without an acknowledged end** (`transfer_unclosed`). The loop for the closing block (633-636) is the only one whose
  exhaustion is not an error. If its three copies are lost, the sender says Done; the receiver waits at block number 0 without end
  and writes nothing.

## 6. What is left out, and the plan

Order of work, the most important behaviour first:

1. *(done)* wire, receiver, sender, their composition and the abstract delivery; the receiver's invariants proved; `readFiles`.
2. *(done)* `VdpMailbox` and `AgonReceive`, the mailbox access by access and `get_files` command by command.
3. *(done)* `AgonSend`: `check_files` and `send_files`, with a card that fails between and during the two.
4. *(done)* `YmodemCrc`: the library and the table over narrow words, against polynomial division and each other.
5. *(done)* `HeaderCodec`: the text of block 0 as written and as parsed.
6. *(done)* `Getopt`, `SerialDetect` and `Program`: a command line from `getopt` to the session.
7. *(done)* proofs: the sender, a transfer and its refinement, `readFiles`, the mailbox and the card of `AgonReceive`, `AgonSend`.
8. *(done)* proofs: the conversation of `AgonReceive`, the checks, `getopt` with `exchange`, detection, block 0.
9. Proofs left: under byte losses, that a receiver whose block was cut stores nothing of it and so `ReceivedIsPrefix`; that with one byte lost
   `VerifiedIsSent` follows if `Crc` tells data apart.

Not modelled for good: the terminal settings of `serial.c`, what udev and IOKit do, the clock, the long options, `-W` and RETURN_IN_ORDER
of `getopt.c` (no caller uses them), usage texts and return codes, progress output, `debug` and `readData` (never called). Nor is what a program does after a write
past an array of `get_files`, nor the zero `ymodem.cpp:195` puts one past a name that fills its field.
