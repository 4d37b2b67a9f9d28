------------------------------ MODULE YmodemWire ------------------------------
(***************************************************************************)
(* The bytes two YMODEM programs exchange: what send_block puts on the     *)
(* serial line and what get_block makes of the bytes that arrive.          *)
(*                                                                         *)
(* A byte is a natural number.  Control bytes keep their values, because   *)
(* sequence numbers and payload bytes can be mistaken for them.  Two       *)
(* fields are one symbol each where the code spends several bytes: the     *)
(* CRC-16 trailer (two bytes) and, in block 0, the file name and the       *)
(* decimal file size.  A file name is a natural number, 0 the empty name.  *)
(***************************************************************************)
EXTENDS Integers, Sequences

CONSTANTS
  Block128,  \* payload of a SOH block: YMODEM_BLOCKSIZE_128, scaled down
  Block1K,   \* payload of a STX block: YMODEM_BLOCKSIZE_1K, scaled down
  SeqCount,    \* number of block numbers: 256, they are kept in a uint8_t
  Crc(_)     \* the trailer computed over a padded payload

ASSUME WireAssumption ==
  /\ Block128 \in Nat /\ Block1K \in Nat /\ SeqCount \in Nat
  /\ 2 <= Block128 /\ Block128 < Block1K
  /\ 2 <= SeqCount

SOH == 1    \* starts a block with a Block128 payload
STX == 2    \* starts a block with a Block1K payload
EOT == 4
ACK == 6
NAK == 21
CAN == 24
REQ == 67   \* 'C', YMODEM_DEFCRC16: asks for a header or for data

Pad == 26   \* CTRL-Z

HeaderLen == 3                 \* start byte, block number, complement
Overhead  == HeaderLen + 1     \* with the one-symbol trailer

Min2(m, n) == IF m <= n THEN m ELSE n

PayloadSize(start) == IF start = SOH THEN Block128 ELSE Block1K
FullLength(start) == PayloadSize(start) + Overhead
StartsBlock(byte) == byte \in {SOH, STX}

\* Block numbers are kept in a uint8_t on both sides.
NextNumberNoWrap(number) == number + 1   \* mutant: a wider type
NextNumber(number) == (number + 1) % SeqCount

-----------------------------------------------------------------------------
(* Sending. *)

Padded(data, size) ==
  [i \in 1 .. size |-> IF i <= Len(data) THEN data[i] ELSE Pad]

Trailer(start, data) == Crc(Padded(data, PayloadSize(start)))

SendBlock(start, number, data) ==
  <<start, number, SeqCount - 1 - number>>
    \o Padded(data, PayloadSize(start)) \o <<Trailer(start, data)>>

\* The payload of block 0; everything after the file size is zero.
Block0(filename, filesize) ==
  [i \in 1 .. Block128 |-> IF i = 1 THEN filename ELSE IF i = 2 THEN filesize ELSE 0]

\* The block 0 that ends a batch is all zero.
EmptyBlock0 == Block0(0, 0)

\* The trailer of every block there may be to send of a file is a symbol of
\* the line.
Sendable(file) ==
  /\ Trailer(SOH, Block0(file.filename, Len(file.data))) \in Nat
  /\ \A first, last \in 1 .. Len(file.data), start \in {SOH, STX} :
       Trailer(start, SubSeq(file.data, first, last)) \in Nat

-----------------------------------------------------------------------------
(* Receiving.  A byte never read is a byte that had not arrived when the   *)
(* per-byte timeout expired, so `bytes' is all that was there to be read.  *)

NoBlock ==
  [length |-> 0, blocktype |-> 0, blocknumber |-> 0, timed_out |-> FALSE,
   end_of_batch |-> FALSE, crc_verified |-> FALSE, correct_blocknumber |-> FALSE,
   filename |-> 0, filesize |-> 0, data |-> <<>>]

\* mutant: the number is not looked at
IsZeroFirst(bytes, length, number) == length > HeaderLen /\ bytes[HeaderLen + 1] = 0

\* block->data still begins with the bytes received, whole block or not.
IsEndOfBatch(bytes, length, number) ==
  length > HeaderLen /\ number = 0 /\ bytes[HeaderLen + 1] = 0

ControlByte(byte) == [NoBlock EXCEPT !.length = 1, !.blocktype = byte]

ShortBlock(bytes) ==
  [NoBlock EXCEPT !.length = Len(bytes), !.blocktype = Head(bytes),
                  !.timed_out = TRUE,
                  !.end_of_batch = IsEndOfBatch(bytes, Len(bytes), 0)]

CrcIgnored(payload, trailer) == TRUE   \* mutant: the check is skipped
CrcVerified(payload, trailer) == trailer = Crc(payload)

WholeBlock(bytes, expected) ==
  LET start   == Head(bytes)
      size    == PayloadSize(start)
      number  == bytes[2]
      payload == SubSeq(bytes, HeaderLen + 1, HeaderLen + size)
  IN  [length |-> FullLength(start), blocktype |-> start, blocknumber |-> number,
       timed_out |-> FALSE,
       end_of_batch |-> IsEndOfBatch(bytes, FullLength(start), number),
       crc_verified |-> CrcVerified(payload, bytes[FullLength(start)]),
       correct_blocknumber |-> number = expected /\ bytes[3] = SeqCount - 1 - number,
       filename |-> payload[1], filesize |-> payload[2], data |-> payload]

GetBlock(bytes, expected) ==
  CASE bytes = <<>>                         -> [NoBlock EXCEPT !.timed_out = TRUE]
    [] bytes # <<>> /\ ~StartsBlock(Head(bytes)) -> ControlByte(Head(bytes))
    [] OTHER -> IF Len(bytes) < FullLength(Head(bytes))
                THEN ShortBlock(bytes)
                ELSE WholeBlock(bytes, expected)

\* Nothing to read, or the beginning of a block whose end has not come.
Incomplete(bytes) ==
  bytes # <<>> => StartsBlock(Head(bytes)) /\ Len(bytes) < FullLength(Head(bytes))

\* What is left on the line after get_block has returned.
AfterBlock(bytes) ==
  SubSeq(bytes, GetBlock(bytes, 0).length + 1, Len(bytes))
==============================================================================
