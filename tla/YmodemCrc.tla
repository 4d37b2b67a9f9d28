------------------------------- MODULE YmodemCrc -------------------------------
(***************************************************************************)
(* The checks: CRC-16 of a block and CRC-32 of a file on the PC, by a      *)
(* library that shifts bit by bit, and CRC-32 of a file on the Agon, by a  *)
(* table.  The other modules only have a function Crc of bytes; this one   *)
(* says what it is and what they rely on.  The CRC-32 of the PC is only    *)
(* called by the session's debug listing, but it is the repository's other *)
(* definition of the check the Agon compares with the VDP's.               *)
(*                                                                         *)
(* A word is the set of the positions of its one bits: exclusive or is the *)
(* symmetric difference, shifting and reversing move the positions.        *)
(***************************************************************************)
EXTENDS Integers, Sequences

CONSTANTS
  ByteBits,        \* bits of a byte, 8
  Bits16, Poly16,  \* width and polynomial of the check of a block: 16, 0x1021
  Bits32, Poly32,  \* and of a file: 32, 0x04C11DB7
  MaxLength,       \* bound on the bytes of a text
  MaxTexts         \* bound on the texts of a behaviour

ASSUME CrcAssumption ==
  /\ ByteBits \in Nat \ {0}
  /\ Bits16 \in Nat /\ Bits16 % ByteBits = 0 /\ Poly16 \subseteq 0 .. Bits16 - 1
  /\ Bits32 \in Nat /\ Bits32 % ByteBits = 0 /\ Poly32 \subseteq 0 .. Bits32 - 1
  /\ 0 \in Poly16 \cap Poly32

Byte == SUBSET (0 .. ByteBits - 1)

VARIABLES
  text,        \* the bytes added so far
  crc16, crc32,\* the PC's two objects
  crc32result, \* the Agon's register
  finalized,   \* crc32_finalize has been called for this text
  texts        \* how many texts there were before

vars == <<text, crc16, crc32, crc32result, finalized, texts>>

Xor(v, w) == (v \ w) \cup (w \ v)
Ones(bits) == 0 .. bits - 1
Reverse(w, bits) == {bits - 1 - i : i \in w}

-----------------------------------------------------------------------------
(* The library: most significant bit first. *)

\* mutant: the bit is looked at after the shift
ShiftBitLate(crc, bits, poly) ==
  LET shifted == {i + 1 : i \in crc \ {bits - 1}}
  IN  IF bits - 1 \in shifted THEN Xor(shifted, poly) ELSE shifted
ShiftBit(crc, bits, poly) ==
  LET shifted == {i + 1 : i \in crc \ {bits - 1}}
  IN  IF bits - 1 \in crc THEN Xor(shifted, poly) ELSE shifted

XorIn(crc, value, bits) == Xor(crc, {i + bits - ByteBits : i \in value})

AddByte(crc, value, bits, poly) ==
  LET after[n \in 0 .. ByteBits] ==
        IF n = 0 THEN XorIn(crc, value, bits) ELSE ShiftBit(after[n - 1], bits, poly)
  IN  after[ByteBits]

\* CRC16 crc(0x1021): nothing reversed, starts at 0, calc() is the register.
Restart16 == {}
Add16(crc, value) == AddByte(crc, value, Bits16, Poly16)
Calc16(crc) == crc

\* CRC32 crc: starts at all ones, reversed in and out, inverted at the end.
Restart32 == Ones(Bits32)
Add32(crc, value) == AddByte(crc, Reverse(value, ByteBits), Bits32, Poly32)
Calc32(crc) == Xor(Reverse(crc, Bits32), Ones(Bits32))

\* add(array, length)
AddAll16(crc, array) ==
  LET after[n \in 0 .. Len(array)] ==
        IF n = 0 THEN crc ELSE Add16(after[n - 1], array[n])
  IN  after[Len(array)]

\* The two bytes send_block puts behind the block.
Bytes16 == Bits16 \div ByteBits
LowByteAt(crc, shift) == {i - shift : i \in crc \cap shift .. shift + ByteBits - 1}
\* mutant: low byte first
TrailerLowFirst(crc) == [k \in 1 .. Bytes16 |-> LowByteAt(crc, (k - 1) * ByteBits)]
Trailer(crc) == [k \in 1 .. Bytes16 |-> LowByteAt(crc, (Bytes16 - k) * ByteBits)]

\* get_block adds block and trailer and asks for 0.
CrcVerified(block, trailer) == Calc16(AddAll16(Restart16, block \o trailer)) = {}

-----------------------------------------------------------------------------
(* The Agon: least significant bit first, a byte at a time. *)

\* The entries, which the source has as literals; Crc32Table compares them.
Table == [index \in Byte |->
  LET after[n \in 0 .. ByteBits] ==
        IF n = 0 THEN index
        ELSE LET shifted == {i - 1 : i \in after[n - 1] \ {0}}
             IN  IF 0 \in after[n - 1] THEN Xor(shifted, Reverse(Poly32, Bits32)) ELSE shifted
  IN  after[ByteBits]]

TableStep(crc, value) ==
  LET index == Xor(crc \cap Ones(ByteBits), value)
  IN  Xor({i - ByteBits : i \in crc \ Ones(ByteBits)}, Table[index])

Inverted(crc) == Xor(crc, Ones(Bits32))

\* mutant: the register is not set again
InitializeNothing == crc32result
Initialize == Ones(Bits32)

-----------------------------------------------------------------------------

Init ==
  /\ text = <<>> /\ finalized = FALSE /\ texts = 0
  /\ crc16 = Restart16 /\ crc32 = Restart32 /\ crc32result = Ones(Bits32)

Add ==
  /\ ~finalized /\ Len(text) < MaxLength
  /\ \E value \in Byte :
       /\ text' = Append(text, value)
       /\ crc16' = Add16(crc16, value)
       /\ crc32' = Add32(crc32, value)
       /\ crc32result' = TableStep(crc32result, value)
  /\ UNCHANGED <<finalized, texts>>

\* calc() leaves the objects as they are; crc32_finalize inverts the register.
Finalize ==
  /\ ~finalized
  /\ finalized' = TRUE /\ crc32result' = Inverted(crc32result)
  /\ UNCHANGED <<text, crc16, crc32, texts>>

NextText ==
  /\ finalized /\ texts < MaxTexts
  /\ text' = <<>> /\ finalized' = FALSE /\ texts' = texts + 1
  /\ crc16' = Restart16 /\ crc32' = Restart32 /\ crc32result' = Initialize

Next == Add \/ Finalize \/ NextText

Spec == Init /\ [][Next]_vars

-----------------------------------------------------------------------------
(* Properties. *)

\* Long division of polynomials over the field of two elements.
Remainder(dividend, top, divisor, degree) ==
  LET rest[k \in degree .. top] ==
        LET p == IF k = top THEN dividend ELSE rest[k + 1]
        IN  IF k \in p THEN Xor(p, {i + k - degree : i \in divisor \cup {degree}}) ELSE p
  IN  rest[degree]

\* The text as a polynomial, its first byte's highest bit the highest power.
Polynomial(bytes) == UNION
  {{i + (Len(bytes) - n) * ByteBits : i \in bytes[n]} : n \in DOMAIN bytes}

\* The check of a block is the remainder of the block, moved up by its width,
\* divided by the generator: what another YMODEM program computes.
RemainderOfText ==
  Calc16(crc16) = Remainder({i + Bits16 : i \in Polynomial(text)},
                            Len(text) * ByteBits + Bits16, Poly16, Bits16)

\* get_block, which runs the check over block and trailer and asks for 0,
\* accepts the trailer send_block writes behind the block, and no other.
OnlyTrailerVerified ==
  \A trailer \in [1 .. Bytes16 -> Byte] :
    CrcVerified(text, trailer) <=> trailer = Trailer(Calc16(crc16))

\* The two programs mean the same by a CRC-32: table, byte order and inversion
\* on the Agon give, for every text and after any other, what the bits give on
\* the PC.
AgonAgreesWithPc == finalized => crc32result = Calc32(crc32)
==============================================================================
