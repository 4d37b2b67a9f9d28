------------------------------ MODULE HeaderCodec ------------------------------
(***************************************************************************)
(* The text of block 0: what make_ymodem_block0 makes of a file's name and *)
(* size, and what get_block reads back from it.  A text is a sequence of   *)
(* one-character strings, the zero byte the empty string.                  *)
(***************************************************************************)
EXTENDS Integers, Sequences

CONSTANTS
  NameMax,     \* YMODEM_MAX_NAME_LENGTH, 100
  SizeDigits,  \* YMODEM_FILESIZEDATA_LENGTH, 16
  SizeCount,   \* the sizes a uint32_t holds, 2^32
  HeaderSize   \* the payload of a block 0, 128

\* A name as long as may be and a size of SizeCount leave room for the mode.
ASSUME HeaderAssumption ==
  /\ NameMax \in Nat \ {0} /\ SizeDigits \in Nat \ {0}
  /\ SizeCount \in Nat \ {0} /\ SizeCount <= 10 ^ SizeDigits
  /\ HeaderSize \in Nat /\ NameMax + SizeDigits + 7 <= HeaderSize

\* Facts of arithmetic the proofs need.
ASSUME TensAssumption ==
  /\ 10 ^ 1 = 10 /\ \A d \in 1 .. SizeDigits : 10 ^ d \in Nat
  /\ \A d \in 1 .. SizeDigits - 1 : 10 ^ (d + 1) = 10 * 10 ^ d

NUL == ""
Digit == <<"0", "1", "2", "3", "4", "5", "6", "7", "8", "9">>
DigitSet == {Digit[d] : d \in DOMAIN Digit}

\* printf of an unsigned number.
Decimal(number) ==
  LET text[k \in 0 .. number] ==
        IF k < 10 THEN <<Digit[k + 1]>> ELSE Append(text[k \div 10], Digit[(k % 10) + 1])
  IN  text[number]

\* The beginning of a text up to the first of the characters that stop it, if any.
Until(text, stops) ==
  LET ends == {i \in DOMAIN text : text[i] \in stops}
  IN  IF ends = {} THEN text
      ELSE SubSeq(text, 1, (CHOOSE i \in ends : \A j \in ends : i <= j) - 1)

DigitOf(c) == CHOOSE d \in 0 .. 9 : Digit[d + 1] = c

\* atoi and strtol of a text without sign and space: its leading digits.
Number(text) ==
  LET digits == Until(text, {text[i] : i \in DOMAIN text} \ DigitSet)
      value[i \in 0 .. Len(digits)] ==
        IF i = 0 THEN 0 ELSE 10 * value[i - 1] + DigitOf(digits[i])
  IN  value[Len(digits)]

Cut(text, length) == SubSeq(text, 1, IF Len(text) < length THEN Len(text) ELSE length)

SizeAndMode(filesize) == Decimal(filesize % SizeCount) \o <<" ", "0", "6", "0", "0", NUL>>

ZeroFilled(text) == [i \in 1 .. HeaderSize |-> IF i <= Len(text) THEN text[i] ELSE NUL]

\* mutant: the size begins on the terminator of the name
Block0TextRunOn(filename, filesize) ==
  ZeroFilled(Cut(filename, NameMax) \o SizeAndMode(filesize))

\* The sender's size_t is cut to a uint32_t on the way into the text.
Block0Text(filename, filesize) ==
  ZeroFilled(Cut(filename, NameMax) \o <<NUL>> \o SizeAndMode(filesize))

\* The name is what stands before the first zero byte, as far as there is room;
\* the size is behind the first zero byte that follows.
ParseHeader(text) ==
  LET name == Cut(Until(text, {NUL}), NameMax)
      skip == Len(Until(text, {NUL})) + 1
      size == Cut(Until(SubSeq(text, skip + 1, Len(text)), {" "}), SizeDigits)
  IN  [filename |-> name, filesize |-> Number(size)]
==============================================================================
