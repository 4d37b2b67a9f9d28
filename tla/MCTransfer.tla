------------------------------ MODULE MCTransfer ------------------------------
(***************************************************************************)
(* A sender and a receiver with two files: one of three 1K blocks and one  *)
(* padded block and one of a single short block.                           *)
(***************************************************************************)
EXTENDS YmodemTransfer, TLC
LOCAL INSTANCE SequencesExt

\* Bytes that mean something to one side or the other, one that does not.
Control == {SOH, STX, EOT, ACK, NAK, CAN, REQ, 0, 3, 9}

\* Four blocks, numbered 1, 2, 3 and, where the number wraps, 0: the others begin
\* with a zero byte, as the closing block does.  The file is full of control
\* bytes, and its last block is as long as two of them.
Long  == [filename |-> 41,
          data |-> <<0, EOT, 51, CAN, SOH,  0, EOT, EOT, STX, ACK,  0, 52, EOT, EOT, EOT,
                     EOT, EOT>>]
Short == [filename |-> 42, data |-> <<0, EOT, 52>>]
TwoFiles == <<Long, Short>>

\* A trailer may be a control byte, as number, complement and payload may: those
\* of most blocks sent here are EOT.  Other payloads have trailers that are found
\* nowhere on the line: the CRC tells every damaged block.
Sent(file) ==
  {Block0(file.filename, Len(file.data))}
    \cup {SubSeq(file.data, 5 * k + 1, 5 * k + 5) : k \in 0 .. Len(file.data) \div 5 - 1}
    \cup {Padded(SubSeq(file.data, 5 * (Len(file.data) \div 5) + 1, Len(file.data)), 4)}
MCCrc(payload) ==
  CASE payload \in Sent(Long) \cup {EmptyBlock0} -> EOT
    [] payload \in Sent(Short)                   -> SOH
    [] OTHER -> 1000 + FoldLeft(LAMBDA a, x : (31 * a + x) % 9973, 7, payload)

None  == [faults |-> 0, kinds |-> {}, late |-> 0, mayDie |-> {}]

\* Blocks and answers lost anywhere; or fewer, while a program may be
\* interrupted; or nothing lost but answers come late.
Losses == {[None EXCEPT !.faults = 3, !.kinds = {"burst", "answer"}],
           [None EXCEPT !.faults = 2, !.kinds = {"burst"}, !.mayDie = Programs],
           [None EXCEPT !.late = 3]}

\* A byte changed, or bytes, blocks and answers lost, in a transfer in which an
\* answer comes late and the sender may be interrupted.
Wild == {[None EXCEPT !.faults = 1, !.kinds = {"corrupt"}, !.late = 1],
         [None EXCEPT !.faults = 2, !.kinds = Kinds \ {"corrupt"}, !.late = 1,
                      !.mayDie = {"sender"}]}

\* As many blocks lost as the sender has tries.
ThreeBursts == {[None EXCEPT !.faults = 3, !.kinds = {"burst"}]}

NoTrouble == {None}

\* A file whose fourth block has number 0 and starts with a zero byte.
Wrapping == <<[filename |-> 41, data |-> [i \in 1 .. 17 |-> IF i = 16 THEN 0 ELSE 50 + i]]>>
==============================================================================
