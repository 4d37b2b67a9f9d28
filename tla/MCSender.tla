------------------------------- MODULE MCSender -------------------------------
(***************************************************************************)
(* A sender that is answered anything at any time, or nothing: a file of   *)
(* both block sizes whose block numbers wrap, one that ends with a whole   *)
(* 1K block, and an empty one.                                             *)
(***************************************************************************)
EXTENDS YmodemSender, TLC
LOCAL INSTANCE SequencesExt

MCCrc(payload) == 1000 + FoldLeft(LAMBDA a, x : (31 * a + x) % 9973, 7, payload)

Bytes(n) == [i \in 1 .. n |-> 50 + i]
MCFiles ==
  << [filename |-> 41, data |-> Bytes(18)],
     [filename |-> 42, data |-> Bytes(10)],
     [filename |-> 43, data |-> <<>>],
     [filename |-> 44, data |-> Bytes(3)] >>

MCAnswers == {ACK, NAK, CAN, REQ}
==============================================================================
