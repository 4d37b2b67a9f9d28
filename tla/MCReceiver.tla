------------------------------ MODULE MCReceiver ------------------------------
(***************************************************************************)
(* A receiver fed with whole, damaged, truncated and misplaced blocks, in  *)
(* any order: everything a sender, or a line with nobody at the other end, *)
(* may send it.                                                            *)
(***************************************************************************)
EXTENDS ReceiverHistory, TLC
LOCAL INSTANCE SequencesExt

\* A polynomial in the payload: it tells the payloads used here apart.
MCCrc(payload) == 1000 + FoldLeft(LAMBDA a, x : (31 * a + x) % 9973, 7, payload)

Header(name, size) == SendBlock(SOH, 0, Block0(name, size))
Data(number) == SendBlock(SOH, number, <<43, 2>>)
Damaged(block) == [block EXCEPT ![HeaderLen + 1] = @ + 1]
Cut(block) == SubSeq(block, 1, HeaderLen + 1)

MCUnits ==
  { Header(41, 3), Header(42, 2),
    Data(0), Data(1), Data(2), Data(3), SendBlock(STX, 1, <<43, 2, 43>>),
    Damaged(Data(1)), Cut(Data(1)), Cut(SendBlock(SOH, 0, EmptyBlock0)),
    SendBlock(SOH, 0, EmptyBlock0),
    <<EOT>>, <<CAN>>, <<9>> }
==============================================================================
