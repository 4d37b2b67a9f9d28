--------------------------- MODULE ReceiverHistory ---------------------------
(***************************************************************************)
(* The receiver with a history variable: the bytes that began the last two *)
(* turns in which anything was heard.  Every turn writes it, none reads    *)
(* it.  It tells what the counter of CANs must remember.                   *)
(***************************************************************************)
EXTENDS YmodemReceiver

VARIABLE heard   \* the byte before the last, and the last; 0 for none

hvars == <<vars, heard>>

HInit == Init /\ heard = <<0, 0>>

HeardTurn == tx = <<>> /\ Hear /\ heard' = <<heard[2], Head(rx)>>

OtherTurn ==
  /\ \/ tx = <<>> /\ (Start \/ Silence \/ Finish)
     \/ Deliver
     \/ CarryAway
  /\ UNCHANGED heard

HSpec == HInit /\ [][HeardTurn \/ OtherTurn]_hvars

-----------------------------------------------------------------------------
(* Properties. *)

\* Two CANs cancel a session, whatever silence lies between them, and one does
\* not: when a session ends on a CAN the byte heard before it was a CAN too, so
\* neither noise on an idle line nor a CAN on either side of a block ends it.
\* (A silent sender may end it after a CAN as after anything else.)
CancelledByTwo ==
  /\ heard = <<CAN, CAN>> => aborted
  /\ aborted /\ heard[2] = CAN /\ timeout_counter = 0 => heard[1] = CAN
==============================================================================
