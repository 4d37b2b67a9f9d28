------------------------------ MODULE VdpMailbox ------------------------------
(***************************************************************************)
(* How a program on the Agon reads from its VDP: through the keyboard's    *)
(* one-byte mailbox.  An interrupt stores a byte in keyascii and counts    *)
(* vkeycount up; getbyte and getblock wait for the counter to change and   *)
(* then load the byte, with interrupts enabled.                            *)
(*                                                                         *)
(* A step is one access of the reader to what the interrupt also touches.  *)
(***************************************************************************)
EXTENDS Integers, Sequences

CONSTANT Counts   \* values of the counter, 256

ASSUME CountsAssumption == Counts \in Nat /\ Counts > 1

VARIABLES
  keyascii, vkeycount, \* written by the interrupt
  keycount,            \* the counter when the reader last looked
  at,                  \* where the reader is: "wait", "store", "fetch"
  taken,               \* what it has read since the program last used it up
  seen                 \* whether the byte in keyascii has been read

mailbox == <<keyascii, vkeycount, keycount, at, taken, seen>>

\* sysvar_init: what the mailbox holds when the program starts is ignored.
MailboxInit ==
  /\ keyascii = 0 /\ vkeycount \in 0 .. Counts - 1
  /\ keycount = vkeycount
  /\ at = "wait" /\ taken = <<>> /\ seen = TRUE

\* The interrupt.
Put(byte) ==
  /\ keyascii' = byte /\ vkeycount' = (vkeycount + 1) % Counts
  /\ seen' = FALSE
  /\ UNCHANGED <<keycount, at, taken>>

\* mutant: the byte is loaded before the counter is stored
FetchFirst == [wait |-> "fetch", fetch |-> "store", store |-> "wait"]
Following  == [wait |-> "store", store |-> "fetch", fetch |-> "wait"]

\* mutant: the counter is taken for one that only grows
HasGrown   == vkeycount > keycount
HasChanged == vkeycount # keycount

\* cp (hl); jr z
Wait ==
  /\ at = "wait" /\ HasChanged
  /\ at' = Following[at]
  /\ UNCHANGED <<keyascii, vkeycount, keycount, taken, seen>>

\* ld a,(hl); ld (keycount),a
Store ==
  /\ at = "store"
  /\ keycount' = vkeycount
  /\ at' = Following[at]
  /\ UNCHANGED <<keyascii, vkeycount, taken, seen>>

\* ld a,(ix+sysvar_keyascii-sysvar_vkeycount)
Fetch ==
  /\ at = "fetch"
  /\ taken' = Append(taken, keyascii) /\ seen' = TRUE
  /\ at' = Following[at]
  /\ UNCHANGED <<keyascii, vkeycount, keycount>>

ReadStep == Wait \/ Store \/ Fetch

\* The program takes what was read; nothing of the mailbox moves.
Use ==
  /\ at = "wait" /\ taken' = <<>>
  /\ UNCHANGED <<keyascii, vkeycount, keycount, at, seen>>

MailboxTypeOK ==
  /\ keyascii \in 0 .. 255
  /\ vkeycount \in 0 .. Counts - 1 /\ keycount \in 0 .. Counts - 1
  /\ at \in {"wait", "store", "fetch"}
  /\ taken \in Seq(0 .. 255) /\ seen \in BOOLEAN
==============================================================================
