---------------------------- MODULE YmodemTransfer ----------------------------
(***************************************************************************)
(* A sender and a receiver joined by a serial line: two FIFO directions,   *)
(* timers on both sides, and a bounded amount of trouble.                  *)
(*                                                                         *)
(* Time is left out.  A read times out when nothing is left to read; it    *)
(* may do so freely when both programs are stuck (then time passes until   *)
(* one of the two equal timers expires, in either order), and at most      *)
(* trouble.late times while the other program still has something to do,   *)
(* which stands for a program or a line slower than the timeout.           *)
(***************************************************************************)
EXTENDS YmodemWire

CONSTANTS
  MaxRetry, MaxErrors, MaxFiles, HostFails, Uninit, Files,
  Noise,       \* what a corrupted byte may turn into
  Troubles     \* what may go wrong in one behaviour, one or another of these

\* How many line faults there may be and of which kinds, how many timeouts may
\* expire too early, and which programs may be interrupted.
Programs == {"sender", "receiver"}
Kinds == {"burst", "answer", "lose", "corrupt"}
Trouble == [faults : Nat, kinds : SUBSET Kinds, late : Nat, mayDie : SUBSET Programs]

ASSUME TransferAssumption ==
  /\ MaxRetry \in Nat \ {0} /\ MaxErrors \in Nat /\ MaxFiles \in Nat \ {0}
  /\ HostFails \in BOOLEAN /\ Uninit \in Int /\ Noise \subseteq Nat
  /\ Files \in Seq([filename : Nat \ {0}, data : Seq(Nat)]) /\ Files # <<>>
  /\ Trailer(SOH, EmptyBlock0) \in Nat /\ \A i \in DOMAIN Files : Sendable(Files[i])
  /\ Troubles \subseteq Trouble

VARIABLES
  \* the sender
  spc, filecounter, soffset, snumber, retry, message,
  \* the receiver
  rpc, files, rnumber, roffset, receiving_data,
  errors, timeout_counter, cancel_counter, session_done, aborted, disk,
  \* the line: from sender to receiver and back
  down, up,
  \* the trouble of this behaviour, and how much of it there was so far
  trouble, faults, late, alive

svars == <<spc, filecounter, soffset, snumber, retry, message>>
rvars == <<rpc, files, rnumber, roffset, receiving_data, errors, timeout_counter,
           cancel_counter, session_done, aborted, disk>>
line  == <<down, up>>
vars  == <<svars, rvars, line, trouble, faults, late, alive>>

S == INSTANCE YmodemSender WITH
       pc <- spc, offset <- soffset, blocknumber <- snumber,
       rx <- up, tx <- down, Answers <- {}, MaxQueue <- 0

R == INSTANCE YmodemReceiver WITH
       pc <- rpc, blocknumber <- rnumber, offset <- roffset,
       rx <- down, tx <- up, Units <- {}, MaxLine <- 0

Init ==
  /\ S!Init /\ R!Init
  /\ trouble \in Troubles
  /\ faults = 0 /\ late = 0 /\ alive = Programs

-----------------------------------------------------------------------------
(* Which program can go on without a timeout. *)

Dead(program) == program \notin alive

ReceiverStuck == Dead("receiver") \/ rpc # "receive" \/ (R!Running /\ Incomplete(down))
SenderStuck ==
  /\ up = <<>>
  /\ Dead("sender") \/ spc \in S!Awaiting \cup {"start", "waitReceiver", "closed"}

\* A timeout is free when the other side is stuck as well, else it is early.
TimeoutAllowed(otherStuck) ==
  \/ otherStuck /\ UNCHANGED late
  \/ ~otherStuck /\ late < trouble.late /\ late' = late + 1

InTime(ready, otherStuck) == IF ready THEN UNCHANGED late ELSE TimeoutAllowed(otherStuck)

SenderStep ==
  /\ ~Dead("sender")
  /\ \/ (S!Start \/ S!WaitReceiver \/ S!Send) /\ UNCHANGED late
     \/ S!Reply /\ InTime(up # <<>>, ReceiverStuck)
  /\ UNCHANGED <<rvars, trouble, faults, alive>>

ReceiverStep ==
  /\ ~Dead("receiver")
  /\ \/ (R!Start \/ R!Finish) /\ UNCHANGED late
     \/ (R!Silence \/ R!Hear) /\ InTime(~Incomplete(down), SenderStuck)
  /\ UNCHANGED <<svars, trouble, faults, alive>>

-----------------------------------------------------------------------------
(* The line. *)

Without(s, i) == SubSeq(s, 1, i - 1) \o SubSeq(s, i + 1, Len(s))

Fault(kind) ==
  /\ kind \in trouble.kinds /\ faults < trouble.faults
  /\ faults' = faults + 1
  /\ UNCHANGED <<svars, rvars, trouble, late, alive>>

\* Everything on its way is lost, a whole block or an answer.
Burst ==
  /\ Fault("burst")
  /\ \/ down # <<>> /\ down' = <<>> /\ UNCHANGED up
     \/ up # <<>> /\ up' = <<>> /\ UNCHANGED down

\* One of the bytes the receiver answers, each of which is an answer by itself.
LoseAnswer ==
  /\ Fault("answer")
  /\ \E i \in DOMAIN up : up' = Without(up, i)
  /\ UNCHANGED down

\* One byte of what the sender sends: of a block, the rest is left.
Lose ==
  /\ Fault("lose")
  /\ \E i \in DOMAIN down : down' = Without(down, i)
  /\ UNCHANGED up

Corrupt ==
  /\ Fault("corrupt")
  /\ \E b \in Noise :
       \/ \E i \in DOMAIN down : down[i] # b /\ down' = [down EXCEPT ![i] = b] /\ UNCHANGED up
       \/ \E i \in DOMAIN up : up[i] # b /\ up' = [up EXCEPT ![i] = b] /\ UNCHANGED down

\* Nobody has the port open at that end.
Discard ==
  /\ \/ up # <<>> /\ (spc \in {"start", "closed"} \/ Dead("sender")) /\ up' = <<>> /\ UNCHANGED down
     \/ down # <<>> /\ (rpc = "closed" \/ Dead("receiver")) /\ down' = <<>> /\ UNCHANGED up
  /\ UNCHANGED <<svars, rvars, trouble, faults, late, alive>>

\* A user interrupts a program: it does nothing more, the sender does not even
\* send a CAN and the receiver writes nothing.
Die(program) ==
  /\ program \in trouble.mayDie /\ ~Dead(program)
  /\ IF program = "sender" THEN spc \notin {"start", "closed"}
                           ELSE rpc \notin {"start", "closed"}
  /\ alive' = alive \ {program}
  /\ UNCHANGED <<svars, rvars, line, trouble, faults, late>>

Next ==
  \/ SenderStep \/ ReceiverStep
  \/ Burst \/ LoseAnswer \/ Lose \/ Corrupt \/ Discard
  \/ \E program \in Programs : Die(program)

\* Both programs keep running and their timers expire; the line carries on.
Fairness == WF_vars(SenderStep) /\ WF_vars(ReceiverStep) /\ WF_vars(Discard)

Spec == Init /\ [][Next]_vars
FairSpec == Spec /\ Fairness

-----------------------------------------------------------------------------
(* Properties. *)

Stored(i) == [filename |-> files[i].filename, data |-> files[i].data]

\* A block arrives as it was sent or not at all.  Where it does not, the bytes
\* left of it are read as if each began a block or were a control byte, and what
\* they are decides what happens: nothing below is claimed of that.
BlocksWhole == trouble.kinds \subseteq {"burst", "answer"}

\* Some data block, after k of 1K and m short ones, has a number that has
\* wrapped to 0 and begins with a zero byte: to the receiver, the closing block.
LooksLikeEnd ==
  \E i \in DOMAIN Files : \E k, m \in 0 .. Len(Files[i].data) :
    LET size == Len(Files[i].data)
        o    == k * Block1K + m * Block128
    IN  /\ k * Block1K <= size /\ (m > 0 => size - k * Block1K < Block1K) /\ o < size
        /\ (1 + k + m) % SeqCount = 0 /\ Files[i].data[o + 1] = 0

\* Why a receiver may end a session the sender has not ended.
Excuse == HostFails = TRUE \/ Len(Files) > MaxFiles \/ LooksLikeEnd

\* The receiver's session and the sender's last word, seen as a delivery.
Delivery == INSTANCE BatchDelivery WITH
  Batch <- Files,
  delivered <- [i \in DOMAIN files |-> Stored(i)],
  claim <- IF message \in {"none", "Done"} THEN message ELSE "Failed"

\* The two programs implement the delivery of a batch: while BlocksWhole no
\* file is skipped, repeated, reordered or mixed with another, none begins
\* before the one before it is whole, and the sender prints Done only when all
\* are stored.  (A property of behaviours cannot be made to depend on the state
\* trouble is in; the run's troubles are all BlocksWhole.)
ImplementsDelivery == Delivery!Spec

\* What the receiver holds is a beginning of the batch: the i-th file it was
\* announced is the i-th file sent, and the bytes it stored are the first bytes
\* of that file.
HoldsBeginning ==
  \A i \in DOMAIN files :
    /\ i <= Len(Files)
    /\ files[i].filename = Files[i].filename
    /\ files[i].filesize = Len(Files[i].data)
    /\ files[i].data = SubSeq(Files[i].data, 1, Len(files[i].data))

\* The number of a block tells it from every other of its file.
Blocks(size) == (size \div Block1K) + (((size % Block1K) + Block128 - 1) \div Block128)
NoWrap == \A i \in DOMAIN Files : Blocks(Len(Files[i].data)) < SeqCount

\* The bytes of a header before its trailer are text: none is a control byte.
\* So a receiver that reads a repeated header from the middle has counted more
\* stray bytes than it takes before it can find an EOT in the trailer.
HeadersAreText ==
  /\ MaxErrors < Block128
  /\ \A i \in DOMAIN Files :
       {SeqCount - 1, Files[i].filename, Len(Files[i].data)} \cap {SOH, STX, EOT, CAN} = {}

\* It is so of whole blocks, and also, when block numbers do not wrap, of blocks
\* that lose bytes anywhere or have one byte changed.  Two changed bytes can be a
\* block's number and its complement, which no CRC covers.  The CRC is taken to
\* catch every other damage.
ReceivedIsPrefix ==
  (\/ BlocksWhole
   \/ NoWrap /\ HeadersAreText /\ ("corrupt" \in trouble.kinds => trouble.faults <= 1))
  => HoldsBeginning

\* Unless an answer comes after its time, the sender never believes bytes to
\* have arrived that have not: an ACK is taken for the block it answers.
NeverAhead ==
  BlocksWhole /\ trouble.late = 0 /\ ~Excuse /\ spc \in S!DataLoop \cup {"eot", "eotReply"} =>
    Len(files) = filecounter /\ soffset <= Len(files[filecounter].data)

\* A session that was not aborted ends because the sender has nothing more to
\* send.  It is not so: see EndsOnClosingBlock.
EndedBySender ==
  session_done => spc \in {"final", "finalReply", "closed"} /\ filecounter = Len(Files)

\* Of whole blocks, only one that is numbered 0 and begins with a zero byte ends
\* a session before the sender does: no header, no other data block, no block
\* repeated or late.
EndsOnClosingBlock == BlocksWhole /\ ~LooksLikeEnd => EndedBySender

\* No byte the receiver never got reaches the disk, of whole blocks.
DiskHasNoGaps ==
  BlocksWhole => \A name \in DOMAIN disk : \A i \in DOMAIN disk[name] : disk[name][i] # Uninit

\* However the transfer ended on the receiving side, the files that arrived
\* whole are written.
WholeFilesWritten == R!WholeFilesWritten

\* What the user reads out of "Done": every file is on the disk in the end.
\* Until the session ends on the receiving side they are only in memory.
Written(i) == Files[i].filename \in DOMAIN disk /\ disk[Files[i].filename] = Files[i].data
AllWritten == \A i \in DOMAIN Files : Written(i)
DoneIsWritten == message = "Done" ~> AllWritten

\* It is so while fewer messages are lost than the closing block has copies, and
\* nobody interrupts the receiver.
HeardDoneIsWritten ==
  message = "Done" /\ trouble.faults < MaxRetry ~> AllWritten \/ Dead("receiver")

\* A sender that has found its receiver comes to an end, the receiver
\* interrupted or not.
SenderEnds == spc \notin {"start", "waitReceiver"} ~> spc = "closed" \/ Dead("sender")

\* A receiver whose sender has gone gives up and writes what it has, unless it
\* stands at block number 0, waiting for a header (or just past a wrap): there
\* silence is answered without end.
OrphanGivesUp ==
  Dead("sender") ~> [](rpc = "closed" \/ rnumber = 0 \/ Dead("receiver"))
==============================================================================
