----------------------------- MODULE BatchDelivery -----------------------------
(***************************************************************************)
(* What a batch transfer promises, whatever the protocol: the files arrive *)
(* in order, one after the other, each growing to what it is at the        *)
(* sender, and the sender says Done only when all of them have arrived.    *)
(***************************************************************************)
EXTENDS Naturals, Sequences

CONSTANT Batch   \* the files sent, a sequence of [filename, data]

VARIABLES
  delivered,     \* what has arrived, a sequence of [filename, data]
  claim          \* what the sender has told its user: "none", "Done" or "Failed"

vars == <<delivered, claim>>

Init == delivered = <<>> /\ claim = "none"

Arriving == Len(delivered)
Whole(i) == delivered[i] = Batch[i]

\* The next file may begin when the one before it has arrived whole.
Announce ==
  /\ Arriving < Len(Batch)
  /\ Arriving > 0 => Whole(Arriving)
  /\ delivered' = Append(delivered, [Batch[Arriving + 1] EXCEPT !.data = <<>>])
  /\ UNCHANGED claim

Extend ==
  /\ Arriving > 0
  /\ \E n \in Len(delivered[Arriving].data) + 1 .. Len(Batch[Arriving].data) :
       delivered' = [delivered EXCEPT ![Arriving].data = SubSeq(Batch[Arriving].data, 1, n)]
  /\ UNCHANGED claim

\* Success is claimed of a whole batch only; failure may be claimed any time.
Claim ==
  /\ claim = "none"
  /\ \/ claim' = "Done" /\ Arriving = Len(Batch) /\ \A i \in DOMAIN Batch : Whole(i)
     \/ claim' = "Failed"
  /\ UNCHANGED delivered

Next == Announce \/ Extend \/ Claim

Spec == Init /\ [][Next]_vars
==============================================================================
