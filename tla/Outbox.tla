------------------------------- MODULE Outbox -------------------------------
(***************************************************************************)
(* What the change-notification queue promises: a first-in first-out       *)
(* outbox.  An accepted payload is handed to the notification batch        *)
(* service once, in the order of acceptance, some payloads at a time; a    *)
(* hand-over that fails is not repeated.                                   *)
(***************************************************************************)
EXTENDS Naturals, Sequences

CONSTANT Payloads

VARIABLES pending, delivered

Init == pending = <<>> /\ delivered = <<>>

Accept(p) ==
  /\ pending' = Append(pending, p)
  /\ UNCHANGED delivered

Deliver ==
  \E k \in 1 .. Len(pending) :
    /\ delivered' = delivered \o SubSeq(pending, 1, k)
    /\ pending' = SubSeq(pending, k + 1, Len(pending))

Next == Deliver \/ \E p \in Payloads : Accept(p)

Spec == Init /\ [][Next]_<<pending, delivered>>
=============================================================================
