--------------------------- MODULE OfflineDelivery ---------------------------
(***************************************************************************)
(* What the hub's mailbox promises of an op sealed to somebody who is not  *)
(* there: once the hub has accepted it, it is held until the recipient has *)
(* it in the local store.  Nothing here knows of requests, row ids,        *)
(* batches, crashes or lost replies.                                       *)
(***************************************************************************)
CONSTANTS
    Letter,      \* sealed ops, one for each recipient of an op
    Certain      \* letters the recipient has no reason to turn away

VARIABLE status

Init == status = [l \in Letter |-> "unsent"]

Accept(l) ==
    /\ status[l] = "unsent"
    /\ status' = [status EXCEPT ![l] = "held"]

Deliver(l) ==
    /\ status[l] = "held"
    /\ status' = [status EXCEPT ![l] = "delivered"]

Next == \E l \in Letter : Accept(l) \/ Deliver(l)

Spec == Init /\ [][Next]_status

\* Mail that is held does not wait for ever.
FairSpec == Spec /\ \A l \in Certain : WF_status(Deliver(l))
=============================================================================
