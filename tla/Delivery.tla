------------------------------ MODULE Delivery ------------------------------
(***************************************************************************)
(* What the delivery of one batch promises, whatever happens between the   *)
(* two devices: the sender calls a batch delivered only when the peer has  *)
(* stored every frame, a delivered batch stays delivered, and the sender   *)
(* gives up its copy of the payload only for a delivered batch.            *)
(***************************************************************************)
EXTENDS FiniteSets

CONSTANT Frame      \* the frames of the batch

VARIABLES
    status,     \* the batch as the sending user sees it
    arrived,    \* the frames the receiving device has stored
    payload     \* the sender's copy: all of it, its manifest only, or gone

vars == <<status, arrived, payload>>

TypeOK ==
    /\ status \in {"open", "delivered", "closed"}
    /\ arrived \subseteq Frame
    /\ payload \in {"full", "manifest", "gone"}

Init ==
    /\ status = "open"
    /\ arrived \in SUBSET Frame
    /\ payload = "full"

Store ==
    /\ \E f \in Frame \ arrived : arrived' = arrived \cup {f}
    /\ UNCHANGED <<status, payload>>

\* The payload may be given up in the same step.
Deliver ==
    /\ status = "open" /\ arrived = Frame
    /\ status' = "delivered"
    /\ payload' \in {payload, "manifest"}
    /\ UNCHANGED arrived

Reclaim ==
    /\ status = "delivered" /\ payload = "full"
    /\ payload' = "manifest"
    /\ UNCHANGED <<status, arrived>>

\* One of the users, or the loss of the payload, ends the batch.
Close ==
    /\ status = "open"
    /\ status' = "closed"
    /\ UNCHANGED <<arrived, payload>>

Reopen ==
    /\ status = "closed" /\ payload = "full"
    /\ status' = "open"
    /\ UNCHANGED <<arrived, payload>>

Vanish ==
    /\ payload' = "gone"
    /\ UNCHANGED <<status, arrived>>

Next == Store \/ Deliver \/ Reclaim \/ Close \/ Reopen \/ Vanish

Spec == Init /\ [][Next]_vars
=============================================================================
