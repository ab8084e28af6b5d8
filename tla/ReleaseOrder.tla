---------------------------- MODULE ReleaseOrder ----------------------------
(***************************************************************************)
(* What the approval flow promises to the users of one app: every release  *)
(* order is submitted, goes forward through approval and publishing and    *)
(* ends once; one order is under way at a time.  An order that two         *)
(* requests wrote over each other is "lost": nothing is promised of it,    *)
(* nor of the order of the others from then on.                            *)
(***************************************************************************)
EXTENDS Integers

CONSTANT Orders     \* the identities of the orders

VARIABLE state      \* [Orders -> States]

UnderWay == {"pending_approval", "pending_publish"}
Ended == {"already_publish", "rejected_approval", "revoked_publish"}
States == {"none", "lost"} \cup UnderWay \cup Ended

Init == state = [o \in Orders |-> "none"]

Submissions == {"pending_approval", "pending_publish", "already_publish"}

Undisturbed == \A o \in Orders : state[o] # "lost"

\* A new order appears when no other is under way.
Submit(o) ==
    /\ state[o] = "none"
    /\ Undisturbed => \A p \in Orders : state[p] \notin UnderWay
    /\ \E s \in Submissions : state' = [state EXCEPT ![o] = s]

\* What may happen to an order: it goes forward, an end is never left, or it is written over.
May(from, to) ==
    \/ to = "lost"
    \/ from = "pending_approval" /\ to \in {"pending_publish"} \cup Ended
    \/ from = "pending_publish" /\ to \in {"already_publish", "revoked_publish"}

\* Requests move orders; the scheduled job moves several at once.
Advance ==
    /\ state' \in [Orders -> States]
    /\ \A o \in Orders : state'[o] = state[o] \/ May(state[o], state'[o])

Next == Advance \/ \E o \in Orders : Submit(o)

Spec == Init /\ [][Next]_state
=============================================================================
