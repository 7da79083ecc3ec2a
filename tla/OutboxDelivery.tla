--------------------------- MODULE OutboxDelivery ---------------------------
(***************************************************************************)
(* What an outbox promises about the events of the node it belongs to,     *)
(* whatever messages are lost, repeated or late: an event reaches the other*)
(* side only after it was accepted, it never becomes undelivered, and the  *)
(* origin reports it done only once it was delivered.  The origin may come *)
(* to doubt what it reported, and then sends the event again.              *)
(***************************************************************************)
CONSTANT Events

VARIABLES accepted, delivered, done
vars == <<accepted, delivered, done>>

Init == accepted = {} /\ delivered = {} /\ done = {}

Accept(e) ==
    /\ accepted' = accepted \cup {e}
    /\ UNCHANGED <<delivered, done>>

Deliver(e) ==
    /\ e \in accepted /\ delivered' = delivered \cup {e}
    /\ UNCHANGED <<accepted, done>>

Acknowledge(e) ==
    /\ e \in delivered /\ done' = done \cup {e}
    /\ UNCHANGED <<accepted, delivered>>

Doubt(e) ==
    /\ done' = done \ {e}
    /\ UNCHANGED <<accepted, delivered>>

Next == \E e \in Events : Accept(e) \/ Deliver(e) \/ Acknowledge(e) \/ Doubt(e)

Spec == Init /\ [][Next]_vars
=============================================================================
