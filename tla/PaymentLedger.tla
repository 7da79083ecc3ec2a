--------------------------- MODULE PaymentLedger ---------------------------
(***************************************************************************)
(* What the books of the two nodes promise about one payment reference each*)
(* however often it is verified, pulled and interrupted.  The cloud records*)
(* it once and may void it.  The LAN books it once, from the cloud or by   *)
(* hand; it takes from the cloud only what was recorded or voided there,   *)
(* gives a receipt only for what it has booked, and takes nothing back.    *)
(***************************************************************************)
EXTENDS Naturals

CONSTANT Refs

VARIABLES
    recorded, voided,   \* cloud: how often a reference is recorded; what is void
    booked, imported,   \* LAN: how often it is booked; what came from the cloud
    cancelled, receipted
vars == <<recorded, voided, booked, imported, cancelled, receipted>>

Init ==
    /\ recorded = [t \in Refs |-> 0] /\ booked = [t \in Refs |-> 0]
    /\ voided = {} /\ imported = {} /\ cancelled = {} /\ receipted = {}

Once(book, t) == book[t] = 0 /\ book' = [book EXCEPT ![t] = 1]

Record(t) ==
    /\ Once(recorded, t)
    /\ UNCHANGED <<voided, booked, imported, cancelled, receipted>>

Void(t) ==
    /\ recorded[t] = 1 /\ voided' = voided \cup {t}
    /\ UNCHANGED <<recorded, booked, imported, cancelled, receipted>>

BookByHand(t) ==
    /\ Once(booked, t) /\ receipted' = receipted \cup {t}
    /\ UNCHANGED <<recorded, voided, imported, cancelled>>

Import(t) ==
    /\ recorded[t] = 1 /\ Once(booked, t)
    /\ imported' = imported \cup {t}
    /\ cancelled' \in {cancelled, cancelled \cup ({t} \cap voided)}
    /\ UNCHANGED <<recorded, voided, receipted>>

Cancel(t) ==
    /\ t \in imported \cap voided
    /\ cancelled' = cancelled \cup {t}
    /\ UNCHANGED <<recorded, voided, booked, imported, receipted>>

Receipt(t) ==
    /\ booked[t] = 1 /\ receipted' = receipted \cup {t}
    /\ UNCHANGED <<recorded, voided, booked, imported, cancelled>>

Next == \E t \in Refs :
    Record(t) \/ Void(t) \/ BookByHand(t) \/ Import(t) \/ Cancel(t) \/ Receipt(t)

Spec == Init /\ [][Next]_vars
=============================================================================
