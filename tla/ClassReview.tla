---------------------------- MODULE ClassReview ----------------------------
(***************************************************************************)
(* What the review of a class level promises to whoever reads a report     *)
(* card, whatever requests come in whatever order.  The subjects' marks are*)
(* final once approved.  When all are, the class of one arm goes over the  *)
(* desks of the Dean, the VP and IT, in this order and none left out, and  *)
(* no other arm's beside it.  It comes back from the Dean or the VP, and   *)
(* once public it stays so.  An override by IT ends all promises.          *)
(***************************************************************************)
CONSTANTS Subjects, Arms, Contents

VARIABLES marks, approved, desk, overruled
vars == <<marks, approved, desk, overruled>>

Nowhere == [a \in Arms |-> "teacher"]

Init ==
    /\ marks \in [Subjects -> Contents] /\ approved = {}
    /\ desk = Nowhere /\ overruled = FALSE

Enter(s) ==
    /\ s \notin approved
    /\ \E m \in Contents : marks' = [marks EXCEPT ![s] = m]
    /\ UNCHANGED <<approved, desk, overruled>>

Approve(s) ==
    /\ approved' = approved \cup {s}
    /\ UNCHANGED <<marks, desk, overruled>>

Submit(a) ==
    /\ approved = Subjects /\ desk = Nowhere
    /\ desk' = [desk EXCEPT ![a] = "Dean"]
    /\ UNCHANGED <<marks, approved, overruled>>

Forward(a) ==
    /\ \E hop \in {<<"Dean", "VP">>, <<"VP", "IT">>, <<"IT", "public">>} :
          desk[a] = hop[1] /\ desk' = [desk EXCEPT ![a] = hop[2]]
    /\ UNCHANGED <<marks, approved, overruled>>

Return(a) ==
    /\ desk[a] \in {"Dean", "VP"}
    /\ desk' = [desk EXCEPT ![a] = "teacher"]
    /\ UNCHANGED <<marks, approved, overruled>>

Override == overruled' = TRUE /\ approved' = {} /\ desk' = Nowhere /\ UNCHANGED marks

Next ==
    \/ \E s \in Subjects : Enter(s) \/ Approve(s)
    \/ \E a \in Arms : Submit(a) \/ Forward(a) \/ Return(a)
    \/ Override

Spec == Init /\ [][Next]_vars
=============================================================================
