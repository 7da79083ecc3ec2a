---------------------------- MODULE MCSyncOutbox ----------------------------
(* Instances of SyncOutbox for TLC: what the events are about and what they *)
(* refer to; everything else comes from the .cfg files.                     *)
EXTENDS SyncOutbox, TLC

(* Two LAN events about one record, a cloud event about another.            *)
OneRecord == 1 :> "r" @@ 2 :> "r" @@ 3 :> "c"
NoNeeds == [e \in 1 .. 3 |-> {}]
(* The LAN's first event refers to the record of its second, a third is alone.*)
TwoRecords == 1 :> "r" @@ 2 :> "s" @@ 3 :> "c" @@ 4 :> "t"
FirstNeedsSecond == 1 :> {2} @@ 2 :> {} @@ 3 :> {} @@ 4 :> {}
Symmetry == Permutations(Workers) \cup Permutations(Requests)
=============================================================================
