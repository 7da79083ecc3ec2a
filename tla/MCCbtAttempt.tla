---------------------------- MODULE MCCbtAttempt ----------------------------
(* Instances of CbtAttempt for TLC; constants come from the .cfg files.     *)
EXTENDS CbtAttempt, TLC

(* Scores are only compared for equality; requests are interchangeable.     *)
Symmetry == Permutations(Marks) \cup Permutations(Starters) \cup Permutations(Desks)
=============================================================================
