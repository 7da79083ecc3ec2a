--------------------------- MODULE MCResultReview ---------------------------
(* Instances of ResultReview for TLC; constants come from the .cfg files.   *)
EXTENDS ResultReview, TLC

(* Marks are only compared; subjects and arms are interchangeable.          *)
Symmetry == Permutations(Marks) \cup Permutations(Subjects) \cup Permutations(Arms)
=============================================================================
