-------------------------- MODULE MCCbtLiveAnswers --------------------------
(* Instances of CbtLiveAnswers for TLC; constants come from the .cfg files. *)
EXTENDS CbtLiveAnswers, TLC

(* Options, questions and submitters are interchangeable in the safety runs.*)
Symmetry == Permutations(Questions) \cup Permutations(Options) \cup Permutations(Submitters)
=============================================================================
