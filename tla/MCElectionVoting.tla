-------------------------- MODULE MCElectionVoting --------------------------
(* Instances of ElectionVoting for TLC; constants come from the .cfg files. *)
EXTENDS ElectionVoting
=============================================================================
