--------------------------- MODULE MCFinancePull ---------------------------
(* Instances of FinancePull for TLC; constants come from the .cfg files.    *)
EXTENDS FinancePull
=============================================================================
