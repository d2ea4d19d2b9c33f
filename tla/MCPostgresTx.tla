---------------------------- MODULE MCPostgresTx ----------------------------
(* Instances of PostgresTx for TLC; the .cfg files choose the constants. *)
EXTENDS PostgresTx
=============================================================================
