---------------------------- MODULE MCUserFaults ----------------------------
(* Instances of UserFaults for TLC. *)
EXTENDS UserFaults, TLC
=============================================================================
