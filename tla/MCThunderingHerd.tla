-------------------------- MODULE MCThunderingHerd --------------------------
(* Instances of ThunderingHerd for TLC; the .cfg files give the constants. *)
EXTENDS ThunderingHerd
=============================================================================
