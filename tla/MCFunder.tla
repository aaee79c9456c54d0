-------------------------------- MODULE MCFunder --------------------------------
(* Instances of Funder for TLC. *)
EXTENDS Funder
=============================================================================
