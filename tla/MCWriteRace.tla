----------------------------- MODULE MCWriteRace -----------------------------
(* Instances of WriteRace for TLC. *)
EXTENDS WriteRace
=============================================================================
