------------------------------ MODULE MCStateRoot ------------------------------
(* Instances of StateRoot for TLC. *)
EXTENDS StateRoot
=============================================================================
