---------------------------- MODULE MCBalanceRace ----------------------------
(* Instances of BalanceRace for TLC. *)
EXTENDS BalanceRace
=============================================================================
