------------------------------ MODULE MCSendSub ------------------------------
(* Instances of SendSub for TLC. *)
EXTENDS SendSub, TLC

\* Threads and accounts are interchangeable (safety runs only).
Symmetry == Permutations(Threads) \cup Permutations(Accounts)
=============================================================================
