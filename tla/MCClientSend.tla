----------------------------- MODULE MCClientSend -----------------------------
(* Instances of ClientSend for TLC. *)
EXTENDS ClientSend, TLC

\* Threads and clients are interchangeable (safety runs only).
Symmetry == Permutations(Threads) \cup Permutations(Accounts)
=============================================================================
