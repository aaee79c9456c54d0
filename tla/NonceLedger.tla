----------------------------- MODULE NonceLedger -----------------------------
(***************************************************************************)
(* What nonce.py and the two send paths promise of each account, with no   *)
(* threads, locks, cursors or endpoints: transactions occupy the nonces 0, *)
(* 1, 2, ... one after the other, without a gap and without giving one up. *)
(***************************************************************************)
EXTENDS Integers

CONSTANTS Accounts, MaxNonce

VARIABLE taken   \* the nonces occupied, per account

Init == taken = [a \in Accounts |-> {}]

TakeNext(a) == \E n \in (0 .. MaxNonce) \ taken[a] :
    /\ 0 .. (n - 1) \subseteq taken[a]
    /\ taken' = [taken EXCEPT ![a] = @ \cup {n}]

Next == \E a \in Accounts : TakeNext(a)

Spec == Init /\ [][Next]_taken
=============================================================================
