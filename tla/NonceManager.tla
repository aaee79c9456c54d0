---------------------------- MODULE NonceManager ----------------------------
(***************************************************************************)
(* The operations of the shared nonce allocator (eeztest/nonce.py) on the  *)
(* cursor of ONE (chain, address) key.  Each runs under NonceManager._lock *)
(* and is therefore one atomic step of its caller.  An account of the      *)
(* model IS such a key, after the lower-casing every method applies.       *)
(*                                                                         *)
(* Here and in the other modules a definition marked "slip" is a plausible *)
(* mistake in the operator it precedes; no specification uses it.  The     *)
(* properties were tried against the slips: each of them is caught.        *)
(***************************************************************************)
EXTENDS Integers

\* `_next` has no entry for the key; also "no nonce named in the message".
NoNonce == -1

\* slip: the node's pending count alone
IgnoreCursor(cursor, pending) == pending

\* The nonce handed out: the cursor unless the node's pending count is ahead.
Allocated(cursor, pending) ==
    IF cursor # NoNonce /\ cursor >= pending THEN cursor ELSE pending

\* slip: the reserved nonce is handed out again
NoAdvance(cursor, pending) == Allocated(cursor, pending)

\* The cursor after `allocate`.
Allocate(cursor, pending) == Allocated(cursor, pending) + 1

\* slip: no rollback
KeepReservation(cursor, nonce) == cursor

\* The cursor after `rollback`: only the last reservation can be returned.
Rollback(cursor, nonce) == IF cursor = nonce + 1 THEN nonce ELSE cursor

\* The cursor after `resync`.
Resync == NoNonce

\* The cursor after `force_next`: the pinned value itself.
ForceNext(nonce) == nonce
=============================================================================
