------------------------------- MODULE SendSub -------------------------------
(***************************************************************************)
(* WorkerContext.send_sub and resync_sub (eeztest/workers/base.py): worker *)
(* threads sending from a shared pool of sub-accounts through the shared   *)
(* NonceManager.  A thread takes the account's send lock, reads the node's *)
(* pending count, reserves a nonce, broadcasts, and on an exception rolls  *)
(* back and either obeys the nonce the front named, once, or re-raises.    *)
(* A step is one RPC or one critical section of NonceManager._lock.        *)
(* resync_sub takes no send lock: it may run between any two steps.        *)
(***************************************************************************)
EXTENDS Endpoints

CONSTANTS
    Threads,     \* worker threads
    NoThread,    \* the send lock is free
    MaxSends,    \* bound on the sends of one thread
    MaxResyncs   \* bound on calls of resync_sub

ASSUME SendSubAssumption ==
    /\ NoThread \notin Threads
    /\ MaxSends \in Nat /\ MaxResyncs \in Nat

VARIABLES
    cursor,        \* NonceManager._next, per account
    lock,          \* the holder of each account's send lock
    pc,            \* where each thread is in send_sub
    acct, ep,      \* the account and the endpoint of its current send
    pending,       \* the pending count it read
    nonce,         \* the nonce it uses
    attempt,       \* 1 or 2
    want,          \* the nonce named in the exception, if any
    sends,         \* sends started, per thread
    resyncs,       \* calls of resync_sub
    nonce_resyncs  \* WorkerContext.nonce_resyncs

threadVars == <<pc, acct, ep, pending, nonce, attempt, want, sends>>
vars == <<netVars, cursor, lock, threadVars, resyncs, nonce_resyncs>>

MaybeNonce == Nonces \cup {NoNonce}

TypeOK ==
    /\ NetTypeOK
    /\ cursor \in [Accounts -> MaybeNonce \cup {MaxNonce + 1}]
    /\ lock \in [Accounts -> Threads \cup {NoThread}]
    /\ pc \in [Threads -> {"idle", "lock", "read", "reserve", "cast", "refused", "failed"}]
    /\ acct \in [Threads -> Accounts]
    /\ ep \in [Threads -> Endpoints]
    /\ pending \in [Threads -> Nonces]
    /\ nonce \in [Threads -> Nonces]
    /\ attempt \in [Threads -> {1, 2}]
    /\ want \in [Threads -> MaybeNonce]
    /\ sends \in [Threads -> 0 .. MaxSends]
    /\ resyncs \in 0 .. MaxResyncs
    /\ nonce_resyncs \in Nat

Init ==
    /\ NetInit
    /\ cursor = [a \in Accounts |-> NoNonce]
    /\ lock = [a \in Accounts |-> NoThread]
    /\ pc = [t \in Threads |-> "idle"]
    /\ acct \in [Threads -> Accounts]
    /\ ep \in [Threads -> Endpoints]
    /\ pending = [t \in Threads |-> 0]
    /\ nonce = [t \in Threads |-> 0]
    /\ attempt = [t \in Threads |-> 1]
    /\ want = [t \in Threads |-> NoNonce]
    /\ sends = [t \in Threads |-> 0]
    /\ resyncs = 0
    /\ nonce_resyncs = 0

-----------------------------------------------------------------------------
Goto(t, from, to) == pc[t] = from /\ pc' = [pc EXCEPT ![t] = to]

\* slip: the broadcasts of an account are not serialized
LockIgnored(t) == TRUE

\* NonceManager.send_lock: one lock per account.
LockFree(t) == lock[acct[t]] = NoThread

\* slip: an exception leaves the lock taken
LockKept(t) == lock' = lock

\* The end of the `with send_lock` block, by return or by exception.
Release(t) == lock' = [lock EXCEPT ![acct[t]] = NoThread]

\* A worker calls send_sub; the gas price is read before the lock.
Call(t) == \E a \in Accounts, e \in Endpoints :
    /\ sends[t] < MaxSends
    /\ Goto(t, "idle", "lock")
    /\ acct' = [acct EXCEPT ![t] = a]
    /\ ep' = [ep EXCEPT ![t] = e]
    /\ attempt' = [attempt EXCEPT ![t] = 1]
    /\ want' = [want EXCEPT ![t] = NoNonce]
    /\ sends' = [sends EXCEPT ![t] = @ + 1]
    /\ UNCHANGED <<netVars, cursor, lock, pending, nonce, resyncs, nonce_resyncs>>

Acquire(t) ==
    /\ Goto(t, "lock", "read")
    /\ LockFree(t)
    /\ lock' = [lock EXCEPT ![acct[t]] = t]
    /\ UNCHANGED <<netVars, cursor, acct, ep, pending, nonce, attempt, want, sends,
                   resyncs, nonce_resyncs>>

ReadPending(t) ==
    /\ Goto(t, "read", "reserve")
    /\ \E n \in Nonces : IsPendingCount(acct[t], n) /\ pending' = [pending EXCEPT ![t] = n]
    /\ UNCHANGED <<netVars, cursor, lock, acct, ep, nonce, attempt, want, sends,
                   resyncs, nonce_resyncs>>

\* The pending count cannot be read: the call raises with nothing reserved.
ReadFails(t) ==
    /\ Goto(t, "read", "idle")
    /\ Fault("lost")
    /\ Release(t)
    /\ UNCHANGED <<pool, held, late, drops, cursor, acct, ep, pending, nonce, attempt,
                   want, sends, resyncs, nonce_resyncs>>

Reserve(t) ==
    /\ Goto(t, "reserve", "cast")
    /\ nonce' = [nonce EXCEPT ![t] = Allocated(cursor[acct[t]], pending[t])]
    /\ nonce'[t] \in Nonces
    /\ cursor' = [cursor EXCEPT ![acct[t]] = Allocate(@, pending[t])]
    /\ UNCHANGED <<netVars, lock, acct, ep, pending, attempt, want, sends, resyncs,
                   nonce_resyncs>>

\* The endpoint accepts the transaction: send_sub returns its hash.
Accepted(t) ==
    /\ Goto(t, "cast", "idle")
    /\ Accept(ep[t], acct[t], nonce[t])
    /\ Release(t)
    /\ UNCHANGED <<late, faults, drops, cursor, acct, ep, pending, nonce, attempt, want,
                   sends, resyncs, nonce_resyncs>>

\* The endpoint answers with an error: an exception whose text may name a nonce.
Refused(t) == \E w \in MaybeNonce :
    /\ Goto(t, "cast", "refused")
    /\ Refuse(ep[t], acct[t], nonce[t], w)
    /\ want' = [want EXCEPT ![t] = w]
    /\ UNCHANGED <<netVars, cursor, lock, acct, ep, pending, nonce, attempt, sends,
                   resyncs, nonce_resyncs>>

\* The call ends in a transport error, which names no nonce.
Broken(t) ==
    /\ Goto(t, "cast", "failed")
    /\ BrokenCall(ep[t], acct[t], nonce[t])
    /\ want' = [want EXCEPT ![t] = NoNonce]
    /\ UNCHANGED <<cursor, lock, acct, ep, pending, nonce, attempt, sends, resyncs,
                   nonce_resyncs>>

Obeys(t) == attempt[t] = 1 /\ want[t] # NoNonce /\ want[t] # nonce[t]

\* The first refusal named another nonce: roll back, pin the cursor, retry.
Obey(t) ==
    /\ Goto(t, "refused", "cast")
    /\ Obeys(t)
    /\ cursor' = [cursor EXCEPT ![acct[t]] = ForceNext(want[t])]
    /\ nonce' = [nonce EXCEPT ![t] = want[t]]
    /\ attempt' = [attempt EXCEPT ![t] = 2]
    /\ nonce_resyncs' = nonce_resyncs + 1
    /\ UNCHANGED <<netVars, lock, acct, ep, pending, want, sends, resyncs>>

\* Any other exception: roll back and re-raise.
Raise(t) ==
    /\ pc[t] \in {"refused", "failed"} /\ ~Obeys(t)
    /\ pc' = [pc EXCEPT ![t] = "idle"]
    /\ cursor' = [cursor EXCEPT ![acct[t]] = Rollback(@, nonce[t])]
    /\ Release(t)
    /\ UNCHANGED <<netVars, acct, ep, pending, nonce, attempt, want, sends, resyncs,
                   nonce_resyncs>>

\* A worker calls resync_sub on an account, under no send lock.
ResyncSub(a) ==
    /\ resyncs < MaxResyncs
    /\ resyncs' = resyncs + 1
    /\ cursor' = [cursor EXCEPT ![a] = Resync]
    /\ UNCHANGED <<netVars, lock, threadVars, nonce_resyncs>>

-----------------------------------------------------------------------------
\* The steps of a send in progress.
Step(t) ==
    \/ Acquire(t) \/ ReadPending(t) \/ ReadFails(t) \/ Reserve(t)
    \/ Accepted(t) \/ Refused(t) \/ Broken(t) \/ Obey(t) \/ Raise(t)

Network == NetStep /\ UNCHANGED <<cursor, lock, threadVars, resyncs, nonce_resyncs>>

\* The bounded workload is over.
Finished ==
    /\ \A t \in Threads : pc[t] = "idle" /\ sends[t] = MaxSends
    /\ UNCHANGED vars

Next ==
    \/ \E t \in Threads : Call(t) \/ Step(t)
    \/ \E a \in Accounts : ResyncSub(a)
    \/ Network
    \/ Finished

Spec == Init /\ [][Next]_vars

\* A thread inside send_sub is never descheduled for ever, and every RPC it
\* makes is answered or times out (rpc_call's timeout).
FairSpec == Spec /\ \A t \in Threads : WF_vars(Step(t))

-----------------------------------------------------------------------------
\* What the endpoints have of an account: the nonces a transaction occupies.
Taken == [a \in Accounts |-> pool[a] \cup held[a]]

(***************************************************************************)
(* Broadcasts arrive in order (nonce.py:21-26, base.py:112-115): as long   *)
(* as the front has dropped nothing and no cursor was dropped, no endpoint *)
(* ever refuses a nonce, whichever threads race for the account and        *)
(* whichever requests are lost.                                            *)
(***************************************************************************)
InOrderArrival == drops = 0 /\ resyncs = 0 => \A t \in Threads : pc[t] # "refused"

(***************************************************************************)
(* No gap: whenever the plain node has a nonce of an account it has every  *)
(* lower one, so nothing waits for a nonce nobody will send, whatever      *)
(* broadcasts failed, timed out, or were resynced in between               *)
(* (base.py:69-70, 104-106).                                               *)
(***************************************************************************)
NoGap == \A a \in Accounts : \A n \in pool[a] : 0 .. (n - 1) \subseteq pool[a]

(***************************************************************************)
(* "Concurrent workers sharing the funded pool never collide or gap"       *)
(* (base.py:69-70): the front never holds a transaction whose nonce        *)
(* another accepted transaction of the account already uses.               *)
(***************************************************************************)
NoCollision == \A a \in Accounts : pool[a] \cap held[a] = {}

(***************************************************************************)
(* The same until the front drops something or a cursor is dropped.        *)
(***************************************************************************)
NoCollisionInOrder == drops = 0 /\ resyncs = 0 => NoCollision

(***************************************************************************)
(* One correction is enough (base.py:136-144): a retry with the nonce the  *)
(* front named is refused only if the front has dropped a transaction in   *)
(* between, never because another thread took that nonce.                  *)
(***************************************************************************)
OneCorrectionSuffices == \A t \in Threads :
    pc[t] = "refused" /\ attempt[t] = 2 => want[t] < nonce[t]

(***************************************************************************)
(* A failed send wedges nobody (base.py:104-106): every call of send_sub   *)
(* returns or raises, so its send lock is released.                        *)
(***************************************************************************)
SendEnds == \A t \in Threads : pc[t] # "idle" ~> pc[t] = "idle"

(***************************************************************************)
(* Where the front drops nothing, the sends of the accounts implement the  *)
(* abstract ledger.                                                        *)
(***************************************************************************)
Ledger == INSTANCE NonceLedger WITH taken <- Taken
LedgerSpec == Ledger!Spec

(***************************************************************************)
(* "Concurrent workers sharing the funded pool never collide or gap"       *)
(* (base.py:69-70): until the front drops something, a step occupies the   *)
(* account's next nonce or none, counted over node and front together,     *)
(* though a send through the one overtakes what the other still holds and  *)
(* cursors are rolled back, pinned and dropped in between.                 *)
(***************************************************************************)
LedgerUntilDropped == [][drops' = 0 => Ledger!Next \/ UNCHANGED Taken]_vars

-----------------------------------------------------------------------------
\* The node has every nonce of account a below n.
Filled(a, n) == 0 .. (n - 1) \subseteq pool[a]

\* Inside the `with send_lock` block; holding a reserved nonce.
Inside(t) == pc[t] \in {"read", "reserve", "cast", "refused", "failed"}
Reserved(t) == pc[t] \in {"cast", "refused", "failed"}

\* The send lock excludes: whoever is inside is the holder.
LockInv == \A t \in Threads : Inside(t) => lock[acct[t]] = t

\* Nothing read, reserved or still on the wire lies beyond the node's count.
WithinInv ==
    /\ \A t \in Threads : pc[t] = "reserve" => Filled(acct[t], pending[t])
    /\ \A t \in Threads : Reserved(t) => Filled(acct[t], nonce[t])
    /\ \A a \in Accounts : \A r \in late[a] : Filled(a, r[2])

\* Nor does a cursor, unless a send in progress has just advanced it.
CursorInv == \A a \in Accounts :
    \/ Filled(a, cursor[a])
    \/ \E t \in Threads : Reserved(t) /\ acct[t] = a /\ cursor[a] = nonce[t] + 1

\* With the plain node only, nothing is held and no refusal names a nonce.
PlainInv ==
    /\ \A a \in Accounts : held[a] = {}
    /\ \A t \in Threads : want[t] = NoNonce

(***************************************************************************)
(* The inductive strengthening of NoGap for workers that use the plain     *)
(* node only: whatever failed or timed out, no cursor, reservation or late *)
(* request ever lies beyond the first nonce the node is missing.           *)
(***************************************************************************)
PlainIInv == TypeOK /\ LockInv /\ WithinInv /\ CursorInv /\ PlainInv /\ NoGap

\* The nonce of a retry, and the one a refusal has just named, stay free.
RetryInv == \A t \in Threads :
    /\ pc[t] \in {"lock", "read", "reserve"} => attempt[t] = 1
    /\ pc[t] = "cast" /\ attempt[t] = 2 => nonce[t] \notin Taken[acct[t]]
    /\ pc[t] = "refused" /\ want[t] # NoNonce => want[t] \notin Taken[acct[t]]

(***************************************************************************)
(* The inductive strengthening of OneCorrectionSuffices when no request    *)
(* arrives late: between the refusal that names a nonce and the retry that *)
(* uses it, nobody can take that nonce away.                               *)
(***************************************************************************)
CorrectionIInv ==
    /\ TypeOK /\ LockInv /\ RetryInv /\ OneCorrectionSuffices
    /\ \A a \in Accounts : late[a] = {}
=============================================================================
