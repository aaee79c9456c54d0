------------------------------ MODULE ClientSend ------------------------------
(***************************************************************************)
(* The primary key of a chain: ChainClient.next_nonce, rollback_nonce and  *)
(* send (eeztest/rpc.py), Contracts.deploy (contracts.py) and the explicit *)
(* nonce replacement of ProxyBuilder._clear_nonce_gap.  All workers of an  *)
(* instance share one client per chain.                                    *)
(*                                                                         *)
(* `send` reserves and broadcasts under _send_lock, and next_nonce keeps   *)
(* _nonce_lock across the RPC that reads the pending count.  `deploy`      *)
(* reserves its nonce first, outside _send_lock, and hands it to `send` as *)
(* an explicit nonce, which `send` never rolls back.                       *)
(***************************************************************************)
EXTENDS Endpoints

CONSTANTS
    Threads,    \* worker threads
    NoThread,   \* a lock is free
    Deployers,  \* the clients contracts are deployed with
    MaxCalls    \* bound on the calls of one thread

ASSUME ClientSendAssumption ==
    /\ NoThread \notin Threads
    /\ "rpc" \in Endpoints
    /\ Deployers \subseteq Accounts
    /\ MaxCalls \in Nat

Kinds == {"send", "deploy", "clear"}

VARIABLES
    local_nonce,   \* ChainClient._local_nonce, per client
    send_lock,     \* holder of _send_lock, per client
    nonce_lock,    \* holder of _nonce_lock, per client
    pc,            \* where each thread is
    call,          \* the locals of its call
    calls,         \* calls started, per thread
    nonce_resyncs  \* ChainClient.nonce_resyncs, over all clients

lockVars == <<send_lock, nonce_lock>>
vars == <<netVars, local_nonce, lockVars, pc, call, calls, nonce_resyncs>>

MaybeNonce == Nonces \cup {NoNonce}

Locals == [client : Accounts, kind : Kinds, ep : Endpoints,
           chain : Nonces,        \* the pending count next_nonce read
           nonce : Nonces,        \* the nonce it uses
           attempt : {1, 2},
           want : MaybeNonce]     \* the nonce named in the exception, if any

\* A thread outside any call has no locals.
NoCall == <<>>

TypeOK ==
    /\ NetTypeOK
    /\ local_nonce \in [Accounts -> MaybeNonce \cup {MaxNonce + 1}]
    /\ send_lock \in [Accounts -> Threads \cup {NoThread}]
    /\ nonce_lock \in [Accounts -> Threads \cup {NoThread}]
    /\ pc \in [Threads -> {"idle", "send", "next_nonce", "assign", "cast", "error", "rolled"}]
    /\ call \in [Threads -> Locals \cup {NoCall}]
    /\ \A t \in Threads : IF pc[t] = "idle" THEN call[t] = NoCall ELSE call[t] \in Locals
    /\ calls \in [Threads -> 0 .. MaxCalls]
    /\ nonce_resyncs \in Nat

Init ==
    /\ NetInit
    /\ local_nonce = [a \in Accounts |-> NoNonce]
    /\ send_lock = [a \in Accounts |-> NoThread]
    /\ nonce_lock = [a \in Accounts |-> NoThread]
    /\ pc = [t \in Threads |-> "idle"]
    /\ call = [t \in Threads |-> NoCall]
    /\ calls = [t \in Threads |-> 0]
    /\ nonce_resyncs = 0

-----------------------------------------------------------------------------
Client(t) == call[t].client
Kind(t) == call[t].kind
Nonce(t) == call[t].nonce
Want(t) == call[t].want

Goto(t, from, to) == pc[t] = from /\ pc' = [pc EXCEPT ![t] = to] /\ UNCHANGED calls

\* The call returns or raises.
Return(t, from) == Goto(t, from, "idle") /\ call' = [call EXCEPT ![t] = NoCall]

\* slip: a lock that excludes nobody
TakeAnyway(lock, t) == lock' = [lock EXCEPT ![Client(t)] = t]

Take(lock, t) == lock[Client(t)] = NoThread /\ lock' = [lock EXCEPT ![Client(t)] = t]

\* slip: a lock is never released
FreeNothing(lock, t) == lock' = lock

Free(lock, t) == lock' = [lock EXCEPT ![Client(t)] = NoThread]

\* `auto_nonce`: the caller of `send` passed no nonce.
AutoNonce(t) == Kind(t) = "send"

\* A call of kind k on client a begins at step `start`, with nonce n if it passes one.
Call(t, k, start, a, e, n) ==
    /\ pc[t] = "idle" /\ calls[t] < MaxCalls
    /\ pc' = [pc EXCEPT ![t] = start]
    /\ call' = [call EXCEPT ![t] = [client |-> a, kind |-> k, ep |-> e, chain |-> 0,
                                    nonce |-> n, attempt |-> 1, want |-> NoNonce]]
    /\ calls' = [calls EXCEPT ![t] = @ + 1]
    /\ UNCHANGED <<netVars, local_nonce, lockVars, nonce_resyncs>>

CallSend(t) == \E a \in Accounts, e \in Endpoints : Call(t, "send", "send", a, e, 0)

\* next_nonce comes first; the deployment goes to the plain RPC.
CallDeploy(t) == \E a \in Deployers : Call(t, "deploy", "next_nonce", a, "rpc", 0)

\* The nonce of a transaction the plain node still has, unmined.
CallClear(t) == \E a \in Accounts : \E n \in pool[a] : Call(t, "clear", "send", a, "rpc", n)

\* Entering the `with self._send_lock` block.
EnterSend(t) ==
    /\ Goto(t, "send", IF AutoNonce(t) THEN "next_nonce" ELSE "cast")
    /\ Take(send_lock, t)
    /\ UNCHANGED <<netVars, local_nonce, nonce_lock, call, nonce_resyncs>>

\* next_nonce takes _nonce_lock and reads the pending count.
ReadChainNonce(t) ==
    /\ Goto(t, "next_nonce", "assign")
    /\ Take(nonce_lock, t)
    /\ \E n \in Nonces :
        IsPendingCount(Client(t), n) /\ call' = [call EXCEPT ![t].chain = n]
    /\ UNCHANGED <<netVars, local_nonce, send_lock, nonce_resyncs>>

\* That read raises: both `with` blocks are left, nothing is reserved.
ReadFails(t) ==
    /\ Return(t, "next_nonce")
    /\ nonce_lock[Client(t)] = NoThread
    /\ Fault("lost")
    /\ IF AutoNonce(t) THEN Free(send_lock, t) ELSE UNCHANGED send_lock
    /\ UNCHANGED <<pool, held, late, drops, local_nonce, nonce_lock, nonce_resyncs>>

NextNonce(local, chain) == IF local = NoNonce \/ chain > local THEN chain ELSE local

\* next_nonce advances the local nonce and releases _nonce_lock.
AssignNonce(t) ==
    LET n == NextNonce(local_nonce[Client(t)], call[t].chain) IN
    /\ Goto(t, "assign", IF AutoNonce(t) THEN "cast" ELSE "send")
    /\ n \in Nonces
    /\ call' = [call EXCEPT ![t].nonce = n]
    /\ local_nonce' = [local_nonce EXCEPT ![Client(t)] = n + 1]
    /\ Free(nonce_lock, t)
    /\ UNCHANGED <<netVars, send_lock, nonce_resyncs>>

\* The endpoint accepts: the hash is returned.  A replacement pays twice the
\* gas price, so the node takes it in place of the transaction it has.
Accepted(t) ==
    /\ Return(t, "cast")
    /\ \/ Accept(call[t].ep, Client(t), Nonce(t))
       \/ Kind(t) = "clear" /\ Nonce(t) \in pool[Client(t)] /\ UNCHANGED <<pool, held>>
    /\ Free(send_lock, t)
    /\ UNCHANGED <<late, faults, drops, local_nonce, nonce_lock, nonce_resyncs>>

Refused(t) == \E w \in MaybeNonce :
    /\ Goto(t, "cast", "error")
    /\ Refuse(call[t].ep, Client(t), Nonce(t), w)
    /\ call' = [call EXCEPT ![t].want = w]
    /\ UNCHANGED <<netVars, local_nonce, lockVars, nonce_resyncs>>

Broken(t) ==
    /\ Goto(t, "cast", "error")
    /\ BrokenCall(call[t].ep, Client(t), Nonce(t))
    /\ call' = [call EXCEPT ![t].want = NoNonce]
    /\ UNCHANGED <<local_nonce, lockVars, nonce_resyncs>>

\* slip: no rollback
NoRollback(local, n) == local

\* rollback_nonce: only the last reservation can be returned.
RollbackNonce(local, n) == IF local = n + 1 THEN n ELSE local

\* `if auto_nonce: self.rollback_nonce(n)`, under _nonce_lock.
RollBack(t) ==
    /\ Goto(t, "error", "rolled")
    /\ IF AutoNonce(t)
       THEN /\ nonce_lock[Client(t)] = NoThread
            /\ local_nonce' = [local_nonce EXCEPT ![Client(t)] = RollbackNonce(@, Nonce(t))]
       ELSE UNCHANGED local_nonce
    /\ UNCHANGED <<netVars, lockVars, call, nonce_resyncs>>

Obeys(t) ==
    AutoNonce(t) /\ call[t].attempt = 1 /\ Want(t) # NoNonce /\ Want(t) # Nonce(t)

\* The local nonce after obeying the front: past the nonce it wants.
Corrected(n) == n + 1

Obey(t) ==
    /\ Goto(t, "rolled", "cast")
    /\ Obeys(t)
    /\ nonce_lock[Client(t)] = NoThread
    /\ local_nonce' = [local_nonce EXCEPT ![Client(t)] = Corrected(Want(t))]
    /\ call' = [call EXCEPT ![t].nonce = Want(t), ![t].attempt = 2]
    /\ nonce_resyncs' = nonce_resyncs + 1
    /\ UNCHANGED <<netVars, lockVars>>

Raise(t) ==
    /\ Return(t, "rolled")
    /\ ~Obeys(t)
    /\ Free(send_lock, t)
    /\ UNCHANGED <<netVars, local_nonce, nonce_lock, nonce_resyncs>>

-----------------------------------------------------------------------------
Start(t) == CallSend(t) \/ CallDeploy(t) \/ CallClear(t)

\* The steps of a call in progress.
Step(t) ==
    \/ EnterSend(t) \/ ReadChainNonce(t) \/ ReadFails(t) \/ AssignNonce(t)
    \/ Accepted(t) \/ Refused(t) \/ Broken(t) \/ RollBack(t) \/ Obey(t) \/ Raise(t)

Network == NetStep /\ UNCHANGED <<local_nonce, lockVars, pc, call, calls, nonce_resyncs>>

\* The bounded workload is over.
Finished ==
    /\ \A t \in Threads : pc[t] = "idle" /\ calls[t] = MaxCalls
    /\ UNCHANGED vars

Next == \/ \E t \in Threads : Start(t) \/ Step(t)
        \/ Network
        \/ Finished

Spec == Init /\ [][Next]_vars

\* As in SendSub: a thread in a call keeps running, every RPC ends.
FairSpec == Spec /\ \A t \in Threads : WF_vars(Step(t))

-----------------------------------------------------------------------------
\* What the endpoints have of a client's key: the nonces a transaction occupies.
Taken == [a \in Accounts |-> pool[a] \cup held[a]]

\* The clients only `send` reserves nonces of.
SendOnly == Accounts \ Deployers

(***************************************************************************)
(* "The whole allocate+sign+broadcast is serialized" (rpc.py:194-197):     *)
(* without transport faults or drops no endpoint refuses a nonce,          *)
(* whichever workers race for the key.                                     *)
(***************************************************************************)
InOrderArrival == faults = 0 /\ drops = 0 => \A t \in Threads :
    pc[t] = "error" /\ AutoNonce(t) => Client(t) \notin SendOnly

\* Nothing is on its way and the node waits for no nonce of account a.
GapFree(a) ==
    (\A t \in Threads : pc[t] = "idle") /\ held[a] = {}
        => \A n \in pool[a] : 0 .. (n - 1) \subseteq pool[a]

(***************************************************************************)
(* "Reserve the nonce ourselves so we can roll it back if the broadcast    *)
(* fails - otherwise a failed send leaves a permanent gap that blocks      *)
(* every later tx on this shared client" (rpc.py:190-192): once every call *)
(* has ended the node's nonces are contiguous.                             *)
(***************************************************************************)
NoPermanentGap == \A a \in Accounts : GapFree(a)

(***************************************************************************)
(* The same for the clients nobody deploys with, whatever requests are     *)
(* lost, half-delivered or late, and whatever _clear_nonce_gap replaces.   *)
(***************************************************************************)
SendLeavesNoGap == \A a \in SendOnly : GapFree(a)

(***************************************************************************)
(* Every call returns or raises: _send_lock and _nonce_lock, which deploy  *)
(* and send take in opposite orders, never block a call for ever.          *)
(***************************************************************************)
CallEnds == \A t \in Threads : pc[t] # "idle" ~> pc[t] = "idle"

(***************************************************************************)
(* The sends of a key nobody deploys with implement the abstract ledger:   *)
(* each step adds the key's next nonce or nothing.                         *)
(***************************************************************************)
Ledger == INSTANCE NonceLedger
    WITH Accounts <- SendOnly, taken <- [a \in SendOnly |-> Taken[a]]
LedgerSpec == Ledger!Spec
=============================================================================
