------------------------------ MODULE Endpoints ------------------------------
(***************************************************************************)
(* The chain as seen by one sending account: the plain JSON-RPC node and   *)
(* the EEZ cross-chain front, neither of which is code of this repository. *)
(* What they do is taken from how nonce.py, rpc.py and workers/base.py     *)
(* describe and use them:                                                  *)
(*   - the node queues a future nonce like a normal mempool and refuses a  *)
(*     nonce it already has; its pending count is the first nonce missing; *)
(*   - the front accepts only the "next unreserved nonce" and names it in  *)
(*     the refusal; it holds what it accepts, later hands it to the node,  *)
(*     or silently drops it;                                               *)
(*   - a request can be lost, its reply can be lost, or it can arrive      *)
(*     after the caller's HTTP timeout.                                    *)
(***************************************************************************)
EXTENDS Integers, NonceManager

CONSTANTS
    Accounts,    \* (chain, address) keys
    Endpoints,   \* the endpoints the callers use, a subset of {"rpc", "front"}
    FaultKinds,  \* the transport faults that occur: "lost", "replyLost", "late"
    MaxNonce,    \* bound on nonces
    MaxFaults,   \* bound on transport faults
    MaxDrops     \* bound on transactions the front drops

ASSUME EndpointsAssumption ==
    /\ Endpoints \subseteq {"rpc", "front"}
    /\ FaultKinds \subseteq {"lost", "replyLost", "late"}
    /\ MaxNonce \in Nat /\ MaxFaults \in Nat /\ MaxDrops \in Nat

Nonces == 0 .. MaxNonce

VARIABLES
    pool,    \* per account: nonces the node has, mined or waiting
    held,    \* per account: nonces the front has accepted and not handed on
    late,    \* per account: requests given up by the caller, still on the wire
    faults,  \* transport faults so far
    drops    \* transactions dropped by the front so far

netVars == <<pool, held, late, faults, drops>>

NetTypeOK ==
    /\ pool \in [Accounts -> SUBSET Nonces]
    /\ held \in [Accounts -> SUBSET Nonces]
    /\ late \in [Accounts -> SUBSET (Endpoints \X Nonces)]
    /\ faults \in 0 .. MaxFaults
    /\ drops \in 0 .. MaxDrops

NetInit ==
    /\ pool = [a \in Accounts |-> {}]
    /\ held = [a \in Accounts |-> {}]
    /\ late = [a \in Accounts |-> {}]
    /\ faults = 0
    /\ drops = 0

IsFirstFree(S, n) == n \in Nonces \ S /\ 0 .. (n - 1) \subseteq S

\* eth_getTransactionCount(account, "pending"), always from the plain node.
IsPendingCount(a, n) == IsFirstFree(pool[a], n)

\* The front's "next unreserved nonce".
IsUnreserved(a, n) == IsFirstFree(pool[a] \cup held[a], n)

\* Endpoint e accepts nonce n of account a.
Accept(e, a, n) ==
    \/ /\ e = "rpc"
       /\ n \in Nonces \ pool[a]
       /\ pool' = [pool EXCEPT ![a] = @ \cup {n}]
       /\ UNCHANGED held
    \/ /\ e = "front"
       /\ IsUnreserved(a, n)
       /\ held' = [held EXCEPT ![a] = @ \cup {n}]
       /\ UNCHANGED pool

\* Endpoint e refuses nonce n of account a, naming w as the nonce it wants.
Refuse(e, a, n, w) ==
    \/ e = "rpc" /\ n \in pool[a] /\ w = NoNonce
    \/ e = "front" /\ ~IsUnreserved(a, n) /\ IsUnreserved(a, w)

Fault(kind) == kind \in FaultKinds /\ faults < MaxFaults /\ faults' = faults + 1

\* What a broadcast that ends in a transport error did to the network.
BrokenCall(e, a, n) ==
    /\ UNCHANGED drops
    /\ \/ Fault("lost") /\ UNCHANGED <<pool, held, late>>
       \/ Fault("replyLost") /\ Accept(e, a, n) /\ UNCHANGED late
       \/ /\ Fault("late")
          /\ late' = [late EXCEPT ![a] = @ \cup {<<e, n>>}]
          /\ UNCHANGED <<pool, held>>

\* A request its caller has given up reaches the endpoint after all.
LateArrival(a) == \E r \in late[a] :
    /\ late' = [late EXCEPT ![a] = @ \ {r}]
    /\ \/ Accept(r[1], a, r[2])
       \/ /\ \E w \in Nonces \cup {NoNonce} : Refuse(r[1], a, r[2], w)
          /\ UNCHANGED <<pool, held>>
    /\ UNCHANGED <<faults, drops>>

\* The front hands the first transaction it holds to the node.
Forward(a) == \E n \in held[a] :
    /\ \A m \in held[a] : n <= m
    /\ held' = [held EXCEPT ![a] = @ \ {n}]
    /\ pool' = [pool EXCEPT ![a] = @ \cup {n}]
    /\ UNCHANGED <<late, faults, drops>>

\* The front silently drops a transaction it had accepted and, being strictly
\* sequential, those it had accepted after it.
Drop(a) == \E n \in held[a] :
    /\ drops < MaxDrops
    /\ drops' = drops + 1
    /\ held' = [held EXCEPT ![a] = {m \in @ : m < n}]
    /\ UNCHANGED <<pool, late, faults>>

NetStep == \E a \in Accounts : LateArrival(a) \/ Forward(a) \/ Drop(a)
=============================================================================
