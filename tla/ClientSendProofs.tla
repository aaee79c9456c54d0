--------------------------- MODULE ClientSendProofs ---------------------------
(***************************************************************************)
(* The primary key of ClientSend for any number of workers, calls, clients *)
(* and transport faults, node and front mixed, as long as the front drops  *)
(* nothing: the keys nobody deploys with keep their nonces contiguous,     *)
(* because whatever is reserved, named by the front, on the wire or about  *)
(* to be replaced lies no further than the first nonce nobody has taken.   *)
(***************************************************************************)
EXTENDS ClientSend, TLAPS

Places == {"idle", "send", "next_nonce", "assign", "cast", "error", "rolled"}

\* No nonce below n is missing from what the endpoints have of a's key.
Filled(a, n) == 0 .. (n - 1) \subseteq Taken[a]

\* Between taking _send_lock and leaving its block.
Inside(t) ==
    \/ pc[t] \in {"cast", "error", "rolled"}
    \/ pc[t] \in {"next_nonce", "assign"} /\ AutoNonce(t)

LockInv == \A t \in Threads : Inside(t) => send_lock[Client(t)] = t

Within(t) ==
    /\ Kind(t) # "deploy"
    /\ pc[t] \in {"next_nonce", "assign"} => AutoNonce(t)
    /\ Kind(t) = "clear" => Nonce(t) \in pool[Client(t)]
    /\ pc[t] = "assign" => Filled(Client(t), call[t].chain)
    /\ pc[t] \in {"cast", "error"} => Filled(Client(t), Nonce(t))
    /\ pc[t] \in {"error", "rolled"} /\ Want(t) # NoNonce => Filled(Client(t), Want(t))

WithinInv ==
    /\ \A t \in Threads : pc[t] # "idle" /\ Client(t) \in SendOnly => Within(t)
    /\ \A a \in SendOnly : \A r \in late[a] : Filled(a, r[2])

\* The call that has advanced the local nonce of its client and may give it back.
Advanced(t, a) ==
    /\ pc[t] \in {"cast", "error"} /\ AutoNonce(t) /\ Client(t) = a
    /\ local_nonce[a] = Nonce(t) + 1

CursorInv == \A a \in SendOnly :
    Filled(a, local_nonce[a]) \/ \E t \in Threads : Advanced(t, a)

ClosedInv == \A a \in SendOnly : \A n \in Taken[a] : Filled(a, n)

KeyIInv == TypeOK /\ LockInv /\ WithinInv /\ CursorInv /\ ClosedInv

-----------------------------------------------------------------------------
LEMMA NonceSuccessor ==
  ASSUME NEW n \in Nonces PROVE n + 1 \in MaybeNonce \cup {MaxNonce + 1}
BY EndpointsAssumption DEF Nonces, MaybeNonce

LEMMA AcceptTyped ==
  ASSUME NEW e, NEW a \in Accounts, NEW n,
         pool \in [Accounts -> SUBSET Nonces], held \in [Accounts -> SUBSET Nonces],
         Accept(e, a, n)
  PROVE  pool' \in [Accounts -> SUBSET Nonces] /\ held' \in [Accounts -> SUBSET Nonces]
<1>1. n \in Nonces
  BY DEF Accept, IsUnreserved, IsFirstFree
<1> QED
  BY <1>1 DEF Accept

\* What one step of thread t may do to the calls.
LEMMA CallsTyped ==
  ASSUME TypeOK, NEW t \in Threads, NEW to \in Places, NEW c,
         pc' = [pc EXCEPT ![t] = to], call' = [call EXCEPT ![t] = c],
         IF to = "idle" THEN c = NoCall ELSE c \in Locals
  PROVE  /\ pc' \in [Threads -> Places] /\ call' \in [Threads -> Locals \cup {NoCall}]
         /\ \A u \in Threads : IF pc'[u] = "idle" THEN call'[u] = NoCall ELSE call'[u] \in Locals
         /\ pc'[t] = to /\ call'[t] = c
         /\ \A u \in Threads : u # t => pc'[u] = pc[u] /\ call'[u] = call[u]
BY DEF TypeOK, Places

\* Every step of a call: what it does to the thread's place and locals.
LEMMA StepMoves ==
  ASSUME TypeOK, NEW t \in Threads, Start(t) \/ Step(t)
  PROVE  \E to \in Places, c \in Locals \cup {NoCall} :
           /\ pc' = [pc EXCEPT ![t] = to] /\ call' = [call EXCEPT ![t] = c]
           /\ IF to = "idle" THEN c = NoCall ELSE c \in Locals
<1> DEFINE Goal == \E to \in Places, c \in Locals \cup {NoCall} :
           /\ pc' = [pc EXCEPT ![t] = to] /\ call' = [call EXCEPT ![t] = c]
           /\ IF to = "idle" THEN c = NoCall ELSE c \in Locals
<1> USE DEF Places
<1>0. pc[t] # "idle" => call[t] \in Locals /\ call = [call EXCEPT ![t] = call[t]]
  BY DEF TypeOK
<1>1. ASSUME NEW k \in Kinds, NEW start \in Places \ {"idle"}, NEW a \in Accounts, NEW e \in Endpoints,
             NEW n \in Nonces, Call(t, k, start, a, e, n)
      PROVE  Goal
  <2> DEFINE c == [client |-> a, kind |-> k, ep |-> e, chain |-> 0, nonce |-> n, attempt |-> 1,
                   want |-> NoNonce]
  <2>1. c \in Locals
    BY EndpointsAssumption DEF Locals, MaybeNonce, Nonces
  <2>2. pc' = [pc EXCEPT ![t] = start] /\ call' = [call EXCEPT ![t] = c]
    BY <1>1 DEF Call
  <2> QED
    BY <2>1, <2>2
<1>2. CASE Start(t)
  <2>1. 0 \in Nonces /\ "rpc" \in Endpoints /\ \A a \in Accounts : pool[a] \subseteq Nonces
    BY EndpointsAssumption, ClientSendAssumption DEF Nonces, TypeOK, NetTypeOK
  <2>2. CASE CallSend(t)
    BY <1>1, <2>1, <2>2 DEF CallSend, Kinds
  <2>3. CASE CallDeploy(t)
    <3>1. PICK a \in Deployers : Call(t, "deploy", "next_nonce", a, "rpc", 0)
      BY <2>3 DEF CallDeploy
    <3> QED
      BY <1>1, <2>1, <3>1, ClientSendAssumption DEF Kinds
  <2>4. CASE CallClear(t)
    BY <1>1, <2>1, <2>4 DEF CallClear, Kinds
  <2> QED
    BY <1>2, <2>2, <2>3, <2>4 DEF Start
<1>3. CASE ReadFails(t) \/ Accepted(t) \/ Raise(t)
  BY <1>3 DEF ReadFails, Accepted, Raise, Return, Goto
<1>4. CASE EnterSend(t) \/ RollBack(t)
  BY <1>0, <1>4 DEF EnterSend, RollBack, Goto
<1>5. CASE ReadChainNonce(t)
  <2>1. PICK n \in Nonces : call' = [call EXCEPT ![t].chain = n]
    BY <1>5 DEF ReadChainNonce
  <2>2. [call[t] EXCEPT !.chain = n] \in Locals
    BY <1>0, <1>5, <2>1 DEF ReadChainNonce, Goto, Locals
  <2> QED
    BY <1>5, <2>1, <2>2 DEF ReadChainNonce, Goto
<1>6. CASE AssignNonce(t)
  <2>1. PICK n \in Nonces : call' = [call EXCEPT ![t].nonce = n]
    BY <1>6 DEF AssignNonce
  <2>2. [call[t] EXCEPT !.nonce = n] \in Locals
    BY <1>0, <1>6, <2>1 DEF AssignNonce, Goto, Locals
  <2> QED
    BY <1>6, <2>1, <2>2 DEF AssignNonce, Goto
<1>7. CASE Refused(t) \/ Broken(t)
  <2>1. PICK w \in MaybeNonce : call' = [call EXCEPT ![t].want = w]
    BY <1>7 DEF Refused, Broken, MaybeNonce
  <2>2. [call[t] EXCEPT !.want = w] \in Locals
    BY <1>0, <1>7, <2>1 DEF Refused, Broken, Goto, Locals
  <2> QED
    BY <1>7, <2>1, <2>2 DEF Refused, Broken, Goto
<1>8. CASE Obey(t)
  <2>1. call' = [call EXCEPT ![t] = [call[t] EXCEPT !.nonce = Want(t), !.attempt = 2]]
    BY <1>8 DEF Obey, TypeOK
  <2>2. [call[t] EXCEPT !.nonce = Want(t), !.attempt = 2] \in Locals
    BY <1>0, <1>8 DEF Obey, Obeys, Goto, Locals, Want, MaybeNonce
  <2> QED
    BY <1>8, <2>1, <2>2 DEF Obey, Goto
<1> QED
  BY <1>2, <1>3, <1>4, <1>5, <1>6, <1>7, <1>8 DEF Step

LEMMA NetTyped ==
  ASSUME TypeOK,
         \/ \E t \in Threads : Start(t) \/ Step(t)
         \/ NetStep
         \/ UNCHANGED netVars
  PROVE  NetTypeOK'
<1> USE DEF TypeOK, NetTypeOK
<1>1. CASE UNCHANGED netVars
  BY <1>1 DEF netVars
<1>2. ASSUME NEW t \in Threads, Accepted(t) PROVE NetTypeOK'
  <2>1. Client(t) \in Accounts
    BY <1>2 DEF Accepted, Return, Goto, Client, Locals
  <2> QED
    BY <1>2, <2>1, AcceptTyped DEF Accepted
<1>3. ASSUME NEW t \in Threads, Broken(t) PROVE NetTypeOK'
  <2>1. Client(t) \in Accounts /\ Nonce(t) \in Nonces /\ call[t].ep \in Endpoints
    BY <1>3 DEF Broken, Goto, Client, Nonce, Locals
  <2>2. faults' \in 0 .. MaxFaults
    BY <1>3, EndpointsAssumption DEF Broken, BrokenCall, Fault
  <2>3. late' \in [Accounts -> SUBSET (Endpoints \X Nonces)]
    BY <1>3, <2>1 DEF Broken, BrokenCall
  <2>4. pool' \in [Accounts -> SUBSET Nonces] /\ held' \in [Accounts -> SUBSET Nonces]
    BY <1>3, <2>1, AcceptTyped DEF Broken, BrokenCall
  <2> QED
    BY <1>3, <2>2, <2>3, <2>4 DEF Broken, BrokenCall
<1>4. ASSUME NEW t \in Threads, ReadFails(t) PROVE NetTypeOK'
  BY <1>4, EndpointsAssumption DEF ReadFails, Fault
<1>5. ASSUME NEW a \in Accounts, LateArrival(a) PROVE NetTypeOK'
  <2>1. pool' \in [Accounts -> SUBSET Nonces] /\ held' \in [Accounts -> SUBSET Nonces]
    BY <1>5, AcceptTyped DEF LateArrival
  <2>2. late' \in [Accounts -> SUBSET (Endpoints \X Nonces)]
    BY <1>5 DEF LateArrival
  <2> QED
    BY <1>5, <2>1, <2>2 DEF LateArrival
<1>6. ASSUME NEW a \in Accounts, Forward(a) PROVE NetTypeOK'
  BY <1>6 DEF Forward
<1>7. ASSUME NEW a \in Accounts, Drop(a) PROVE NetTypeOK'
  BY <1>7, EndpointsAssumption DEF Drop
<1>8. ASSUME NEW t \in Threads, Start(t) \/ Step(t), ~Accepted(t), ~Broken(t), ~ReadFails(t)
      PROVE  UNCHANGED netVars
  BY <1>8 DEF Start, CallSend, CallDeploy, CallClear, Call, Step, EnterSend, ReadChainNonce, AssignNonce,
              Refused, RollBack, Obey, Raise
<1> QED
  BY <1>1, <1>2, <1>3, <1>4, <1>5, <1>6, <1>7, <1>8 DEF NetStep

LEMMA TypeInit == Init => TypeOK
BY EndpointsAssumption, ClientSendAssumption
DEF Init, NetInit, TypeOK, NetTypeOK, Nonces, MaybeNonce, NoNonce

LEMMA TypeStep == TypeOK /\ [Next]_vars => TypeOK'
<1> SUFFICES ASSUME TypeOK, [Next]_vars PROVE TypeOK'
  OBVIOUS
<1>1. ASSUME NEW t \in Threads, Start(t) \/ Step(t) PROVE TypeOK'
  <2>1. NetTypeOK'
    BY <1>1, NetTyped
  <2>2. /\ pc' \in [Threads -> Places] /\ call' \in [Threads -> Locals \cup {NoCall}]
        /\ \A u \in Threads : IF pc'[u] = "idle" THEN call'[u] = NoCall ELSE call'[u] \in Locals
    BY <1>1, StepMoves, CallsTyped
  <2>3. pc[t] # "idle" => /\ Client(t) \in Accounts /\ Nonce(t) \in Nonces
                          /\ Want(t) \in MaybeNonce
    BY DEF TypeOK, Locals, Client, Nonce, Want
  <2>4. local_nonce' \in [Accounts -> MaybeNonce \cup {MaxNonce + 1}]
    <3>1. CASE AssignNonce(t)
      BY <2>3, <3>1, NonceSuccessor DEF AssignNonce, TypeOK
    <3>2. CASE RollBack(t)
      BY <2>3, <3>2 DEF RollBack, RollbackNonce, Goto, TypeOK, MaybeNonce
    <3>3. CASE Obey(t)
      <4>1. Want(t) \in Nonces
        BY <2>3, <3>3 DEF Obey, Obeys, Goto, MaybeNonce
      <4>2. Want(t) + 1 \in MaybeNonce \cup {MaxNonce + 1}
        BY <4>1, NonceSuccessor
      <4> QED
        BY <3>3, <4>2 DEF Obey, Corrected, TypeOK
    <3>4. CASE UNCHANGED local_nonce
      BY <3>4 DEF TypeOK
    <3> QED
      BY <1>1, <3>1, <3>2, <3>3, <3>4
      DEF Start, CallSend, CallDeploy, CallClear, Call, Step, EnterSend, ReadChainNonce, ReadFails,
          Accepted, Refused, Broken, Raise
  <2>5. /\ send_lock' \in [Accounts -> Threads \cup {NoThread}]
        /\ nonce_lock' \in [Accounts -> Threads \cup {NoThread}]
    BY <1>1
    DEF TypeOK, Start, CallSend, CallDeploy, CallClear, Call, Step, EnterSend, ReadChainNonce, ReadFails,
        AssignNonce, Accepted, Refused, Broken, RollBack, Obey, Raise, Take, Free, lockVars
  <2>6. calls' \in [Threads -> 0 .. MaxCalls]
    <3>1. CASE Start(t)
      BY <3>1, ClientSendAssumption DEF TypeOK, Start, CallSend, CallDeploy, CallClear, Call
    <3>2. CASE Step(t)
      BY <3>2 DEF TypeOK, Step, EnterSend, ReadChainNonce, ReadFails, AssignNonce, Accepted, Refused,
                  Broken, RollBack, Obey, Raise, Goto, Return
    <3> QED
      BY <1>1, <3>1, <3>2
  <2>7. nonce_resyncs' \in Nat
    BY <1>1
    DEF TypeOK, Start, CallSend, CallDeploy, CallClear, Call, Step, EnterSend, ReadChainNonce, ReadFails,
        AssignNonce, Accepted, Refused, Broken, RollBack, Obey, Raise
  <2> QED
    BY <2>1, <2>2, <2>4, <2>5, <2>6, <2>7 DEF TypeOK, Places
<1>2. CASE Network
  BY <1>2, NetTyped DEF Network, TypeOK, lockVars
<1>3. CASE UNCHANGED vars
  BY <1>3, NetTyped DEF vars, TypeOK, lockVars
<1> QED
  BY <1>1, <1>2, <1>3 DEF Next, Finished

(***************************************************************************)
(* Every variable keeps its type: a local nonce stays within the nonces    *)
(* and one, a thread outside any call has no locals (rpc.py:163-202).      *)
(***************************************************************************)
THEOREM TypeCorrect == Spec => []TypeOK
BY TypeInit, TypeStep, PTL DEF Spec

-----------------------------------------------------------------------------

\* A step takes the free lock, frees its own, or leaves it as it is.
LEMMA LockMoves ==
  ASSUME TypeOK, NEW t \in Threads, Start(t) \/ Step(t)
  PROVE  \/ /\ send_lock[Client(t)] = NoThread /\ Client(t) \in Accounts
            /\ send_lock' = [send_lock EXCEPT ![Client(t)] = t] /\ Client(t)' = Client(t)
         \/ /\ Inside(t) /\ Client(t) \in Accounts
            /\ send_lock' = [send_lock EXCEPT ![Client(t)] = NoThread] /\ pc'[t] = "idle"
         \/ /\ send_lock' = send_lock
            /\ Inside(t)' => Inside(t) /\ Client(t)' = Client(t)
<1> USE DEF TypeOK, Inside, AutoNonce, Kind, Client, Goto, Return
<1>1. pc[t] # "idle" => Client(t) \in Accounts
  BY DEF Locals
<1>2. CASE Start(t)
  BY <1>2 DEF Start, CallSend, CallDeploy, CallClear, Call, lockVars
<1>3. CASE EnterSend(t)
  BY <1>1, <1>3 DEF EnterSend, Take
<1>4. CASE ReadChainNonce(t)
  <2>1. /\ pc[t] = "next_nonce" /\ pc'[t] = "assign" /\ send_lock' = send_lock
        /\ call'[t].kind = call[t].kind /\ call'[t].client = call[t].client
    BY <1>4 DEF ReadChainNonce, Locals
  <2> QED
    BY <2>1
<1>5. CASE ReadFails(t)
  BY <1>1, <1>5 DEF ReadFails, Free
<1>6. CASE AssignNonce(t)
  <2>1. /\ pc[t] = "assign" /\ pc'[t] = (IF AutoNonce(t) THEN "cast" ELSE "send") /\ send_lock' = send_lock
        /\ call'[t].kind = call[t].kind /\ call'[t].client = call[t].client
    BY <1>6 DEF AssignNonce, Locals
  <2> QED
    BY <2>1
<1>7. CASE Accepted(t) \/ Raise(t)
  BY <1>1, <1>7 DEF Accepted, Raise, Free
<1>8. CASE Refused(t) \/ Broken(t)
  <2>1. /\ pc[t] = "cast" /\ pc'[t] = "error" /\ send_lock' = send_lock
        /\ call'[t].kind = call[t].kind /\ call'[t].client = call[t].client
    BY <1>8 DEF Refused, Broken, Locals, lockVars
  <2> QED
    BY <2>1
<1>9. CASE RollBack(t)
  BY <1>9 DEF RollBack, lockVars
<1>10. CASE Obey(t)
  <2>1. /\ pc[t] = "rolled" /\ pc'[t] = "cast" /\ send_lock' = send_lock
        /\ call'[t].kind = call[t].kind /\ call'[t].client = call[t].client
    BY <1>10 DEF Obey, Locals, lockVars
  <2> QED
    BY <2>1
<1> QED
  BY <1>2, <1>3, <1>4, <1>5, <1>6, <1>7, <1>8, <1>9, <1>10 DEF Step

LEMMA LockStep == TypeOK /\ LockInv /\ [Next]_vars => LockInv'
<1> SUFFICES ASSUME TypeOK, LockInv, [Next]_vars PROVE LockInv'
  OBVIOUS
<1>1. ASSUME NEW t \in Threads, Start(t) \/ Step(t) PROVE LockInv'
  <2> SUFFICES ASSUME NEW u \in Threads, Inside(u)' PROVE send_lock'[Client(u)'] = u
    BY DEF LockInv
  <2>1. CASE u = t
    BY <1>1, <2>1, LockMoves DEF LockInv, TypeOK, Inside
  <2>2. CASE u # t
    <3>1. pc'[u] = pc[u] /\ call'[u] = call[u]
      BY <1>1, <2>2, StepMoves, CallsTyped
    <3>2. Inside(u) /\ Client(u)' = Client(u)
      BY <3>1 DEF Inside, AutoNonce, Kind, Client
    <3>3. send_lock[Client(u)] = u /\ u # NoThread
      BY <3>2, ClientSendAssumption DEF LockInv
    <3>4. Inside(t) => send_lock[Client(t)] = t
      BY DEF LockInv
    <3>5. CASE send_lock[Client(t)] = NoThread /\ send_lock' = [send_lock EXCEPT ![Client(t)] = t]
      BY <3>2, <3>3, <3>5
    <3>6. CASE Inside(t) /\ send_lock' = [send_lock EXCEPT ![Client(t)] = NoThread]
      BY <2>2, <3>2, <3>3, <3>4, <3>6
    <3>7. CASE send_lock' = send_lock
      BY <3>2, <3>3, <3>7
    <3> QED
      BY <1>1, <3>5, <3>6, <3>7, LockMoves
  <2> QED
    BY <2>1, <2>2
<1>2. CASE Network \/ Finished \/ UNCHANGED vars
  BY <1>2 DEF Network, Finished, vars, lockVars, LockInv, Inside, AutoNonce, Kind, Client
<1> QED
  BY <1>1, <1>2 DEF Next

-----------------------------------------------------------------------------
\* What a step may add to the nonces taken of a key.
Grows(a, n) ==
    /\ n \in Nonces \ Taken[a] /\ (a \in SendOnly => Filled(a, n))
    /\ Taken' = [Taken EXCEPT ![a] = @ \cup {n}]

LEMMA AcceptGrows ==
  ASSUME TypeOK, NEW e, NEW a \in Accounts, NEW n, Accept(e, a, n), a \in SendOnly => Filled(a, n)
  PROVE  Taken' = Taken \/ Grows(a, n)
<1>1. n \in Nonces
  BY DEF Accept, IsUnreserved, IsFirstFree
<1>2. \A b \in Accounts : pool'[b] \cup held'[b] = IF b = a THEN pool[b] \cup held[b] \cup {n}
                                                           ELSE pool[b] \cup held[b]
  BY DEF Accept, TypeOK, NetTypeOK
<1>3. Taken' = [Taken EXCEPT ![a] = @ \cup {n}]
  BY <1>2 DEF Taken
<1>4. CASE n \in Taken[a]
  <2>1. Taken[a] \cup {n} = Taken[a]
    BY <1>4
  <2> QED
    BY <1>3, <2>1 DEF Taken
<1>5. CASE n \notin Taken[a]
  BY <1>1, <1>3, <1>5 DEF Grows
<1> QED
  BY <1>4, <1>5

LEMMA StepGrows ==
  ASSUME MaxDrops = 0, KeyIInv, [Next]_vars
  PROVE  Taken' = Taken \/ \E a \in Accounts, n \in Nonces : Grows(a, n)
<1> DEFINE Goal == Taken' = Taken \/ \E a \in Accounts, n \in Nonces : Grows(a, n)
<1> USE DEF KeyIInv
<1>0. ASSUME NEW t \in Threads, pc[t] = "cast"
      PROVE  Client(t) \in Accounts /\ Nonce(t) \in Nonces
             /\ (Client(t) \in SendOnly => Filled(Client(t), Nonce(t)))
  BY <1>0 DEF TypeOK, Locals, Client, Nonce, WithinInv, Within
<1>1. ASSUME NEW t \in Threads, Accepted(t) PROVE Goal
  <2>1. CASE Accept(call[t].ep, Client(t), Nonce(t))
    BY <1>0, <1>1, <2>1, AcceptGrows DEF Accepted, Return, Goto
  <2>2. CASE UNCHANGED <<pool, held>>
    BY <2>2 DEF Taken
  <2> QED
    BY <1>1, <2>1, <2>2 DEF Accepted
<1>2. ASSUME NEW t \in Threads, Broken(t) PROVE Goal
  <2>1. CASE Accept(call[t].ep, Client(t), Nonce(t))
    BY <1>0, <1>2, <2>1, AcceptGrows DEF Broken, Goto
  <2>2. CASE UNCHANGED <<pool, held>>
    BY <2>2 DEF Taken
  <2> QED
    BY <1>2, <2>1, <2>2 DEF Broken, BrokenCall
<1>3. ASSUME NEW a \in Accounts, LateArrival(a) PROVE Goal
  <2>1. PICK r \in late[a] : Accept(r[1], a, r[2]) \/ UNCHANGED <<pool, held>>
    BY <1>3 DEF LateArrival
  <2>2. r[2] \in Nonces /\ (a \in SendOnly => Filled(a, r[2]))
    BY DEF TypeOK, NetTypeOK, WithinInv
  <2>3. CASE UNCHANGED <<pool, held>>
    BY <2>3 DEF Taken
  <2> QED
    BY <2>1, <2>2, <2>3, AcceptGrows
<1>4. ASSUME NEW a \in Accounts, Forward(a) PROVE Goal
  <2>1. \A b \in Accounts : pool'[b] \cup held'[b] = pool[b] \cup held[b]
    BY <1>4 DEF Forward, TypeOK, NetTypeOK
  <2> QED
    BY <2>1 DEF Taken
<1>5. ASSUME NEW a \in Accounts, Drop(a) PROVE FALSE
  BY <1>5 DEF Drop, TypeOK, NetTypeOK
<1>6. ASSUME UNCHANGED <<pool, held>> PROVE Goal
  BY <1>6 DEF Taken
<1>7. ASSUME NEW t \in Threads, Start(t) \/ Step(t), ~Accepted(t), ~Broken(t)
      PROVE  UNCHANGED <<pool, held>>
  BY <1>7 DEF Start, CallSend, CallDeploy, CallClear, Call, Step, EnterSend, ReadChainNonce, ReadFails,
              AssignNonce, Refused, RollBack, Obey, Raise, netVars
<1>8. ASSUME Finished \/ UNCHANGED vars PROVE Goal
  BY <1>6, <1>8 DEF Finished, vars, netVars
<1> HIDE DEF Goal
<1>9. Goal
  <2>1. ASSUME NEW t \in Threads, Start(t) \/ Step(t) PROVE Goal
    <3>1. CASE Accepted(t) \/ Broken(t)
      BY <1>1, <1>2, <3>1
    <3>2. CASE ~Accepted(t) /\ ~Broken(t)
      BY <1>6, <1>7, <2>1, <3>2
    <3> QED
      BY <3>1, <3>2
  <2>2. CASE Network
    BY <1>3, <1>4, <1>5, <2>2 DEF Network, NetStep
  <2>3. Next => (\E t \in Threads : Start(t) \/ Step(t)) \/ Network \/ Finished
    BY DEF Next
  <2> QED
    BY <1>8, <2>1, <2>2, <2>3
<1> QED
  BY <1>9 DEF Goal

LEMMA GrowsKept ==
  ASSUME MaxDrops = 0, KeyIInv, [Next]_vars
  PROVE  /\ \A a \in Accounts : Taken[a] \subseteq Taken'[a]
         /\ \A a \in Accounts : \A n : Filled(a, n) => Filled(a, n)'
         /\ ClosedInv'
<1>1. CASE Taken' = Taken
  BY <1>1 DEF Filled, KeyIInv, ClosedInv
<1>2. ASSUME NEW a \in Accounts, NEW n \in Nonces, Grows(a, n)
      PROVE  /\ \A b \in Accounts : Taken[b] \subseteq Taken'[b]
             /\ ClosedInv'
  <2>1. \A b \in Accounts : Taken'[b] = IF b = a THEN Taken[b] \cup {n} ELSE Taken[b]
    BY <1>2 DEF Grows, Taken
  <2>2. ASSUME NEW b \in SendOnly, NEW m \in Taken'[b] PROVE Filled(b, m)
    <3>1. m \in Taken[b] \/ (b = a /\ m = n)
      BY <2>1, <2>2 DEF SendOnly
    <3> QED
      BY <1>2, <2>2, <3>1 DEF Grows, KeyIInv, ClosedInv
  <2> QED
    BY <2>1, <2>2 DEF ClosedInv, Filled, SendOnly
<1>3. \A a \in Accounts : Taken[a] \subseteq Taken'[a]
  BY <1>1, <1>2, StepGrows
<1>4. ClosedInv'
  BY <1>1, <1>2, StepGrows
<1> QED
  BY <1>3, <1>4 DEF Filled

\* No transaction leaves the node, and a request on the wire was somebody's.
LEMMA NetKept ==
  ASSUME TypeOK, [Next]_vars
  PROVE  /\ \A a \in Accounts : pool[a] \subseteq pool'[a]
         /\ \A a \in Accounts : \A r \in late'[a] :
              r \in late[a] \/ \E t \in Threads : Broken(t) /\ Client(t) = a /\ r[2] = Nonce(t)
<1> DEFINE Goal ==
        /\ \A a \in Accounts : pool[a] \subseteq pool'[a]
        /\ \A a \in Accounts : \A r \in late'[a] :
             r \in late[a] \/ \E t \in Threads : Broken(t) /\ Client(t) = a /\ r[2] = Nonce(t)
<1> USE DEF TypeOK, NetTypeOK
<1>1. ASSUME NEW t \in Threads, Accepted(t) PROVE Goal
  BY <1>1 DEF Accepted, Accept
<1>2. ASSUME NEW t \in Threads, Broken(t) PROVE Goal
  <2>1. \A a \in Accounts : pool[a] \subseteq pool'[a]
    BY <1>2 DEF Broken, BrokenCall, Accept
  <2>2. \A a \in Accounts : late'[a] = late[a] \/ (a = Client(t) /\ late'[a] = late[a] \cup {<<call[t].ep, Nonce(t)>>})
    BY <1>2 DEF Broken, BrokenCall
  <2>3. ASSUME NEW a \in Accounts, NEW r \in late'[a], r \notin late[a]
        PROVE  Client(t) = a /\ r[2] = Nonce(t)
    <3>1. a = Client(t) /\ r = <<call[t].ep, Nonce(t)>>
      BY <2>2, <2>3
    <3> QED
      BY <3>1
  <2> QED
    BY <1>2, <2>1, <2>3
<1>3. ASSUME NEW a \in Accounts, LateArrival(a) PROVE Goal
  BY <1>3 DEF LateArrival, Accept
<1>4. ASSUME NEW a \in Accounts, Forward(a) \/ Drop(a) PROVE Goal
  BY <1>4 DEF Forward, Drop
<1>5. ASSUME UNCHANGED <<pool, late>> PROVE Goal
  BY <1>5
<1>6. ASSUME NEW t \in Threads, Start(t) \/ Step(t), ~Accepted(t), ~Broken(t)
      PROVE  UNCHANGED <<pool, late>>
  BY <1>6 DEF Start, CallSend, CallDeploy, CallClear, Call, Step, EnterSend, ReadChainNonce, ReadFails,
              AssignNonce, Refused, RollBack, Obey, Raise, netVars
<1>7. CASE Finished \/ UNCHANGED vars
  BY <1>5, <1>7 DEF Finished, vars, netVars
<1> HIDE DEF Goal
<1>8. ASSUME NEW t \in Threads, Start(t) \/ Step(t) PROVE Goal
  <2>1. CASE Accepted(t) \/ Broken(t)
    BY <1>1, <1>2, <2>1
  <2>2. CASE ~Accepted(t) /\ ~Broken(t)
    BY <1>5, <1>6, <1>8, <2>2
  <2> QED
    BY <2>1, <2>2
<1>9. CASE Network
  BY <1>3, <1>4, <1>9 DEF Network, NetStep, Goal
<1>10. Next => (\E t \in Threads : Start(t) \/ Step(t)) \/ Network \/ Finished
  BY DEF Next
<1> QED
  BY <1>7, <1>8, <1>9, <1>10 DEF Goal

\* Of a call that does nothing, what holds goes on to hold.
LEMMA WithinKept ==
  ASSUME MaxDrops = 0, KeyIInv, [Next]_vars, NEW u \in Threads, pc'[u] = pc[u], call'[u] = call[u],
         pc[u] # "idle" /\ Client(u) \in SendOnly => Within(u)
  PROVE  (pc[u] # "idle" /\ Client(u) \in SendOnly => Within(u))'
<1>1. /\ \A a \in Accounts : pool[a] \subseteq pool'[a]
      /\ \A a \in Accounts : \A n : Filled(a, n) => Filled(a, n)'
  BY NetKept, GrowsKept DEF KeyIInv
<1>2. pc[u] # "idle" => Client(u) \in Accounts
  BY DEF KeyIInv, TypeOK, Locals, Client
<1>3. Client(u)' = Client(u) /\ Kind(u)' = Kind(u) /\ Nonce(u)' = Nonce(u) /\ Want(u)' = Want(u)
      /\ AutoNonce(u)' = AutoNonce(u)
  BY DEF Client, Kind, Nonce, Want, AutoNonce
<1> HIDE DEF Filled
<1> SUFFICES ASSUME pc[u] # "idle", Client(u) \in SendOnly PROVE Within(u)'
  BY <1>3
<1>4. /\ pc[u] = "assign" => Filled(Client(u), call[u].chain)'
      /\ pc[u] \in {"cast", "error"} => Filled(Client(u), Nonce(u))'
      /\ pc[u] \in {"error", "rolled"} /\ Want(u) # NoNonce => Filled(Client(u), Want(u))'
  BY <1>1, <1>2, <1>3 DEF Within
<1>5. Kind(u) = "clear" => Nonce(u) \in pool'[Client(u)]
  BY <1>1, <1>2 DEF Within
<1> QED
  BY <1>3, <1>4, <1>5 DEF Within

\* Whoever is about to assign finds a local nonce within what is taken: the
\* only call that can be ahead of it would hold the lock that it holds itself.
LEMMA LocalFilled ==
  ASSUME KeyIInv, NEW t \in Threads, pc[t] = "assign", Client(t) \in SendOnly
  PROVE  Filled(Client(t), local_nonce[Client(t)])
<1>1. Inside(t) /\ send_lock[Client(t)] = t
  BY DEF KeyIInv, WithinInv, Within, LockInv, Inside
<1>2. ASSUME NEW u \in Threads, Advanced(u, Client(t)) PROVE FALSE
  <2>1. Inside(u) /\ send_lock[Client(u)] = u /\ Client(u) = Client(t) /\ pc[u] # "assign"
    BY <1>2 DEF KeyIInv, LockInv, Inside, Advanced
  <2> QED
    BY <1>1, <2>1
<1> QED
  BY <1>2 DEF KeyIInv, CursorInv

LEMMA WithinStep ==
  ASSUME MaxDrops = 0, KeyIInv, NEW t \in Threads, Start(t) \/ Step(t),
         pc'[t] # "idle", Client(t)' \in SendOnly
  PROVE  Within(t)'
<1> USE DEF Client, Kind, Nonce, Want, AutoNonce
<1>0. /\ [Next]_vars /\ TypeOK /\ call \in [Threads -> Locals \cup {NoCall}]
      /\ pc \in [Threads -> Places]
      /\ pc[t] # "idle" => /\ call[t] \in Locals /\ Client(t) \in Accounts /\ Kind(t) \in Kinds
      /\ pc[t] # "idle" /\ Client(t) \in SendOnly => Within(t)
  BY DEF Next, KeyIInv, TypeOK, Locals, WithinInv, Places
<1>1. /\ \A a \in Accounts : pool[a] \subseteq pool'[a]
      /\ \A a \in Accounts : \A n : Filled(a, n) => Filled(a, n)'
  BY <1>0, NetKept, GrowsKept DEF KeyIInv
<1>2. \A a \in SendOnly : a \in Accounts /\ \A n \in pool[a] : Filled(a, n)
  BY DEF KeyIInv, ClosedInv, Taken, SendOnly
<1> HIDE DEF Filled
<1>3. CASE Start(t)
  <2>1. CASE CallSend(t)
    BY <1>0, <2>1 DEF CallSend, Call, Within
  <2>2. CASE CallDeploy(t)
    BY <1>0, <2>2, ClientSendAssumption DEF CallDeploy, Call, SendOnly
  <2>3. CASE CallClear(t)
    <3>1. PICK a \in Accounts : \E n \in pool[a] : Call(t, "clear", "send", a, "rpc", n)
      BY <2>3 DEF CallClear
    <3>2. PICK n \in pool[a] : Call(t, "clear", "send", a, "rpc", n)
      BY <3>1
    <3>3. pc'[t] = "send" /\ call'[t].client = a /\ call'[t].kind = "clear" /\ call'[t].nonce = n
      BY <1>0, <3>2 DEF Call
    <3> QED
      BY <1>1, <3>2, <3>3 DEF Within
  <2> QED
    BY <1>3, <2>1, <2>2, <2>3 DEF Start
<1>4. CASE EnterSend(t)
  <2>1. /\ pc[t] = "send" /\ pc'[t] = (IF AutoNonce(t) THEN "next_nonce" ELSE "cast")
        /\ call' = call
    BY <1>0, <1>4 DEF EnterSend, Goto
  <2>2. Kind(t) \in {"send", "clear"} /\ (Kind(t) = "clear" => Nonce(t) \in pool[Client(t)])
    BY <1>0, <2>1 DEF Within, Kinds
  <2> QED
    BY <1>1, <1>2, <2>1, <2>2 DEF Within
<1>5. CASE ReadChainNonce(t)
  <2>1. PICK n \in Nonces : IsPendingCount(Client(t), n) /\ call' = [call EXCEPT ![t].chain = n]
    BY <1>5 DEF ReadChainNonce
  <2>2. /\ pc[t] = "next_nonce" /\ pc'[t] = "assign"
        /\ call'[t].client = call[t].client /\ call'[t].kind = call[t].kind
        /\ call'[t].nonce = call[t].nonce /\ call'[t].chain = n
    BY <1>0, <1>5, <2>1 DEF ReadChainNonce, Goto, Locals
  <2>3. Within(t)
    BY <1>0, <2>2
  <2>4. Filled(Client(t), n)
    BY <1>0, <2>1, <2>2 DEF IsPendingCount, IsFirstFree, Filled, Taken
  <2> QED
    BY <1>0, <1>1, <2>2, <2>3, <2>4 DEF Within
<1>6. CASE AssignNonce(t)
  <2> DEFINE n == NextNonce(local_nonce[Client(t)], call[t].chain)
  <2>1. /\ pc[t] = "assign" /\ pc'[t] = (IF AutoNonce(t) THEN "cast" ELSE "send")
        /\ call'[t].client = call[t].client /\ call'[t].kind = call[t].kind /\ call'[t].nonce = n
    BY <1>0, <1>6 DEF AssignNonce, Goto, Locals
  <2>2. Within(t) /\ AutoNonce(t) /\ Client(t) \in SendOnly
    BY <1>0, <2>1 DEF Within
  <2>3. Filled(Client(t), n)
    BY <2>1, <2>2, LocalFilled DEF NextNonce, Within
  <2> HIDE DEF n
  <2> QED
    BY <1>0, <1>1, <2>1, <2>2, <2>3 DEF Within
<1>7. CASE Refused(t) \/ Broken(t)
  <2>1. PICK w : /\ call' = [call EXCEPT ![t].want = w]
                 /\ w = NoNonce \/ \E e : Refuse(e, Client(t), Nonce(t), w)
    BY <1>7 DEF Refused, Broken
  <2>2. /\ pc[t] = "cast" /\ pc'[t] = "error"
        /\ call'[t].client = call[t].client /\ call'[t].kind = call[t].kind
        /\ call'[t].nonce = call[t].nonce /\ call'[t].want = w
    BY <1>0, <1>7, <2>1 DEF Refused, Broken, Goto, Locals
  <2>3. Within(t)
    BY <1>0, <2>2
  <2>4. w # NoNonce => Filled(Client(t), w)
    BY <1>0, <2>1, <2>2 DEF Refuse, IsUnreserved, IsFirstFree, Filled, Taken
  <2> QED
    BY <1>0, <1>1, <2>2, <2>3, <2>4 DEF Within
<1>8. CASE RollBack(t)
  <2>1. pc[t] = "error" /\ pc'[t] = "rolled" /\ call' = call
    BY <1>0, <1>8 DEF RollBack, Goto
  <2>2. Within(t)
    BY <1>0, <2>1
  <2> QED
    BY <1>0, <1>1, <2>1, <2>2 DEF Within
<1>9. CASE Obey(t)
  <2>1. /\ pc[t] = "rolled" /\ pc'[t] = "cast" /\ AutoNonce(t) /\ Want(t) # NoNonce
        /\ call'[t].client = call[t].client /\ call'[t].kind = call[t].kind
        /\ call'[t].nonce = Want(t)
    BY <1>0, <1>9 DEF Obey, Obeys, Goto, Locals
  <2>2. Within(t)
    BY <1>0, <2>1
  <2> QED
    BY <1>0, <1>1, <2>1, <2>2 DEF Within
<1>10. CASE ReadFails(t) \/ Accepted(t) \/ Raise(t)
  BY <1>0, <1>10 DEF ReadFails, Accepted, Raise, Return, Goto
<1> QED
  BY <1>3, <1>4, <1>5, <1>6, <1>7, <1>8, <1>9, <1>10 DEF Step

LEMMA WithinInvStep ==
  ASSUME MaxDrops = 0, KeyIInv, [Next]_vars PROVE WithinInv'
<1>0. TypeOK /\ LockInv /\ WithinInv
  BY DEF KeyIInv
<1>1. \A a \in SendOnly : \A r \in late'[a] : Filled(a, r[2])'
  <2> SUFFICES ASSUME NEW a \in SendOnly, NEW r \in late'[a] PROVE Filled(a, r[2])'
    OBVIOUS
  <2>1. a \in Accounts
    BY DEF SendOnly
  <2>2. Filled(a, r[2])
    <3>1. CASE r \in late[a]
      BY <1>0, <3>1 DEF WithinInv
    <3>2. ASSUME NEW t \in Threads, Broken(t), Client(t) = a, r[2] = Nonce(t) PROVE Filled(a, r[2])
      BY <1>0, <3>2 DEF Broken, Goto, WithinInv, Within
    <3> QED
      BY <1>0, <2>1, <3>1, <3>2, NetKept
  <2> QED
    BY <2>1, <2>2, GrowsKept
<1>2. ASSUME NEW u \in Threads, pc'[u] # "idle", Client(u)' \in SendOnly PROVE Within(u)'
  <2>1. CASE pc'[u] = pc[u] /\ call'[u] = call[u]
    BY <1>0, <1>2, <2>1, WithinKept DEF WithinInv
  <2>2. CASE ~(pc'[u] = pc[u] /\ call'[u] = call[u])
    <3>1. PICK t \in Threads : Start(t) \/ Step(t)
      BY <2>2 DEF Next, Network, Finished, vars
    <3>2. u = t
      BY <1>0, <2>2, <3>1, StepMoves, CallsTyped
    <3> QED
      BY <1>2, <3>1, <3>2, WithinStep
  <2> QED
    BY <2>1, <2>2
<1> QED
  BY <1>1, <1>2 DEF WithinInv

LEMMA CursorStep ==
  ASSUME MaxDrops = 0, KeyIInv, [Next]_vars PROVE CursorInv'
<1> SUFFICES ASSUME NEW a \in SendOnly
             PROVE  Filled(a, local_nonce[a])' \/ \E u \in Threads : Advanced(u, a)'
  BY DEF CursorInv
<1>0. /\ TypeOK /\ a \in Accounts
      /\ \A n : Filled(a, n) => Filled(a, n)'
      /\ Taken[a] \subseteq Taken'[a]
      /\ Filled(a, local_nonce[a]) \/ \E u \in Threads : Advanced(u, a)
  BY GrowsKept DEF KeyIInv, CursorInv, SendOnly
<1> DEFINE Goal == Filled(a, local_nonce[a])' \/ \E u \in Threads : Advanced(u, a)'
<1>1. ASSUME local_nonce'[a] = local_nonce[a], NEW u \in Threads, Advanced(u, a),
             pc'[u] \in {"cast", "error"}, AutoNonce(u)' = AutoNonce(u), Client(u)' = Client(u),
             Nonce(u)' = Nonce(u)
      PROVE  Goal
  BY <1>1 DEF Advanced
<1>2. ASSUME local_nonce'[a] = local_nonce[a],
             \A u \in Threads : Advanced(u, a) => pc'[u] = pc[u] /\ call'[u] = call[u]
      PROVE  Goal
  <2>1. CASE Filled(a, local_nonce[a])
    BY <1>0, <1>2, <2>1 DEF Filled
  <2>2. ASSUME NEW u \in Threads, Advanced(u, a) PROVE Goal
    BY <1>1, <1>2, <2>2 DEF AutoNonce, Kind, Client, Nonce, Advanced
  <2> QED
    BY <1>0, <2>1, <2>2
<1>3. ASSUME Network \/ Finished \/ UNCHANGED vars PROVE Goal
  BY <1>2, <1>3 DEF Network, Finished, vars
<1>4. ASSUME NEW t \in Threads, Start(t) \/ Step(t) PROVE Goal
  <2>0. /\ \A u \in Threads : u # t => pc'[u] = pc[u] /\ call'[u] = call[u]
        /\ call \in [Threads -> Locals \cup {NoCall}] /\ pc \in [Threads -> Places]
        /\ pc[t] # "idle" => call[t] \in Locals /\ Client(t) \in Accounts
    BY <1>0, <1>4, StepMoves, CallsTyped DEF TypeOK, Locals, Client, Places
  <2>1. ASSUME local_nonce'[a] = local_nonce[a], ~Advanced(t, a) PROVE Goal
    BY <1>2, <2>0, <2>1
  <2>2. ASSUME UNCHANGED local_nonce, pc[t] \notin {"cast", "error"} PROVE Goal
    BY <2>1, <2>2 DEF Advanced
  <2>3. CASE Start(t)
    <3>1. UNCHANGED local_nonce /\ pc[t] = "idle"
      BY <2>3 DEF Start, CallSend, CallDeploy, CallClear, Call
    <3> HIDE DEF Goal
    <3>2. Goal
      BY <2>2, <3>1
    <3> QED
      BY <3>2
  <2>4. CASE EnterSend(t) \/ ReadChainNonce(t) \/ ReadFails(t) \/ Raise(t)
    <3>1. UNCHANGED local_nonce /\ pc[t] \notin {"cast", "error"}
      BY <2>4 DEF EnterSend, ReadChainNonce, ReadFails, Raise, Return, Goto
    <3> HIDE DEF Goal
    <3>2. Goal
      BY <2>2, <3>1
    <3> QED
      BY <3>2
  <2>5. CASE Accepted(t)
    <3>1. /\ local_nonce' = local_nonce /\ pc[t] = "cast"
          /\ Accept(call[t].ep, Client(t), Nonce(t)) \/ Kind(t) = "clear"
      BY <2>5 DEF Accepted, Return, Goto
    <3>2. ASSUME Advanced(t, a) PROVE Filled(a, local_nonce[a])'
      <4>1. Client(t) = a /\ Filled(a, Nonce(t)) /\ local_nonce[a] = Nonce(t) + 1 /\ Nonce(t) \in Nonces
        BY <2>0, <3>1, <3>2 DEF Advanced, KeyIInv, WithinInv, Within, Locals, Nonce
      <4>2. Accept(call[t].ep, a, Nonce(t))
        BY <3>1, <3>2, <4>1 DEF Advanced, AutoNonce
      <4>3. Nonce(t) \in pool'[a] \cup held'[a]
        BY <1>0, <4>2 DEF Accept, TypeOK, NetTypeOK
      <4>4. Nonce(t) \in Taken'[a] /\ 0 .. (Nonce(t) - 1) \subseteq Taken'[a]
        BY <1>0, <4>1, <4>3 DEF Taken, Filled
      <4>5. \A n \in Nonces : \A x, S : x = n + 1 /\ n \in S /\ 0 .. (n - 1) \subseteq S => 0 .. (x - 1) \subseteq S
        <5> SUFFICES ASSUME NEW n \in Nonces, NEW x, NEW S, x = n + 1, n \in S, 0 .. (n - 1) \subseteq S
                     PROVE  0 .. (x - 1) \subseteq S
          OBVIOUS
        <5>1. n \in Int /\ x - 1 = n
          BY EndpointsAssumption DEF Nonces
        <5>2. \A m \in 0 .. n : m = n \/ m \in 0 .. (n - 1)
          BY <5>1
        <5> QED
          BY <5>1, <5>2
      <4>6. local_nonce'[a] = Nonce(t) + 1 /\ Nonce(t) \in Nonces
        BY <3>1, <4>1
      <4>7. 0 .. (local_nonce'[a] - 1) \subseteq Taken'[a]
        BY <4>4, <4>5, <4>6
      <4> QED
        BY <4>7 DEF Filled
    <3> QED
      BY <2>1, <3>1, <3>2
  <2>6. CASE Refused(t) \/ Broken(t)
    <3>1. local_nonce' = local_nonce /\ pc[t] = "cast" /\ pc'[t] = "error"
          /\ AutoNonce(t)' = AutoNonce(t) /\ Client(t)' = Client(t) /\ Nonce(t)' = Nonce(t)
      BY <2>0, <2>6 DEF Refused, Broken, Goto, AutoNonce, Kind, Client, Nonce, Locals
    <3> QED
      BY <1>1, <2>1, <3>1
  <2>7. CASE AssignNonce(t)
    <3> DEFINE n == NextNonce(local_nonce[Client(t)], call[t].chain)
    <3>1. /\ pc[t] = "assign" /\ pc'[t] = (IF AutoNonce(t) THEN "cast" ELSE "send")
          /\ local_nonce' = [local_nonce EXCEPT ![Client(t)] = n + 1]
          /\ AutoNonce(t)' = AutoNonce(t) /\ Client(t)' = Client(t) /\ Nonce(t)' = n
      BY <2>0, <2>7 DEF AssignNonce, Goto, AutoNonce, Kind, Client, Nonce, Locals
    <3> HIDE DEF n
    <3>2. CASE Client(t) = a
      <4>1. AutoNonce(t)
        BY <3>1, <3>2 DEF KeyIInv, WithinInv, Within
      <4>2. local_nonce'[a] = n + 1
        BY <1>0, <3>1, <3>2 DEF TypeOK
      <4> QED
        BY <3>1, <3>2, <4>1, <4>2 DEF Advanced
    <3>3. CASE Client(t) # a
      <4>1. local_nonce'[a] = local_nonce[a] /\ ~Advanced(t, a)
        BY <1>0, <3>1, <3>3 DEF TypeOK, Advanced
      <4> QED
        BY <2>1, <4>1
    <3> QED
      BY <3>2, <3>3
  <2>8. CASE RollBack(t)
    <3>1. /\ pc[t] = "error"
          /\ IF AutoNonce(t)
             THEN local_nonce' = [local_nonce EXCEPT ![Client(t)] = RollbackNonce(@, Nonce(t))]
             ELSE local_nonce' = local_nonce
      BY <2>8 DEF RollBack, Goto
    <3>2. CASE Advanced(t, a)
      <4>1. Client(t) = a /\ AutoNonce(t) /\ local_nonce[a] = Nonce(t) + 1 /\ Filled(a, Nonce(t))
        BY <3>1, <3>2 DEF Advanced, KeyIInv, WithinInv, Within
      <4>2. local_nonce'[a] = Nonce(t)
        BY <1>0, <3>1, <4>1 DEF TypeOK, RollbackNonce
      <4> QED
        BY <1>0, <4>1, <4>2 DEF Filled
    <3>3. CASE ~Advanced(t, a)
      <4>1. local_nonce'[a] = local_nonce[a]
        BY <1>0, <2>0, <3>1, <3>3 DEF TypeOK, Advanced, RollbackNonce
      <4> QED
        BY <2>1, <3>3, <4>1
    <3> QED
      BY <3>2, <3>3
  <2>9. CASE Obey(t)
    <3>1. /\ pc[t] = "rolled" /\ pc'[t] = "cast" /\ AutoNonce(t)
          /\ local_nonce' = [local_nonce EXCEPT ![Client(t)] = Want(t) + 1]
          /\ AutoNonce(t)' = AutoNonce(t) /\ Client(t)' = Client(t) /\ Nonce(t)' = Want(t)
      BY <2>0, <2>9
      DEF Obey, Obeys, Corrected, Goto, AutoNonce, Kind, Client, Nonce, Want, Locals
    <3>2. CASE Client(t) = a
      <4>1. local_nonce'[a] = Want(t) + 1
        BY <1>0, <3>1, <3>2 DEF TypeOK
      <4> QED
        BY <3>1, <3>2, <4>1 DEF Advanced
    <3>3. CASE Client(t) # a
      <4>1. local_nonce'[a] = local_nonce[a] /\ ~Advanced(t, a)
        BY <1>0, <3>1, <3>3 DEF TypeOK, Advanced
      <4> QED
        BY <2>1, <4>1
    <3> QED
      BY <3>2, <3>3
  <2> QED
    BY <1>4, <2>3, <2>4, <2>5, <2>6, <2>7, <2>8, <2>9 DEF Step
<1>5. Next => (\E t \in Threads : Start(t) \/ Step(t)) \/ Network \/ Finished
  BY DEF Next
<1> QED
  BY <1>3, <1>4, <1>5

LEMMA KeyInit == Init => KeyIInv
<1> SUFFICES ASSUME Init PROVE KeyIInv
  OBVIOUS
<1>1. TypeOK
  BY TypeInit
<1>2. LockInv /\ WithinInv
  BY DEF Init, NetInit, LockInv, WithinInv, Inside, SendOnly
<1>3. \A a \in SendOnly : Taken[a] = {} /\ local_nonce[a] = -1
  BY DEF Init, NetInit, Taken, NoNonce, SendOnly
<1>4. CursorInv /\ ClosedInv
  BY <1>3 DEF CursorInv, ClosedInv, Filled
<1> QED
  BY <1>1, <1>2, <1>4 DEF KeyIInv

LEMMA KeyStep == ASSUME MaxDrops = 0 PROVE KeyIInv /\ [Next]_vars => KeyIInv'
BY TypeStep, LockStep, WithinInvStep, CursorStep, GrowsKept DEF KeyIInv

(***************************************************************************)
(* ClientSend!SendLeavesNoGap, for any number of workers that send, deploy *)
(* and replace, any faults of transport and node and front mixed: if the   *)
(* front drops nothing, no failed send leaves a gap (rpc.py:190-192).      *)
(***************************************************************************)
THEOREM NoGapCorrect == ASSUME MaxDrops = 0 PROVE Spec => []SendLeavesNoGap
<1>1. KeyIInv => SendLeavesNoGap
  <2> SUFFICES ASSUME KeyIInv, NEW a \in SendOnly, held[a] = {}, NEW n \in pool[a]
               PROVE  0 .. (n - 1) \subseteq pool[a]
    BY DEF SendLeavesNoGap, GapFree
  <2>1. Taken[a] = pool[a]
    BY DEF Taken, SendOnly
  <2> QED
    BY <2>1 DEF KeyIInv, ClosedInv, Filled
<1> QED
  BY <1>1, KeyInit, KeyStep, PTL DEF Spec

(***************************************************************************)
(* ClientSend!LedgerSpec: as long as the front drops nothing, each step of *)
(* the workers that share a key nobody deploys with occupies the key's     *)
(* next nonce or none at all (rpc.py:186-202).                             *)
(***************************************************************************)
THEOREM ImplementsLedger == ASSUME MaxDrops = 0 PROVE Spec => LedgerSpec
<1> DEFINE Mine == [a \in SendOnly |-> Taken[a]]
<1>1. Init => Ledger!Init
  BY DEF Init, NetInit, Ledger!Init, Taken, SendOnly
<1>2. KeyIInv /\ [Next]_vars => [Ledger!Next]_Mine
  <2> SUFFICES ASSUME KeyIInv, [Next]_vars PROVE [Ledger!Next]_Mine
    OBVIOUS
  <2>1. CASE Taken' = Taken
    BY <2>1
  <2>2. ASSUME NEW a \in Accounts, NEW n \in Nonces, Grows(a, n) PROVE [Ledger!Next]_Mine
    <3>1. /\ n \in (0 .. MaxNonce) \ Taken[a]
          /\ \A b \in Accounts : Taken'[b] = IF b = a THEN Taken[b] \cup {n} ELSE Taken[b]
      BY <2>2 DEF Grows, Nonces, Taken
    <3>2. CASE a \in SendOnly
      <4>1. Mine' = [Mine EXCEPT ![a] = @ \cup {n}]
        BY <3>1, <3>2 DEF SendOnly
      <4>2. n \in (0 .. MaxNonce) \ Mine[a] /\ 0 .. (n - 1) \subseteq Mine[a]
        BY <2>2, <3>1, <3>2 DEF Grows, Filled
      <4> QED
        BY <3>2, <4>1, <4>2 DEF Ledger!Next, Ledger!TakeNext
    <3>3. CASE a \notin SendOnly
      BY <3>1, <3>3 DEF SendOnly
    <3> QED
      BY <3>2, <3>3
  <2> QED
    BY <2>1, <2>2, StepGrows
<1>3. Init => KeyIInv
  BY KeyInit
<1>4. KeyIInv /\ [Next]_vars => KeyIInv'
  BY KeyStep
<1> QED
  BY <1>1, <1>2, <1>3, <1>4, PTL DEF Spec, LedgerSpec, Ledger!Spec
=============================================================================
