---------------------------- MODULE SendSubProofs ----------------------------
(***************************************************************************)
(* Theorems about SendSub for every number of threads, accounts, nonces,   *)
(* faults and drops.                                                       *)
(***************************************************************************)
EXTENDS SendSub, TLAPS

LEMMA NonceSuccessor ==
    ASSUME NEW n \in Nonces PROVE n + 1 \in Nonces \cup {MaxNonce + 1}
BY EndpointsAssumption DEF Nonces

LEMMA AcceptTyped ==
    ASSUME NEW e, NEW a \in Accounts, NEW n,
           pool \in [Accounts -> SUBSET Nonces],
           held \in [Accounts -> SUBSET Nonces],
           Accept(e, a, n)
    PROVE  /\ pool' \in [Accounts -> SUBSET Nonces]
           /\ held' \in [Accounts -> SUBSET Nonces]
<1>1. n \in Nonces
  BY DEF Accept, IsUnreserved, IsFirstFree
<1> QED BY <1>1 DEF Accept

LEMMA TypeInit == Init => TypeOK
BY EndpointsAssumption, SendSubAssumption
DEF Init, NetInit, TypeOK, NetTypeOK, Nonces, MaybeNonce, NoNonce

LEMMA TypeStep == TypeOK /\ [Next]_vars => TypeOK'
<1> SUFFICES ASSUME TypeOK, [Next]_vars PROVE TypeOK'
  OBVIOUS
<1> USE EndpointsAssumption, SendSubAssumption
    DEF TypeOK, NetTypeOK, Nonces, MaybeNonce, NoNonce
<1>1. ASSUME NEW t \in Threads, Call(t) PROVE TypeOK'
  BY <1>1 DEF Call, Goto, netVars
<1>2. ASSUME NEW t \in Threads, Acquire(t) PROVE TypeOK'
  BY <1>2 DEF Acquire, Goto, LockFree, netVars
<1>3. ASSUME NEW t \in Threads, ReadPending(t) PROVE TypeOK'
  <2>1. PICK n \in Nonces : pending' = [pending EXCEPT ![t] = n]
    BY <1>3 DEF ReadPending
  <2> QED BY <1>3, <2>1 DEF ReadPending, Goto, netVars
<1>4. ASSUME NEW t \in Threads, ReadFails(t) PROVE TypeOK'
  <2>1. faults' \in 0 .. MaxFaults
    BY <1>4 DEF ReadFails, Fault
  <2>2. lock' \in [Accounts -> Threads \cup {NoThread}]
    BY <1>4 DEF ReadFails, Release
  <2> QED BY <1>4, <2>1, <2>2 DEF ReadFails, Goto
<1>5. ASSUME NEW t \in Threads, Reserve(t) PROVE TypeOK'
  <2> DEFINE n == Allocated(cursor[acct[t]], pending[t])
  <2>1. n \in Nonces
    BY <1>5 DEF Reserve
  <2>2. nonce' \in [Threads -> Nonces]
    BY <1>5, <2>1 DEF Reserve
  <2>3. cursor' \in [Accounts -> MaybeNonce \cup {MaxNonce + 1}]
    <3>1. n + 1 \in Nonces \cup {MaxNonce + 1}
      BY <2>1, NonceSuccessor
    <3> QED BY <1>5, <3>1 DEF Reserve, Allocate
  <2> HIDE DEF n
  <2> QED BY <1>5, <2>2, <2>3 DEF Reserve, Goto, netVars
<1>6. ASSUME NEW t \in Threads, Accepted(t) PROVE TypeOK'
  BY <1>6, AcceptTyped DEF Accepted, Goto, Release
<1>7. ASSUME NEW t \in Threads, Refused(t) PROVE TypeOK'
  BY <1>7 DEF Refused, Goto, netVars
<1>8. ASSUME NEW t \in Threads, Broken(t) PROVE TypeOK'
  <2>1. NetTypeOK'
    <3>1. faults' \in 0 .. MaxFaults
      BY <1>8 DEF Broken, BrokenCall, Fault
    <3>2. late' \in [Accounts -> SUBSET (Endpoints \X Nonces)]
      BY <1>8 DEF Broken, BrokenCall
    <3>3. /\ pool' \in [Accounts -> SUBSET Nonces]
          /\ held' \in [Accounts -> SUBSET Nonces]
      <4>1. CASE Accept(ep[t], acct[t], nonce[t])
        BY <4>1, AcceptTyped
      <4>2. CASE UNCHANGED <<pool, held>>
        BY <4>2
      <4> QED BY <1>8, <4>1, <4>2 DEF Broken, BrokenCall
    <3> QED BY <1>8, <3>1, <3>2, <3>3 DEF Broken, BrokenCall
  <2> QED BY <1>8, <2>1 DEF Broken, Goto
<1>9. ASSUME NEW t \in Threads, Obey(t) PROVE TypeOK'
  BY <1>9 DEF Obey, Obeys, Goto, ForceNext, netVars
<1>10. ASSUME NEW t \in Threads, Raise(t) PROVE TypeOK'
  BY <1>10 DEF Raise, Rollback, Release, netVars
<1>11. ASSUME NEW a \in Accounts, ResyncSub(a) PROVE TypeOK'
  BY <1>11 DEF ResyncSub, Resync, netVars, threadVars
<1>12. ASSUME Network PROVE TypeOK'
  <2> USE <1>12 DEF Network, threadVars
  <2>1. ASSUME NEW a \in Accounts, LateArrival(a) PROVE TypeOK'
    <3>1. /\ pool' \in [Accounts -> SUBSET Nonces]
          /\ held' \in [Accounts -> SUBSET Nonces]
      BY <2>1, AcceptTyped DEF LateArrival
    <3>2. late' \in [Accounts -> SUBSET (Endpoints \X Nonces)]
      BY <2>1 DEF LateArrival
    <3> QED BY <2>1, <3>1, <3>2 DEF LateArrival
  <2>2. ASSUME NEW a \in Accounts, Forward(a) PROVE TypeOK'
    BY <2>2 DEF Forward
  <2>3. ASSUME NEW a \in Accounts, Drop(a) PROVE TypeOK'
    BY <2>3 DEF Drop
  <2> QED BY <2>1, <2>2, <2>3 DEF NetStep
<1>13. CASE UNCHANGED vars
  BY <1>13 DEF vars, netVars, threadVars
<1> QED
  BY <1>1, <1>2, <1>3, <1>4, <1>5, <1>6, <1>7, <1>8, <1>9, <1>10, <1>11, <1>12, <1>13
  DEF Next, Step, Finished

(***************************************************************************)
(* Every variable keeps its type; in particular a cursor never passes      *)
(* MaxNonce + 1 and never falls below NoNonce (NonceManager._next).        *)
(***************************************************************************)
THEOREM TypeCorrect == Spec => []TypeOK
BY TypeInit, TypeStep, PTL DEF Spec

-----------------------------------------------------------------------------
(***************************************************************************)
(* The send lock of an account excludes, for any endpoints and faults.     *)
(***************************************************************************)
LEMMA LockStep == TypeOK /\ LockInv /\ [Next]_vars => LockInv'
<1> SUFFICES ASSUME TypeOK, LockInv, [Next]_vars PROVE LockInv'
  OBVIOUS
<1> USE SendSubAssumption DEF TypeOK, LockInv, Inside
<1>1. ASSUME NEW t \in Threads, Call(t) PROVE LockInv'
  BY <1>1 DEF Call, Goto
<1>2. ASSUME NEW t \in Threads, Acquire(t) PROVE LockInv'
  BY <1>2 DEF Acquire, Goto, LockFree
<1>3. ASSUME NEW t \in Threads, ReadPending(t) PROVE LockInv'
  BY <1>3 DEF ReadPending, Goto
<1>4. ASSUME NEW t \in Threads, ReadFails(t) PROVE LockInv'
  BY <1>4 DEF ReadFails, Goto, Release
<1>5. ASSUME NEW t \in Threads, Reserve(t) PROVE LockInv'
  BY <1>5 DEF Reserve, Goto
<1>6. ASSUME NEW t \in Threads, Accepted(t) PROVE LockInv'
  BY <1>6 DEF Accepted, Goto, Release
<1>7. ASSUME NEW t \in Threads, Refused(t) PROVE LockInv'
  BY <1>7 DEF Refused, Goto
<1>8. ASSUME NEW t \in Threads, Broken(t) PROVE LockInv'
  BY <1>8 DEF Broken, Goto
<1>9. ASSUME NEW t \in Threads, Obey(t) PROVE LockInv'
  BY <1>9 DEF Obey, Goto
<1>10. ASSUME NEW t \in Threads, Raise(t) PROVE LockInv'
  BY <1>10 DEF Raise, Release
<1>11. CASE UNCHANGED <<pc, acct, lock>>
  BY <1>11
<1> QED
  BY <1>1, <1>2, <1>3, <1>4, <1>5, <1>6, <1>7, <1>8, <1>9, <1>10, <1>11
  DEF Next, Step, ResyncSub, Network, Finished, vars, threadVars

(***************************************************************************)
(* With the plain node only, an accepted nonce below which nothing is      *)
(* missing keeps the pool contiguous and only adds to it.                  *)
(***************************************************************************)
LEMMA PlainAccept ==
    ASSUME NEW a \in Accounts, NEW n, TypeOK, NoGap,
           Filled(a, n), Accept("rpc", a, n)
    PROVE  /\ NoGap'
           /\ \A b \in Accounts : pool[b] \subseteq pool'[b]
           /\ 0 .. n \subseteq pool'[a]
           /\ UNCHANGED held
<1>1. /\ n \in Nonces
      /\ pool' = [pool EXCEPT ![a] = @ \cup {n}]
      /\ UNCHANGED held
  BY DEF Accept
<1>2. n \in Int
  BY <1>1 DEF Nonces
<1>3. \A b \in Accounts : pool'[b] = IF b = a THEN pool[b] \cup {n} ELSE pool[b]
  BY <1>1 DEF TypeOK, NetTypeOK
<1>4. NoGap'
  <2> SUFFICES ASSUME NEW b \in Accounts, NEW m \in pool'[b]
               PROVE  0 .. (m - 1) \subseteq pool'[b]
    BY DEF NoGap
  <2>1. CASE m \in pool[b]
    BY <1>3, <2>1 DEF NoGap
  <2>2. CASE b = a /\ m = n
    BY <1>3, <2>2 DEF Filled
  <2> QED BY <1>3, <2>1, <2>2
<1>5. 0 .. n \subseteq pool'[a]
  <2>1. \A m \in 0 .. n : m = n \/ m \in 0 .. (n - 1)
    BY <1>2
  <2> QED BY <1>3, <2>1 DEF Filled
<1> QED BY <1>1, <1>3, <1>4, <1>5

(***************************************************************************)
(* The strengthened invariant is preserved by every step.                  *)
(***************************************************************************)
LEMMA PlainStep ==
    ASSUME Endpoints = {"rpc"}, PlainIInv, [Next]_vars
    PROVE  WithinInv' /\ CursorInv' /\ PlainInv' /\ NoGap'
<1> DEFINE Goal == WithinInv' /\ CursorInv' /\ PlainInv' /\ NoGap'
<1> USE EndpointsAssumption, SendSubAssumption DEF PlainIInv
<1>0. \A t \in Threads : acct[t] \in Accounts /\ ep[t] = "rpc" /\ nonce[t] \in Int
  BY DEF TypeOK, Nonces
<1>1. ASSUME NEW t \in Threads, Call(t) PROVE Goal
  BY <1>1 DEF Call, Goto, netVars, TypeOK, NetTypeOK, WithinInv, CursorInv, PlainInv, NoGap,
              Filled, Reserved
<1>2. ASSUME NEW t \in Threads, Acquire(t) PROVE Goal
  BY <1>2 DEF Acquire, Goto, netVars, TypeOK, NetTypeOK, WithinInv, CursorInv, PlainInv,
              NoGap, Filled, Reserved
<1>3. ASSUME NEW t \in Threads, ReadPending(t) PROVE Goal
  BY <1>3 DEF ReadPending, Goto, netVars, TypeOK, NetTypeOK, WithinInv, CursorInv, PlainInv,
              NoGap, Filled, Reserved, IsPendingCount, IsFirstFree
<1>4. ASSUME NEW t \in Threads, ReadFails(t) PROVE Goal
  BY <1>4 DEF ReadFails, Goto, TypeOK, NetTypeOK, WithinInv, CursorInv, PlainInv, NoGap,
              Filled, Reserved
<1>5. ASSUME NEW t \in Threads, Reserve(t) PROVE Goal
  <2> DEFINE a == acct[t]  n == Allocated(cursor[a], pending[t])
  <2>1. Filled(a, cursor[a])
    <3> SUFFICES ASSUME NEW u \in Threads, Reserved(u), acct[u] = a PROVE FALSE
      BY <1>0 DEF CursorInv
    <3>1. lock[a] = u /\ lock[a] = t
      BY <1>5 DEF Reserve, Goto, LockInv, Inside, Reserved
    <3> QED BY <1>5, <3>1 DEF Reserve, Goto, Reserved
  <2>2. Filled(a, n)
    BY <1>5, <2>1 DEF Reserve, Goto, Allocated, WithinInv
  <2>3. /\ pc' = [pc EXCEPT ![t] = "cast"]
        /\ nonce' = [nonce EXCEPT ![t] = n]
        /\ cursor' = [cursor EXCEPT ![a] = n + 1]
        /\ UNCHANGED <<pool, held, late, acct, pending, want>>
    BY <1>5 DEF Reserve, Goto, Allocate, netVars
  <2> HIDE DEF n
  <2> QED
    BY <1>0, <2>2, <2>3, SMTT(30) DEF TypeOK, WithinInv, CursorInv, PlainInv, NoGap, Filled, Reserved
<1>6. ASSUME NEW t \in Threads, Accepted(t) PROVE Goal
  <2> DEFINE a == acct[t]
  <2>1. Filled(a, nonce[t]) /\ Accept("rpc", a, nonce[t])
    BY <1>0, <1>6 DEF Accepted, Goto, WithinInv, Reserved
  <2>2. /\ NoGap'
        /\ \A b \in Accounts : pool[b] \subseteq pool'[b]
        /\ 0 .. nonce[t] \subseteq pool'[a]
        /\ UNCHANGED held
    BY <1>0, <2>1, PlainAccept
  <2>3. /\ pc' = [pc EXCEPT ![t] = "idle"]
        /\ UNCHANGED <<late, cursor, acct, pending, nonce, want>>
    BY <1>6 DEF Accepted, Goto
  <2>4. WithinInv'
    BY <1>0, <2>2, <2>3 DEF TypeOK, NetTypeOK, WithinInv, Filled, Reserved
  <2>5. CursorInv'
    <3> SUFFICES ASSUME NEW b \in Accounts, ~Filled(b, cursor[b])'
                 PROVE  \E u \in Threads :
                           Reserved(u)' /\ acct[u] = b /\ cursor[b] = nonce[u] + 1
      BY <2>3 DEF CursorInv
    <3>1. PICK u \in Threads : Reserved(u) /\ acct[u] = b /\ cursor[b] = nonce[u] + 1
      BY <2>2, <2>3 DEF CursorInv, Filled
    <3>2. u # t
      <4> SUFFICES ASSUME u = t PROVE FALSE
        OBVIOUS
      <4>1. b = a /\ cursor'[b] - 1 = nonce[t]
        BY <1>0, <2>3, <3>1
      <4> QED BY <2>2, <4>1 DEF Filled
    <3> QED BY <2>3, <3>1, <3>2 DEF Reserved, TypeOK
  <2>6. PlainInv'
    BY <2>2, <2>3 DEF PlainInv
  <2> QED BY <2>2, <2>4, <2>5, <2>6
<1>7. ASSUME NEW t \in Threads, Refused(t) PROVE Goal
  BY <1>0, <1>7 DEF Refused, Refuse, Goto, netVars, TypeOK, NetTypeOK, WithinInv, CursorInv,
              PlainInv, NoGap, Filled, Reserved, NoNonce
<1>8. ASSUME NEW t \in Threads, Broken(t) PROVE Goal
  <2> DEFINE a == acct[t]  n == nonce[t]
  <2>1. /\ pc[t] = "cast" /\ pc' = [pc EXCEPT ![t] = "failed"]
        /\ want' = [want EXCEPT ![t] = NoNonce]
        /\ UNCHANGED <<cursor, acct, pending, nonce>>
    BY <1>8 DEF Broken, Goto
  <2>2. Filled(a, n)
    BY <2>1 DEF WithinInv, Reserved
  <2>3. NoGap' /\ UNCHANGED held /\ \A b \in Accounts : pool[b] \subseteq pool'[b]
    <3>1. CASE UNCHANGED <<pool, held>>
      BY <3>1 DEF NoGap
    <3>2. CASE Accept("rpc", a, n)
      BY <1>0, <2>2, <3>2, PlainAccept
    <3>3. BrokenCall("rpc", a, n)
      BY <1>0, <1>8 DEF Broken
    <3> QED BY <3>1, <3>2, <3>3 DEF BrokenCall
  <2>4. \A b \in Accounts : \A r \in late'[b] : r \in late[b] \/ (b = a /\ r[2] = n)
    <3>1. \/ UNCHANGED late
          \/ late' = [late EXCEPT ![a] = @ \cup {<<ep[t], n>>}]
      BY <1>8 DEF Broken, BrokenCall
    <3>2. \A b \in Accounts :
             late'[b] = late[b] \/ (b = a /\ late'[b] = late[b] \cup {<<ep[t], n>>})
      BY <3>1 DEF TypeOK, NetTypeOK
    <3> SUFFICES ASSUME NEW b \in Accounts, NEW r \in late'[b], r \notin late[b]
                 PROVE  b = a /\ r[2] = n
      OBVIOUS
    <3>3. b = a /\ r = <<ep[t], n>>
      BY <3>2
    <3> QED BY <3>3
  <2>5. WithinInv'
    BY <1>0, <2>1, <2>2, <2>3, <2>4 DEF WithinInv, Filled, Reserved, TypeOK
  <2>6. CursorInv'
    BY <2>1, <2>3 DEF CursorInv, Filled, Reserved, TypeOK
  <2>7. PlainInv'
    BY <2>1, <2>3 DEF PlainInv, TypeOK
  <2> QED BY <2>3, <2>5, <2>6, <2>7
<1>9. ASSUME NEW t \in Threads, Obey(t) PROVE Goal
  BY <1>9 DEF Obey, Obeys, PlainInv
<1>10. ASSUME NEW t \in Threads, Raise(t) PROVE Goal
  <2> DEFINE a == acct[t]
  <2>1. /\ pc[t] \in {"refused", "failed"} /\ pc' = [pc EXCEPT ![t] = "idle"]
        /\ cursor' = [cursor EXCEPT ![a] = Rollback(@, nonce[t])]
        /\ UNCHANGED <<pool, held, late, acct, pending, nonce, want>>
    BY <1>10 DEF Raise, netVars
  <2>2. WithinInv' /\ PlainInv' /\ NoGap'
    BY <2>1 DEF WithinInv, PlainInv, NoGap, Filled, Reserved, TypeOK
  <2>3. Filled(a, Rollback(cursor[a], nonce[t]))
    <3>1. CASE cursor[a] = nonce[t] + 1
      BY <2>1, <3>1 DEF WithinInv, Reserved, Rollback
    <3>2. CASE cursor[a] # nonce[t] + 1
      <4>1. ASSUME NEW u \in Threads, Reserved(u), acct[u] = a PROVE u = t
        BY <2>1, <4>1 DEF LockInv, Inside, Reserved
      <4> QED BY <1>0, <3>2, <4>1 DEF CursorInv, Rollback
    <3> QED BY <3>1, <3>2
  <2>4. CursorInv'
    <3> SUFFICES ASSUME NEW b \in Accounts, ~Filled(b, cursor'[b])
                 PROVE  \E u \in Threads :
                           Reserved(u)' /\ acct[u] = b /\ cursor'[b] = nonce[u] + 1
      BY <2>1 DEF CursorInv, Filled
    <3>1. b # a /\ cursor'[b] = cursor[b]
      BY <2>1, <2>3 DEF TypeOK
    <3>2. PICK u \in Threads : Reserved(u) /\ acct[u] = b /\ cursor[b] = nonce[u] + 1
      BY <3>1 DEF CursorInv
    <3> QED BY <2>1, <3>1, <3>2 DEF Reserved, TypeOK
  <2> QED BY <2>2, <2>4
<1>11. ASSUME NEW a \in Accounts, ResyncSub(a) PROVE Goal
  BY <1>11 DEF ResyncSub, Resync, netVars, threadVars, TypeOK, NetTypeOK, WithinInv,
              CursorInv, PlainInv, NoGap, Filled, Reserved, NoNonce
<1>12. ASSUME Network PROVE Goal
  <2>1. UNCHANGED <<cursor, pc, acct, pending, nonce, want>>
    BY <1>12 DEF Network, threadVars
  <2>2. PICK a \in Accounts : LateArrival(a)
    BY <1>12 DEF Network, NetStep, Forward, Drop, PlainInv
  <2>3. PICK r \in late[a] :
          /\ late' = [late EXCEPT ![a] = @ \ {r}]
          /\ Accept(r[1], a, r[2]) \/ UNCHANGED <<pool, held>>
    BY <2>2 DEF LateArrival
  <2>4. r[1] = "rpc" /\ Filled(a, r[2])
    BY <2>3 DEF TypeOK, NetTypeOK, WithinInv
  <2>5. NoGap' /\ UNCHANGED held /\ \A b \in Accounts : pool[b] \subseteq pool'[b]
    <3>1. CASE UNCHANGED <<pool, held>>
      BY <3>1 DEF NoGap
    <3>2. CASE Accept(r[1], a, r[2])
      BY <2>4, <3>2, PlainAccept
    <3> QED BY <2>3, <3>1, <3>2
  <2>6. \A b \in Accounts : late'[b] \subseteq late[b]
    BY <2>3 DEF TypeOK, NetTypeOK
  <2> QED
    BY <1>0, <2>1, <2>5, <2>6
    DEF WithinInv, CursorInv, PlainInv, Filled, Reserved
<1>13. CASE UNCHANGED vars
  BY <1>13 DEF vars, netVars, threadVars, WithinInv, CursorInv, PlainInv, NoGap, Filled,
               Reserved
<1> QED
  BY <1>1, <1>2, <1>3, <1>4, <1>5, <1>6, <1>7, <1>8, <1>9, <1>10, <1>11, <1>12, <1>13
  DEF Next, Step, Finished

LEMMA PlainInit == Init => PlainIInv
BY TypeInit
DEF Init, NetInit, PlainIInv, LockInv, WithinInv, CursorInv, PlainInv, NoGap, Inside,
    Reserved, Filled, NoNonce

LEMMA PlainInvariance ==
    ASSUME Endpoints = {"rpc"} PROVE PlainIInv /\ [Next]_vars => PlainIInv'
BY TypeStep, LockStep, PlainStep DEF PlainIInv

(***************************************************************************)
(* NoGap, for every interleaving of any number of workers and any number   *)
(* of lost, half-delivered and late requests and resyncs: send_sub through *)
(* the plain node never leaves a nonce gap behind (base.py:104-106).       *)
(***************************************************************************)
THEOREM PlainNoGap == ASSUME Endpoints = {"rpc"} PROVE Spec => []NoGap
<1>1. PlainIInv => NoGap
  BY DEF PlainIInv
<1> QED BY <1>1, PlainInit, PlainInvariance, PTL DEF Spec

(***************************************************************************)
(* The pool changes only by accepting a nonce below which nothing is       *)
(* missing.                                                                *)
(***************************************************************************)
LEMMA PlainPool ==
    ASSUME Endpoints = {"rpc"}, PlainIInv, [Next]_vars
    PROVE  \/ UNCHANGED pool
           \/ \E a \in Accounts, n \in Nonces : Filled(a, n) /\ Accept("rpc", a, n)
<1> USE DEF PlainIInv
<1> DEFINE Goal ==
        \/ UNCHANGED pool
        \/ \E a \in Accounts, n \in Nonces : Filled(a, n) /\ Accept("rpc", a, n)
<1>0. \A t \in Threads : acct[t] \in Accounts /\ ep[t] = "rpc" /\ nonce[t] \in Nonces
  BY DEF TypeOK
<1>1. ASSUME NEW t \in Threads, Accepted(t) PROVE Goal
  BY <1>0, <1>1 DEF Accepted, Goto, WithinInv, Reserved
<1>2. ASSUME NEW t \in Threads, Broken(t) PROVE Goal
  <2>1. Filled(acct[t], nonce[t]) /\ BrokenCall("rpc", acct[t], nonce[t])
    BY <1>0, <1>2 DEF Broken, Goto, WithinInv, Reserved
  <2> QED BY <1>0, <2>1 DEF BrokenCall
<1>3. ASSUME NEW a \in Accounts, LateArrival(a) PROVE Goal
  <2>1. PICK r \in late[a] : Accept(r[1], a, r[2]) \/ UNCHANGED <<pool, held>>
    BY <1>3 DEF LateArrival
  <2>2. r[1] = "rpc" /\ r[2] \in Nonces /\ Filled(a, r[2])
    BY DEF TypeOK, NetTypeOK, WithinInv
  <2> QED BY <2>1, <2>2
<1>4. ASSUME Network PROVE Goal
  BY <1>3, <1>4 DEF Network, NetStep, Forward, Drop, PlainInv
<1>5. CASE UNCHANGED pool
  BY <1>5
<1> HIDE DEF Goal
<1>6. ASSUME NEW t \in Threads, Call(t) \/ Step(t) PROVE Goal
  BY <1>1, <1>2, <1>5, <1>6
  DEF Step, Call, Acquire, ReadPending, ReadFails, Reserve, Refused, Obey, Raise, netVars, Goal
<1>7. Goal
  BY <1>4, <1>6 DEF Next, ResyncSub, Finished, vars, netVars, Goal
<1> QED BY <1>7 DEF Goal

(***************************************************************************)
(* send_sub through the plain node implements NonceLedger: seen from       *)
(* outside, with all its threads, retries, faults and resyncs, it only     *)
(* ever occupies the account's next nonce.                                 *)
(***************************************************************************)
THEOREM PlainImplementsLedger == ASSUME Endpoints = {"rpc"} PROVE Spec => LedgerSpec
<1>1. Init => Ledger!Init
  BY DEF Init, NetInit, Ledger!Init, Taken
<1>2. PlainIInv /\ [Next]_vars => [Ledger!Next]_Taken
  <2> SUFFICES ASSUME PlainIInv, [Next]_vars PROVE [Ledger!Next]_Taken
    OBVIOUS
  <2>1. \A a \in Accounts : held[a] = {} /\ held'[a] = {}
    BY PlainStep DEF PlainIInv, PlainInv
  <2>2. Taken = [a \in Accounts |-> pool[a]] /\ Taken' = [a \in Accounts |-> pool'[a]]
    BY <2>1 DEF Taken
  <2>3. CASE UNCHANGED pool
    BY <2>2, <2>3
  <2>4. ASSUME NEW a \in Accounts, NEW n \in Nonces, Filled(a, n), Accept("rpc", a, n)
        PROVE  Ledger!Next
    <3>1. n \notin pool[a] /\ pool' = [pool EXCEPT ![a] = @ \cup {n}]
      BY <2>4 DEF Accept
    <3>2. Taken' = [Taken EXCEPT ![a] = @ \cup {n}]
      BY <2>2, <3>1 DEF PlainIInv, TypeOK, NetTypeOK
    <3>3. n \in (0 .. MaxNonce) \ Taken[a] /\ 0 .. (n - 1) \subseteq Taken[a]
      BY <2>2, <2>4, <3>1 DEF Nonces, Filled
    <3> QED BY <3>2, <3>3 DEF Ledger!Next, Ledger!TakeNext
  <2> QED BY <2>3, <2>4, PlainPool
<1>3. Init => PlainIInv
  BY PlainInit
<1>4. PlainIInv /\ [Next]_vars => PlainIInv'
  BY PlainInvariance
<1> QED BY <1>1, <1>2, <1>3, <1>4, PTL DEF Spec, LedgerSpec, Ledger!Spec

-----------------------------------------------------------------------------
\* A step that takes no nonce away from the threads inside other sends.
LEMMA RetryKept ==
    ASSUME CorrectionIInv, NEW t \in Threads,
           \A b \in Accounts : b # acct[t] => Taken'[b] = Taken[b],
           Inside(t), pc'[t] \in {"idle", "failed"},
           pc' = [pc EXCEPT ![t] = pc'[t]],
           UNCHANGED <<acct, nonce, attempt>>,
           \A u \in Threads \ {t} : want'[u] = want[u]
    PROVE  RetryInv' /\ OneCorrectionSuffices'
<1> USE DEF CorrectionIInv
<1>1. ASSUME NEW u \in Threads, pc'[u] \in {"lock", "read", "reserve", "cast", "refused"}
      PROVE  u # t /\ pc'[u] = pc[u] /\ want'[u] = want[u]
  BY <1>1 DEF TypeOK
<1>2. ASSUME NEW u \in Threads, pc'[u] \in {"cast", "refused"}
      PROVE  Taken'[acct[u]] = Taken[acct[u]]
  <2>1. u # t /\ Inside(u)
    BY <1>1, <1>2 DEF Inside
  <2>2. acct[u] # acct[t]
    BY <2>1 DEF LockInv
  <2> QED BY <2>2 DEF TypeOK
<1>3. RetryInv'
  BY <1>1, <1>2 DEF RetryInv
<1>4. OneCorrectionSuffices'
  BY <1>1 DEF OneCorrectionSuffices
<1> QED BY <1>3, <1>4

LEMMA AcceptTaken ==
    ASSUME NEW e, NEW a \in Accounts, NEW n, TypeOK, Accept(e, a, n)
    PROVE  \A b \in Accounts : b # a => Taken'[b] = Taken[b]
BY DEF Accept, Taken, TypeOK, NetTypeOK

LEMMA CorrectionStep ==
    ASSUME "late" \notin FaultKinds, CorrectionIInv, [Next]_vars
    PROVE  RetryInv' /\ OneCorrectionSuffices' /\ (\A a \in Accounts : late'[a] = {})
<1> DEFINE Goal ==
        RetryInv' /\ OneCorrectionSuffices' /\ (\A a \in Accounts : late'[a] = {})
<1> USE EndpointsAssumption, SendSubAssumption DEF CorrectionIInv
<1>1. ASSUME NEW t \in Threads, Call(t) PROVE Goal
  <2>1. UNCHANGED <<late, pool, held, nonce>> /\ Taken' = Taken
    BY <1>1 DEF Call, netVars, Taken
  <2>2. \A u \in Threads \ {t} :
           pc'[u] = pc[u] /\ acct'[u] = acct[u] /\ attempt'[u] = attempt[u]
                          /\ want'[u] = want[u]
    BY <1>1 DEF Call, Goto, TypeOK
  <2>3. pc'[t] = "lock" /\ attempt'[t] = 1
    BY <1>1 DEF Call, Goto, TypeOK
  <2>4. RetryInv'
    BY <2>1, <2>2, <2>3 DEF RetryInv
  <2>5. OneCorrectionSuffices'
    BY <2>1, <2>2, <2>3 DEF OneCorrectionSuffices
  <2> QED BY <2>1, <2>4, <2>5
<1>2. ASSUME NEW t \in Threads, Acquire(t) PROVE Goal
  BY <1>2, ZenonT(40) DEF Acquire, Goto, netVars, TypeOK, RetryInv, OneCorrectionSuffices, Taken
<1>3. ASSUME NEW t \in Threads, ReadPending(t) PROVE Goal
  BY <1>3, ZenonT(40) DEF ReadPending, Goto, netVars, TypeOK, RetryInv, OneCorrectionSuffices, Taken
<1>4. ASSUME NEW t \in Threads, ReadFails(t) PROVE Goal
  BY <1>4, ZenonT(40) DEF ReadFails, Goto, TypeOK, RetryInv, OneCorrectionSuffices, Taken
<1>5. ASSUME NEW t \in Threads, Reserve(t) PROVE Goal
  <2>1. /\ attempt[t] = 1 /\ Taken' = Taken
        /\ UNCHANGED <<acct, attempt, want, late>>
    BY <1>5 DEF Reserve, Goto, netVars, RetryInv, Taken
  <2>2. /\ pc'[t] = "cast"
        /\ \A u \in Threads \ {t} : pc'[u] = pc[u] /\ nonce'[u] = nonce[u]
    BY <1>5 DEF Reserve, Goto, TypeOK
  <2>3. RetryInv'
    BY <2>1, <2>2 DEF RetryInv
  <2>4. OneCorrectionSuffices'
    BY <2>1, <2>2 DEF OneCorrectionSuffices
  <2> QED BY <2>1, <2>3, <2>4
<1>6. ASSUME NEW t \in Threads, Accepted(t) PROVE Goal
  <2>1. \A b \in Accounts : b # acct[t] => Taken'[b] = Taken[b]
    BY <1>6, AcceptTaken DEF Accepted, TypeOK
  <2>2. /\ Inside(t) /\ pc' = [pc EXCEPT ![t] = "idle"] /\ pc'[t] = "idle"
        /\ UNCHANGED <<acct, nonce, attempt, want, late>>
    BY <1>6 DEF Accepted, Goto, Inside, TypeOK
  <2> QED BY <2>1, <2>2, RetryKept
<1>7. ASSUME NEW t \in Threads, Refused(t) PROVE Goal
  <2>1. PICK w \in MaybeNonce :
           /\ Refuse(ep[t], acct[t], nonce[t], w)
           /\ want' = [want EXCEPT ![t] = w]
    BY <1>7 DEF Refused
  <2>2. /\ pc[t] = "cast" /\ pc' = [pc EXCEPT ![t] = "refused"]
        /\ UNCHANGED <<acct, nonce, attempt, late, pool, held>>
    BY <1>7 DEF Refused, Goto, netVars
  <2>3. acct[t] \in Accounts /\ nonce[t] \in Int /\ want'[t] = w /\ Taken' = Taken
    BY <2>1, <2>2 DEF TypeOK, Nonces, Taken
  <2>4. w # NoNonce => w \notin Taken[acct[t]] /\ IsUnreserved(acct[t], w)
    BY <2>1, <2>3 DEF Refuse, IsUnreserved, IsFirstFree, Taken
  <2>5. ASSUME attempt[t] = 2 PROVE w < nonce[t]
    <3>1. nonce[t] \notin Taken[acct[t]] /\ nonce[t] \in Nonces
      BY <2>2, <2>5 DEF RetryInv, TypeOK
    <3>2. nonce[t] \notin pool[acct[t]] \cup held[acct[t]]
      BY <2>3, <3>1 DEF Taken
    <3>3. ~IsUnreserved(acct[t], nonce[t]) /\ IsUnreserved(acct[t], w)
      BY <2>1, <3>2 DEF Refuse
    <3> QED BY <3>1, <3>2, <3>3 DEF IsUnreserved, IsFirstFree, Nonces
  <2>6. /\ pc'[t] = "refused"
        /\ \A u \in Threads \ {t} : pc'[u] = pc[u] /\ want'[u] = want[u]
    BY <2>1, <2>2 DEF TypeOK
  <2>7. RetryInv'
    BY <2>2, <2>3, <2>4, <2>6 DEF RetryInv
  <2>8. OneCorrectionSuffices'
    BY <2>2, <2>3, <2>5, <2>6 DEF OneCorrectionSuffices
  <2> QED BY <2>2, <2>7, <2>8
<1>8. ASSUME NEW t \in Threads, Broken(t) PROVE Goal
  <2>1. acct[t] \in Accounts
    BY DEF TypeOK
  <2>2. \A c \in Accounts : c # acct[t] => Taken'[c] = Taken[c]
    <3>1. CASE UNCHANGED <<pool, held>>
      BY <3>1 DEF Taken
    <3>2. CASE Accept(ep[t], acct[t], nonce[t])
      BY <2>1, <3>2, AcceptTaken
    <3> QED BY <1>8, <3>1, <3>2 DEF Broken, BrokenCall
  <2>3. UNCHANGED late
    BY <1>8 DEF Broken, BrokenCall, Fault
  <2>4. /\ Inside(t) /\ pc' = [pc EXCEPT ![t] = "failed"] /\ pc'[t] = "failed"
        /\ UNCHANGED <<acct, nonce, attempt>>
        /\ \A u \in Threads \ {t} : want'[u] = want[u]
    BY <1>8 DEF Broken, Goto, Inside, TypeOK
  <2> QED BY <2>2, <2>3, <2>4, RetryKept
<1>9. ASSUME NEW t \in Threads, Obey(t) PROVE Goal
  BY <1>9, ZenonT(40) DEF Obey, Obeys, Goto, netVars, TypeOK, RetryInv, OneCorrectionSuffices, Taken
<1>10. ASSUME NEW t \in Threads, Raise(t) PROVE Goal
  BY <1>10, ZenonT(40) DEF Raise, netVars, TypeOK, RetryInv, OneCorrectionSuffices, Taken
<1>11. ASSUME Network PROVE Goal
  <2>1. UNCHANGED <<pc, acct, nonce, attempt, want>>
    BY <1>11 DEF Network, threadVars
  <2>2. PICK a \in Accounts : Forward(a) \/ Drop(a)
    BY <1>11 DEF Network, NetStep, LateArrival
  <2>3. \A b \in Accounts : Taken'[b] \subseteq Taken[b]
    BY <2>2 DEF Forward, Drop, Taken, TypeOK, NetTypeOK
  <2>4. UNCHANGED late
    BY <2>2 DEF Forward, Drop
  <2> QED
    BY <2>1, <2>3, <2>4 DEF RetryInv, OneCorrectionSuffices, TypeOK
<1>12. CASE UNCHANGED <<netVars, threadVars>>
  BY <1>12 DEF netVars, threadVars, RetryInv, OneCorrectionSuffices, Taken
<1> QED
  BY <1>1, <1>2, <1>3, <1>4, <1>5, <1>6, <1>7, <1>8, <1>9, <1>10, <1>11, <1>12
  DEF Next, Step, ResyncSub, Finished, vars

(***************************************************************************)
(* OneCorrectionSuffices, for any mix of endpoints and any number of       *)
(* threads, faults, drops and resyncs: if no request arrives after its     *)
(* caller gave it up, the nonce the front asked for stays free until the   *)
(* retry that uses it (base.py:136-144).                                   *)
(***************************************************************************)
THEOREM OneCorrection ==
    ASSUME "late" \notin FaultKinds PROVE Spec => []OneCorrectionSuffices
<1>1. Init => CorrectionIInv
  BY TypeInit
  DEF Init, NetInit, CorrectionIInv, LockInv, Inside, RetryInv, OneCorrectionSuffices
<1>2. CorrectionIInv /\ [Next]_vars => CorrectionIInv'
  BY TypeStep, LockStep, CorrectionStep DEF CorrectionIInv
<1>3. CorrectionIInv => OneCorrectionSuffices
  BY DEF CorrectionIInv
<1> QED BY <1>1, <1>2, <1>3, PTL DEF Spec

-----------------------------------------------------------------------------
(***************************************************************************)
(* Order.  As long as nothing was dropped and no cursor either, the        *)
(* endpoints together have exactly the nonces below a reserved one, and    *)
(* below the cursor of an account nobody is sending from.                  *)
(***************************************************************************)
Orderly == drops = 0 /\ resyncs = 0
Free(a, n) == n \in Nat /\ Taken[a] = 0 .. (n - 1)
Busy(a) == \E t \in Threads : Reserved(t) /\ acct[t] = a

OrderParts ==
    /\ \A a \in Accounts : pool[a] \cap held[a] = {}
    /\ \A t \in Threads : pc[t] # "refused"
    /\ \A t \in Threads : pc[t] = "reserve" => Filled(acct[t], pending[t])
    /\ \A t \in Threads : Reserved(t) => cursor[acct[t]] = nonce[t] + 1 /\ Free(acct[t], nonce[t])
    /\ \A a \in Accounts :
         ~Busy(a) => (cursor[a] = NoNonce /\ Taken[a] = {}) \/ Free(a, cursor[a])

OrderIInv ==
    /\ TypeOK /\ LockInv
    /\ \A a \in Accounts : late[a] = {}
    /\ Orderly => OrderParts

LEMMA OrderlyBefore == TypeOK /\ [Next]_vars /\ Orderly' => Orderly
<1> SUFFICES ASSUME TypeOK, [Next]_vars, Orderly' PROVE Orderly
  OBVIOUS
<1>1. drops \in Nat /\ resyncs \in Nat
  BY EndpointsAssumption, SendSubAssumption DEF TypeOK, NetTypeOK
<1>2. drops' \in {drops, drops + 1} /\ resyncs' \in {resyncs, resyncs + 1}
  BY DEF Next, Step, Call, Acquire, ReadPending, ReadFails, Reserve, Accepted, Refused, Broken,
         BrokenCall, Obey, Raise, ResyncSub, Network, NetStep, LateArrival, Forward, Drop,
         Finished, vars, netVars, threadVars
<1> QED BY <1>1, <1>2 DEF Orderly

\* The only one who holds a reservation on an account is in its send block.
LEMMA Alone ==
    ASSUME OrderIInv, NEW t \in Threads, Inside(t)
    PROVE  \A u \in Threads : Reserved(u) /\ acct[u] = acct[t] => u = t
BY SendSubAssumption DEF OrderIInv, LockInv, Inside, Reserved, TypeOK

\* A step that changes none of what the order is about but a thread's place.
LEMMA OrderKept ==
    ASSUME OrderIInv, Orderly, UNCHANGED <<pool, held, cursor, nonce>>,
           NEW t \in Threads, ~Reserved(t), pc' = [pc EXCEPT ![t] = pc'[t]],
           pc'[t] \in {"idle", "lock", "read", "reserve"},
           pc'[t] = "reserve" => Filled(acct'[t], pending'[t]),
           \A u \in Threads \ {t} : acct'[u] = acct[u] /\ pending'[u] = pending[u]
    PROVE  OrderParts'
<1>1. OrderParts /\ DOMAIN pc = Threads
  BY DEF OrderIInv, TypeOK
<1>2. Taken' = Taken /\ \A u \in Threads \ {t} : pc'[u] = pc[u]
  BY <1>1 DEF Taken
<1>3. ~Reserved(t)' /\ \A u \in Threads \ {t} : Reserved(u)' <=> Reserved(u)
  BY <1>2 DEF Reserved
<1>4. \A a \in Accounts : Busy(a)' <=> Busy(a)
  BY <1>3 DEF Busy
<1> QED BY <1>1, <1>2, <1>3, <1>4 DEF OrderParts, Free, Filled

LEMMA OrderReserve ==
    ASSUME OrderIInv, Orderly, NEW t \in Threads, Reserve(t)
    PROVE  OrderParts'
<1> DEFINE a == acct[t]
           n == Allocated(cursor[a], pending[t])
<1>1. /\ OrderParts /\ a \in Accounts /\ pc[t] = "reserve" /\ pc' = [pc EXCEPT ![t] = "cast"]
      /\ UNCHANGED <<pool, held, acct, pending>>
  BY DEF OrderIInv, TypeOK, Reserve, Goto, netVars
<1>2. n \in Nonces /\ nonce' = [nonce EXCEPT ![t] = n] /\ cursor' = [cursor EXCEPT ![a] = n + 1]
  BY DEF Reserve, Allocate, OrderIInv, TypeOK
<1>3. ~Busy(a)
  BY <1>1, Alone DEF Inside, Busy, Reserved
<1>4. pending[t] \in Nat /\ 0 .. (pending[t] - 1) \subseteq Taken[a]
  BY <1>1 DEF OrderParts, Filled, Taken, OrderIInv, TypeOK, Nonces
<1>5. Free(a, n)
  <2>1. CASE cursor[a] = NoNonce /\ Taken[a] = {}
    <3>1. pending[t] = 0
      <4>1. pending[t] > 0 => 0 \in 0 .. (pending[t] - 1)
        BY <1>4
      <4> QED BY <1>4, <2>1, <4>1
    <3> QED BY <2>1, <3>1 DEF Allocated, Free, NoNonce
  <2>2. CASE Free(a, cursor[a])
    <3>1. cursor[a] >= pending[t]
      BY <1>4, <2>2 DEF Free
    <3> QED BY <2>2, <3>1 DEF Allocated, Free, NoNonce
  <2> QED BY <1>1, <1>3, <2>1, <2>2 DEF OrderParts
<1> HIDE DEF n
<1>6. Taken' = Taken /\ \A b \in Accounts : b # a => cursor'[b] = cursor[b]
  BY <1>1, <1>2 DEF Taken, OrderIInv, TypeOK
<1>7. /\ pc'[t] = "cast" /\ nonce'[t] = n /\ cursor'[a] = n + 1
      /\ \A u \in Threads \ {t} : pc'[u] = pc[u] /\ nonce'[u] = nonce[u]
  BY <1>1, <1>2 DEF OrderIInv, TypeOK
<1>8. \A u \in Threads \ {t} : Reserved(u)' => Reserved(u) /\ acct[u] # a
  BY <1>3, <1>7 DEF Reserved, Busy
<1>9. \A b \in Accounts : ~Busy(b)' => b # a /\ ~Busy(b)
  BY <1>1, <1>7 DEF Busy, Reserved
<1>10. \A u \in Threads : acct[u] \in Accounts
  BY DEF OrderIInv, TypeOK
<1>11. \A u \in Threads :
         Reserved(u)' => cursor'[acct[u]] = nonce'[u] + 1 /\ Free(acct[u], nonce'[u])
  BY <1>1, <1>5, <1>6, <1>7, <1>8, <1>10 DEF OrderParts
<1> QED BY <1>1, <1>5, <1>6, <1>7, <1>9, <1>11 DEF OrderParts, Free, Filled

LEMMA OrderAccepted ==
    ASSUME OrderIInv, Orderly, NEW t \in Threads, Accepted(t)
    PROVE  OrderParts'
<1> DEFINE a == acct[t]
           n == nonce[t]
<1>1. /\ OrderParts /\ a \in Accounts /\ n \in Nat /\ pc[t] = "cast" /\ Reserved(t)
      /\ pc' = [pc EXCEPT ![t] = "idle"] /\ Accept(ep[t], a, n)
      /\ UNCHANGED <<cursor, acct, pending, nonce>>
  BY DEF OrderIInv, TypeOK, Accepted, Goto, Nonces, Reserved
<1>2. cursor[a] = n + 1 /\ Free(a, n)
  BY <1>1 DEF OrderParts
<1>3. /\ Taken'[a] = Taken[a] \cup {n} /\ \A b \in Accounts : b # a => Taken'[b] = Taken[b]
      /\ \A b \in Accounts : pool'[b] \cap held'[b] = {} /\ pool[b] \subseteq pool'[b]
  <2>1. \A b \in Accounts : Taken[b] = pool[b] \cup held[b] /\ Taken'[b] = pool'[b] \cup held'[b]
    BY DEF Taken
  <2>2. n \notin pool[a] /\ n \notin held[a]
    BY <1>1, <1>2, <2>1 DEF Free
  <2>3. pool \in [Accounts -> SUBSET Nonces] /\ held \in [Accounts -> SUBSET Nonces]
    BY DEF OrderIInv, TypeOK, NetTypeOK
  <2>4. \/ pool'[a] = pool[a] \cup {n} /\ held'[a] = held[a]
        \/ held'[a] = held[a] \cup {n} /\ pool'[a] = pool[a]
    BY <1>1, <2>3 DEF Accept
  <2>5. \A b \in Accounts : b # a => pool'[b] = pool[b] /\ held'[b] = held[b]
    BY <1>1, <2>3 DEF Accept
  <2>6. \A b \in Accounts : pool[b] \cap held[b] = {}
    BY <1>1 DEF OrderParts
  <2>7. pool'[a] \cap held'[a] = {} /\ pool[a] \subseteq pool'[a]
    BY <1>1, <2>2, <2>4, <2>6
  <2>8. Taken'[a] = Taken[a] \cup {n}
    BY <1>1, <2>1, <2>4
  <2>9. \A b \in Accounts : b # a => Taken'[b] = Taken[b]
    BY <2>1, <2>5
  <2>10. ASSUME NEW b \in Accounts PROVE pool'[b] \cap held'[b] = {} /\ pool[b] \subseteq pool'[b]
    <3>1. CASE b = a
      BY <2>7, <3>1
    <3>2. CASE b # a
      BY <2>5, <2>6, <3>2
    <3> QED BY <3>1, <3>2
  <2> QED BY <2>8, <2>9, <2>10
<1>4. pc'[t] = "idle" /\ \A u \in Threads \ {t} : pc'[u] = pc[u]
  BY <1>1 DEF OrderIInv, TypeOK
<1>5. \A u \in Threads : Reserved(u)' => Reserved(u) /\ acct[u] # a
  BY <1>1, <1>4, Alone DEF Inside, Reserved
<1>6. \A b \in Accounts : b # a /\ ~Busy(b)' => ~Busy(b)
  BY <1>1, <1>4 DEF Busy, Reserved
<1>7. Taken'[a] = 0 .. ((n + 1) - 1) /\ n + 1 \in Nat /\ cursor'[a] = n + 1
  <2>1. 0 .. n = (0 .. (n - 1)) \cup {n} /\ (n + 1) - 1 = n /\ n + 1 \in Nat
    BY <1>1
  <2> QED BY <1>1, <1>2, <1>3, <2>1 DEF Free
<1>8. \A u \in Threads : acct[u] \in Accounts
  BY DEF OrderIInv, TypeOK
<1>9. \A b \in Accounts, k \in Nat : b # a /\ Free(b, k) => Free(b, k)'
  BY <1>3 DEF Free
<1>10. \A u \in Threads :
         Reserved(u)' => cursor'[acct[u]] = nonce'[u] + 1 /\ Free(acct[u], nonce[u])'
  BY <1>1, <1>5, <1>8, <1>9 DEF OrderParts, Free
<1>11. ASSUME NEW b \in Accounts, ~Busy(b)'
       PROVE  (cursor'[b] = NoNonce /\ Taken'[b] = {}) \/ Free(b, cursor[b])'
  <2>1. CASE b = a
    BY <1>7, <2>1 DEF Free
  <2>2. CASE b # a
    BY <1>1, <1>3, <1>6, <1>9, <1>11, <2>2 DEF OrderParts, Free
  <2> QED BY <2>1, <2>2
<1> QED BY <1>1, <1>3, <1>4, <1>8, <1>10, <1>11 DEF OrderParts, Filled

\* The endpoint has no reason to refuse.
LEMMA OrderRefused ==
    ASSUME OrderIInv, Orderly, NEW t \in Threads, Refused(t)
    PROVE  FALSE
<1>1. /\ OrderParts /\ Reserved(t) /\ acct[t] \in Accounts /\ nonce[t] \in Nonces
  BY DEF OrderIInv, TypeOK, Refused, Goto, Reserved
<1>2. Free(acct[t], nonce[t])
  BY <1>1 DEF OrderParts
<1>3. nonce[t] \notin pool[acct[t]] /\ IsUnreserved(acct[t], nonce[t])
  <2>1. pool[acct[t]] \cup held[acct[t]] = 0 .. (nonce[t] - 1) /\ nonce[t] \in Nat
    BY <1>1, <1>2 DEF Free, Taken
  <2> QED BY <1>1, <2>1 DEF IsUnreserved, IsFirstFree
<1> QED BY <1>3 DEF Refused, Refuse

LEMMA OrderRaise ==
    ASSUME OrderIInv, Orderly, NEW t \in Threads, Raise(t)
    PROVE  OrderParts'
<1> DEFINE a == acct[t]
           n == nonce[t]
<1>1. /\ OrderParts /\ a \in Accounts /\ n \in Nat /\ pc[t] \in {"refused", "failed"} /\ Reserved(t)
      /\ pc' = [pc EXCEPT ![t] = "idle"] /\ cursor' = [cursor EXCEPT ![a] = Rollback(cursor[a], n)]
      /\ UNCHANGED <<pool, held, acct, pending, nonce>>
  BY DEF OrderIInv, TypeOK, Raise, Nonces, Reserved, netVars
<1>2. cursor[a] = n + 1 /\ Free(a, n)
  BY <1>1 DEF OrderParts
<1>3. Taken' = Taken /\ cursor'[a] = n /\ \A b \in Accounts : b # a => cursor'[b] = cursor[b]
  BY <1>1, <1>2 DEF Taken, Rollback, OrderIInv, TypeOK
<1>4. pc'[t] = "idle" /\ \A u \in Threads \ {t} : pc'[u] = pc[u]
  BY <1>1 DEF OrderIInv, TypeOK
<1>5. \A u \in Threads : Reserved(u)' => Reserved(u) /\ acct[u] # a
  BY <1>1, <1>4, Alone DEF Inside, Reserved
<1>6. \A b \in Accounts : b # a /\ ~Busy(b)' => ~Busy(b)
  BY <1>1, <1>4 DEF Busy, Reserved
<1>7. \A u \in Threads : acct[u] \in Accounts
  BY DEF OrderIInv, TypeOK
<1>8. ASSUME NEW b \in Accounts, ~Busy(b)'
      PROVE  (cursor'[b] = NoNonce /\ Taken[b] = {}) \/ Free(b, cursor'[b])
  BY <1>1, <1>2, <1>3, <1>6, <1>8 DEF OrderParts
<1> QED BY <1>1, <1>3, <1>4, <1>5, <1>7, <1>8 DEF OrderParts, Free, Filled

LEMMA OrderNetwork ==
    ASSUME OrderIInv, Orderly, Orderly', Network
    PROVE  OrderParts'
<1>1. OrderParts /\ UNCHANGED <<cursor, pc, acct, pending, nonce>>
  BY DEF OrderIInv, Network, threadVars
<1>2. PICK a \in Accounts : Forward(a)
  BY DEF Network, NetStep, LateArrival, Drop, OrderIInv, Orderly
<1>3. /\ Taken' = Taken
      /\ \A b \in Accounts : pool'[b] \cap held'[b] = {} /\ pool[b] \subseteq pool'[b]
  BY <1>1, <1>2 DEF Forward, Taken, OrderParts, OrderIInv, TypeOK, NetTypeOK
<1>4. \A u \in Threads : acct[u] \in Accounts
  BY DEF OrderIInv, TypeOK
<1> QED BY <1>1, <1>3, <1>4 DEF OrderParts, Free, Filled, Reserved, Busy

LEMMA OrderStep ==
    ASSUME FaultKinds \subseteq {"lost"}, OrderIInv, [Next]_vars
    PROVE  OrderIInv'
<1>1. TypeOK' /\ LockInv'
  BY TypeStep, LockStep DEF OrderIInv
<1>2. \A a \in Accounts : late'[a] = {}
  BY DEF OrderIInv, TypeOK, Next, Step, Call, Acquire, ReadPending, ReadFails, Reserve, Accepted,
         Refused, Broken, BrokenCall, Fault, Obey, Raise, ResyncSub, Network, NetStep, LateArrival,
         Forward, Drop, Finished, vars, netVars, threadVars
<1>3. ASSUME Orderly' PROVE OrderParts'
  <2> USE <1>3
  <2>0. Orderly
    BY OrderlyBefore DEF OrderIInv
  <2>a. OrderParts
    BY <2>0 DEF OrderIInv
  <2>1. ASSUME NEW t \in Threads, Call(t) PROVE OrderParts'
    <3>1. /\ UNCHANGED <<pool, held, cursor, nonce>> /\ pc[t] = "idle"
          /\ pc' = [pc EXCEPT ![t] = "lock"] /\ pc'[t] = "lock"
          /\ \A u \in Threads \ {t} : acct'[u] = acct[u] /\ pending'[u] = pending[u]
      BY <2>1 DEF Call, Goto, netVars, OrderIInv, TypeOK
    <3> QED BY <2>0, <3>1, OrderKept DEF Reserved
  <2>2. ASSUME NEW t \in Threads, Acquire(t) \/ ReadFails(t) PROVE OrderParts'
    <3>1. /\ UNCHANGED <<pool, held, cursor, nonce>> /\ pc[t] \in {"lock", "read"}
          /\ pc' = [pc EXCEPT ![t] = pc'[t]] /\ pc'[t] \in {"read", "idle"}
          /\ \A u \in Threads \ {t} : acct'[u] = acct[u] /\ pending'[u] = pending[u]
      BY <2>2 DEF Acquire, ReadFails, Goto, netVars, OrderIInv, TypeOK
    <3> QED BY <2>0, <3>1, OrderKept DEF Reserved
  <2>3. ASSUME NEW t \in Threads, ReadPending(t) PROVE OrderParts'
    <3>1. PICK n \in Nonces : IsPendingCount(acct[t], n) /\ pending' = [pending EXCEPT ![t] = n]
      BY <2>3 DEF ReadPending
    <3>2. /\ UNCHANGED <<pool, held, cursor, nonce, acct>> /\ pc[t] = "read"
          /\ pc' = [pc EXCEPT ![t] = "reserve"] /\ pc'[t] = "reserve" /\ pending'[t] = n
          /\ \A u \in Threads \ {t} : pending'[u] = pending[u]
      BY <2>3, <3>1 DEF ReadPending, Goto, netVars, OrderIInv, TypeOK
    <3>3. Filled(acct'[t], pending'[t])
      BY <3>1, <3>2 DEF IsPendingCount, IsFirstFree, Filled
    <3> QED BY <2>0, <3>2, <3>3, OrderKept DEF Reserved
  <2>4. ASSUME NEW t \in Threads, Broken(t) PROVE OrderParts'
    <3>1. /\ UNCHANGED <<pool, held, cursor, nonce, acct, pending>> /\ pc[t] = "cast"
          /\ pc' = [pc EXCEPT ![t] = "failed"]
      BY <2>4 DEF Broken, BrokenCall, Fault, Goto
    <3>2. Taken' = Taken /\ pc'[t] = "failed" /\ \A u \in Threads \ {t} : pc'[u] = pc[u]
      BY <3>1 DEF Taken, OrderIInv, TypeOK
    <3>3. \A u \in Threads : (Reserved(u)' <=> Reserved(u)) /\ pc'[u] # "refused"
                             /\ (pc'[u] = "reserve" => pc[u] = "reserve")
      BY <2>a, <3>1, <3>2 DEF Reserved, OrderParts
    <3> QED BY <2>a, <3>1, <3>2, <3>3 DEF OrderParts, Free, Filled, Busy
  <2>5. ASSUME NEW t \in Threads, Reserve(t) \/ Accepted(t) \/ Refused(t) \/ Obey(t) \/ Raise(t)
        PROVE  OrderParts'
    BY <2>0, <2>a, <2>5, OrderReserve, OrderAccepted, OrderRefused, OrderRaise
    DEF Obey, Goto, OrderParts
  <2>6. CASE Network
    BY <2>0, <2>6, OrderNetwork
  <2>7. CASE Finished \/ UNCHANGED vars
    <3>1. UNCHANGED <<pool, held, cursor, pc, acct, pending, nonce>>
      BY <2>7 DEF Finished, vars, netVars, threadVars
    <3>2. Taken' = Taken /\ \A a \in Accounts : Busy(a)' <=> Busy(a)
      BY <3>1 DEF Taken, Busy, Reserved
    <3> QED BY <2>a, <3>1, <3>2 DEF OrderParts, Free, Filled, Reserved
  <2>8. \A a \in Accounts : ~ResyncSub(a)
    BY SendSubAssumption DEF ResyncSub, Orderly, OrderIInv, TypeOK
  <2> QED
    BY <2>1, <2>2, <2>3, <2>4, <2>5, <2>6, <2>7, <2>8 DEF Next, Step
<1> QED BY <1>1, <1>2, <1>3 DEF OrderIInv

LEMMA OrderInit == Init => OrderIInv
<1> SUFFICES ASSUME Init PROVE OrderIInv
  OBVIOUS
<1>1. TypeOK
  BY TypeInit
<1>2. \A a \in Accounts : Taken[a] = {} /\ cursor[a] = NoNonce /\ late[a] = {} /\ pool[a] = {}
  BY DEF Init, NetInit, Taken
<1> QED BY <1>1, <1>2 DEF Init, OrderIInv, LockInv, Inside, OrderParts, Reserved

(***************************************************************************)
(* InOrderArrival, for any mix of node and front and any number of threads *)
(* and accounts: if broadcasts that fail are lost and nothing else, no     *)
(* endpoint refuses a nonce before something is dropped (nonce.py:21-26).  *)
(***************************************************************************)
THEOREM InOrderCorrect ==
    ASSUME FaultKinds \subseteq {"lost"} PROVE Spec => []InOrderArrival
<1>1. OrderIInv /\ [Next]_vars => OrderIInv'
  BY OrderStep
<1>2. OrderIInv => InOrderArrival
  BY DEF OrderIInv, Orderly, OrderParts, InOrderArrival
<1> QED BY <1>1, <1>2, OrderInit, PTL DEF Spec

(***************************************************************************)
(* NoCollisionInOrder, under the same hypothesis: the front never holds a  *)
(* nonce the node already has (base.py:69-70).                             *)
(***************************************************************************)
THEOREM NoCollisionCorrect ==
    ASSUME FaultKinds \subseteq {"lost"} PROVE Spec => []NoCollisionInOrder
<1>1. OrderIInv /\ [Next]_vars => OrderIInv'
  BY OrderStep
<1>2. OrderIInv => NoCollisionInOrder
  BY DEF OrderIInv, Orderly, OrderParts, NoCollisionInOrder, NoCollision
<1> QED BY <1>1, <1>2, OrderInit, PTL DEF Spec

-----------------------------------------------------------------------------
(***************************************************************************)
(* Any mix of endpoints and faults.  Until the front drops something the   *)
(* endpoints together never lose a nonce, so that whatever has been read,  *)
(* reserved, named by a refusal or given up on the wire has every lower    *)
(* nonce below it for good.                                                *)
(***************************************************************************)
Below(a, n) == 0 .. (n - 1) \subseteq Taken[a]

ReachInv ==
    /\ \A t \in Threads : pc[t] = "reserve" => Below(acct[t], pending[t])
    /\ \A t \in Threads : Reserved(t) => Below(acct[t], nonce[t])
    /\ \A t \in Threads : pc[t] = "refused" /\ want[t] # NoNonce => Below(acct[t], want[t])
    /\ \A a \in Accounts : \A r \in late[a] : Below(a, r[2])

PinInv == \A a \in Accounts :
    \/ Below(a, cursor[a])
    \/ \E t \in Threads : Reserved(t) /\ acct[t] = a /\ cursor[a] = nonce[t] + 1

MixIInv == TypeOK /\ LockInv /\ (drops = 0 => ReachInv /\ PinInv)

\* A nonce taken above no gap, and nothing else.
TakesOne(a, n) ==
    /\ n \in Nonces \ Taken[a] /\ Below(a, n)
    /\ Taken' = [Taken EXCEPT ![a] = @ \cup {n}]

LEMMA AcceptTakes ==
    ASSUME TypeOK, NEW e, NEW a \in Accounts, NEW n, Below(a, n), Accept(e, a, n)
    PROVE  /\ Taken' = Taken \/ (n \in Nonces /\ TakesOne(a, n))
           /\ n \in Taken'[a] /\ n \in Int
<1>1. n \in Nonces /\ n \in Int
  BY EndpointsAssumption DEF Accept, IsUnreserved, IsFirstFree, Nonces
<1>2. /\ pool \in [Accounts -> SUBSET Nonces] /\ held \in [Accounts -> SUBSET Nonces]
      /\ Taken = [b \in Accounts |-> pool[b] \cup held[b]]
      /\ Taken' = [b \in Accounts |-> pool'[b] \cup held'[b]]
  BY DEF TypeOK, NetTypeOK, Taken
<1>3. \A b \in Accounts : pool'[b] \cup held'[b] = IF b = a THEN pool[b] \cup held[b] \cup {n}
                                                         ELSE pool[b] \cup held[b]
  BY <1>2 DEF Accept
<1>4. Taken' = [Taken EXCEPT ![a] = @ \cup {n}] /\ n \in Taken'[a]
  BY <1>2, <1>3
<1>5. CASE n \in Taken[a]
  <2>1. Taken' = Taken
    BY <1>2, <1>3, <1>5
  <2> QED
    BY <1>1, <1>4, <2>1
<1>6. CASE n \notin Taken[a]
  BY <1>1, <1>4, <1>6 DEF TakesOne
<1> QED BY <1>5, <1>6

\* Forwarding moves a nonce from the front to the node.
LEMMA ForwardKeeps ==
    ASSUME TypeOK, NEW a \in Accounts, Forward(a)
    PROVE  Taken' = Taken
<1>1. PICK n \in held[a] : /\ held' = [held EXCEPT ![a] = @ \ {n}]
                           /\ pool' = [pool EXCEPT ![a] = @ \cup {n}]
  BY DEF Forward
<1>2. \A b \in Accounts : pool'[b] \cup held'[b] = pool[b] \cup held[b]
  BY <1>1 DEF TypeOK, NetTypeOK
<1> QED BY <1>2 DEF Taken

LEMMA DropsBefore == TypeOK /\ [Next]_vars /\ drops' = 0 => drops = 0
<1> SUFFICES ASSUME TypeOK, [Next]_vars, drops' = 0 PROVE drops = 0
  OBVIOUS
<1>1. drops \in Nat
  BY EndpointsAssumption DEF TypeOK, NetTypeOK
<1>2. drops' \in {drops, drops + 1}
  BY DEF Next, Step, Call, Acquire, ReadPending, ReadFails, Reserve, Accepted, Refused, Broken,
         BrokenCall, Obey, Raise, ResyncSub, Network, NetStep, LateArrival, Forward, Drop,
         Finished, vars, netVars, threadVars
<1> QED BY <1>1, <1>2

LEMMA MixTaken ==
    ASSUME MixIInv, [Next]_vars, drops' = 0
    PROVE  Taken' = Taken \/ \E a \in Accounts, n \in Nonces : TakesOne(a, n)
<1> DEFINE Goal == Taken' = Taken \/ \E a \in Accounts, n \in Nonces : TakesOne(a, n)
<1>0. TypeOK /\ ReachInv /\ \A t \in Threads : acct[t] \in Accounts
  BY DropsBefore DEF MixIInv, TypeOK
<1>1. ASSUME NEW t \in Threads, Accepted(t) \/ Broken(t) PROVE Goal
  <2>1. Below(acct[t], nonce[t]) /\ acct[t] \in Accounts
    BY <1>0, <1>1 DEF Accepted, Broken, Goto, ReachInv, Reserved
  <2>2. Accept(ep[t], acct[t], nonce[t]) \/ UNCHANGED <<pool, held>>
    BY <1>1 DEF Accepted, Broken, BrokenCall
  <2> QED BY <1>0, <2>1, <2>2, AcceptTakes DEF Taken
<1>2. ASSUME NEW a \in Accounts, LateArrival(a) PROVE Goal
  <2>1. PICK r \in late[a] : Accept(r[1], a, r[2]) \/ UNCHANGED <<pool, held>>
    BY <1>2 DEF LateArrival
  <2>2. Below(a, r[2])
    BY <1>0 DEF ReachInv
  <2> QED BY <1>0, <2>1, <2>2, AcceptTakes DEF Taken
<1>3. ASSUME NEW a \in Accounts, Forward(a) PROVE Goal
  BY <1>0, <1>3, ForwardKeeps
<1>4. \A a \in Accounts : ~Drop(a)
  BY <1>0, DropsBefore, EndpointsAssumption DEF Drop, TypeOK, NetTypeOK
<1>5. ASSUME UNCHANGED <<pool, held>> PROVE Goal
  BY <1>5 DEF Taken
<1> HIDE DEF Goal
<1>6. ASSUME Network PROVE Goal
  BY <1>2, <1>3, <1>4, <1>6 DEF Network, NetStep
<1>7. ASSUME NEW t \in Threads, Call(t) \/ Step(t) PROVE Goal
  BY <1>1, <1>5, <1>7
  DEF Step, Call, Acquire, ReadPending, ReadFails, Reserve, Refused, Obey, Raise, netVars
<1>8. Goal
  BY <1>5, <1>6, <1>7 DEF Next, ResyncSub, Finished, vars, netVars
<1> QED BY <1>8 DEF Goal

LEMMA MixStep == MixIInv /\ [Next]_vars /\ drops' = 0 => ReachInv' /\ PinInv'
<1> SUFFICES ASSUME MixIInv, [Next]_vars, drops' = 0 PROVE ReachInv' /\ PinInv'
  OBVIOUS
<1> DEFINE Goal == ReachInv' /\ PinInv'
<1>0. /\ TypeOK /\ LockInv /\ ReachInv /\ PinInv
      /\ \A t \in Threads : acct[t] \in Accounts /\ nonce[t] \in Int
      /\ pc \in [Threads -> {"idle", "lock", "read", "reserve", "cast", "refused", "failed"}]
      /\ acct \in [Threads -> Accounts] /\ nonce \in [Threads -> Nonces]
      /\ pending \in [Threads -> Nonces] /\ want \in [Threads -> MaybeNonce]
      /\ DOMAIN cursor = Accounts /\ DOMAIN late = Accounts
  BY DropsBefore, EndpointsAssumption DEF MixIInv, TypeOK, NetTypeOK, Nonces
<1>a. \A a \in Accounts : Taken[a] \subseteq Taken'[a]
  <2>1. CASE Taken' = Taken
    BY <2>1
  <2>2. ASSUME NEW a \in Accounts, NEW n \in Nonces, TakesOne(a, n)
        PROVE  \A b \in Accounts : Taken[b] \subseteq Taken'[b]
    BY <2>2 DEF TakesOne, Taken
  <2> QED BY <2>1, <2>2, MixTaken
<1>b. \A a \in Accounts : \A n : Below(a, n) => Below(a, n)'
  BY <1>a DEF Below
<1>1. ASSUME NEW t \in Threads, Call(t) PROVE Goal
  <2>1. /\ pc[t] = "idle" /\ pc' = [pc EXCEPT ![t] = "lock"]
        /\ UNCHANGED <<pool, held, late, cursor, pending, nonce>>
        /\ \A u \in Threads \ {t} : acct'[u] = acct[u] /\ want'[u] = want[u]
    BY <1>0, <1>1 DEF Call, Goto, netVars
  <2>2. /\ \A a \in Accounts : Taken'[a] = Taken[a]
        /\ pc'[t] = "lock" /\ \A u \in Threads \ {t} : pc'[u] = pc[u]
    BY <1>0, <2>1 DEF Taken
  <2>3. ReachInv'
    BY <1>0, <2>1, <2>2 DEF ReachInv, Reserved, Below
  <2>4. PinInv'
    BY <1>0, <2>1, <2>2 DEF PinInv, Reserved, Below
  <2> QED BY <2>3, <2>4
<1>2. ASSUME NEW t \in Threads, Acquire(t) \/ ReadFails(t) PROVE Goal
  <2>1. /\ pc[t] \in {"lock", "read"} /\ \E to \in {"read", "idle"} : pc' = [pc EXCEPT ![t] = to]
        /\ UNCHANGED <<pool, held, late, cursor, acct, want, pending, nonce>>
    BY <1>2 DEF Acquire, ReadFails, Goto, netVars
  <2>2. /\ \A a \in Accounts : Taken'[a] = Taken[a]
        /\ pc'[t] \in {"read", "idle"} /\ \A u \in Threads \ {t} : pc'[u] = pc[u]
    BY <1>0, <2>1 DEF Taken
  <2>3. ReachInv'
    BY <1>0, <2>1, <2>2 DEF ReachInv, Reserved, Below
  <2>4. PinInv'
    BY <1>0, <2>1, <2>2 DEF PinInv, Reserved, Below
  <2> QED BY <2>3, <2>4
<1>3. ASSUME NEW t \in Threads, ReadPending(t) PROVE Goal
  <2>1. PICK n \in Nonces : IsPendingCount(acct[t], n) /\ pending' = [pending EXCEPT ![t] = n]
    BY <1>3 DEF ReadPending
  <2>2. /\ pc[t] = "read" /\ pc' = [pc EXCEPT ![t] = "reserve"]
        /\ UNCHANGED <<pool, held, late, cursor, acct, want, nonce>>
    BY <1>3 DEF ReadPending, Goto, netVars
  <2>3. Below(acct[t], n)
    BY <1>0, <2>1 DEF IsPendingCount, IsFirstFree, Below, Taken
  <2>4. /\ \A a \in Accounts : Taken'[a] = Taken[a]
        /\ pc'[t] = "reserve" /\ pending'[t] = n
        /\ \A u \in Threads \ {t} : pc'[u] = pc[u] /\ pending'[u] = pending[u]
    BY <1>0, <2>1, <2>2 DEF Taken
  <2>5. ReachInv'
    BY <1>0, <2>2, <2>3, <2>4 DEF ReachInv, Reserved, Below
  <2>6. PinInv'
    BY <1>0, <2>2, <2>4 DEF PinInv, Reserved, Below
  <2> QED BY <2>5, <2>6
<1>4. ASSUME NEW t \in Threads, Reserve(t) PROVE Goal
  <2> DEFINE n == Allocated(cursor[acct[t]], pending[t])
  <2>1. Below(acct[t], cursor[acct[t]])
    <3>1. ASSUME NEW u \in Threads, Reserved(u), acct[u] = acct[t] PROVE FALSE
      <4>1. lock[acct[t]] = u /\ lock[acct[t]] = t
        BY <1>0, <1>4, <3>1 DEF Reserve, Goto, LockInv, Inside, Reserved
      <4> QED BY <1>4, <3>1, <4>1 DEF Reserve, Goto, Reserved
    <3> QED BY <1>0, <3>1 DEF PinInv
  <2>2. Below(acct[t], n)
    BY <1>0, <1>4, <2>1 DEF Reserve, Goto, Allocated, ReachInv
  <2>3. /\ pc[t] = "reserve" /\ pc' = [pc EXCEPT ![t] = "cast"]
        /\ nonce' = [nonce EXCEPT ![t] = n]
        /\ cursor' = [cursor EXCEPT ![acct[t]] = n + 1]
        /\ UNCHANGED <<pool, held, late, acct, pending, want>>
    BY <1>4 DEF Reserve, Goto, Allocate, netVars
  <2> HIDE DEF n
  <2>4. /\ \A a \in Accounts : Taken'[a] = Taken[a]
        /\ pc'[t] = "cast" /\ nonce'[t] = n /\ cursor'[acct[t]] = n + 1
        /\ \A u \in Threads \ {t} : pc'[u] = pc[u] /\ nonce'[u] = nonce[u]
        /\ \A a \in Accounts : a # acct[t] => cursor'[a] = cursor[a]
    BY <1>0, <2>3 DEF Taken
  <2>5. ReachInv'
    BY <1>0, <2>2, <2>3, <2>4 DEF ReachInv, Reserved, Below
  <2>6. PinInv'
    BY <1>0, <2>3, <2>4 DEF PinInv, Reserved, Below
  <2> QED BY <2>5, <2>6
<1>5. ASSUME NEW t \in Threads, Accepted(t) PROVE Goal
  <2>1. /\ pc[t] = "cast" /\ pc' = [pc EXCEPT ![t] = "idle"]
        /\ UNCHANGED <<late, cursor, acct, pending, nonce, want>>
        /\ Accept(ep[t], acct[t], nonce[t])
    BY <1>5 DEF Accepted, Goto
  <2>2. pc'[t] = "idle" /\ \A u \in Threads \ {t} : pc'[u] = pc[u]
    BY <1>0, <2>1
  <2>3. ReachInv'
    BY <1>0, <1>b, <2>1, <2>2 DEF ReachInv, Reserved
  <2>4. Below(acct[t], nonce[t]) /\ nonce[t] \in Taken'[acct[t]]
    BY <1>0, <2>1, AcceptTakes DEF ReachInv, Reserved
  <2>5. Below(acct[t], nonce[t] + 1)'
    <3>1. \A m \in 0 .. nonce[t] : m = nonce[t] \/ m \in 0 .. (nonce[t] - 1)
      BY <1>0
    <3>2. 0 .. nonce[t] \subseteq Taken'[acct[t]]
      BY <1>0, <1>a, <2>4, <3>1 DEF Below
    <3> QED BY <1>0, <2>1, <3>2 DEF Below
  <2>6. ASSUME NEW b \in Accounts, ~Below(b, cursor[b])'
        PROVE  \E u \in Threads : Reserved(u)' /\ acct[u] = b /\ cursor[b] = nonce[u] + 1
    <3>1. PICK u \in Threads : Reserved(u) /\ acct[u] = b /\ cursor[b] = nonce[u] + 1
      BY <1>0, <1>b, <2>1, <2>6 DEF PinInv, Below
    <3>2. u # t
      BY <2>1, <2>5, <2>6, <3>1 DEF Below
    <3> QED BY <2>2, <3>1, <3>2 DEF Reserved
  <2>7. PinInv'
    BY <2>1, <2>6 DEF PinInv
  <2> QED BY <2>3, <2>7
<1>6. ASSUME NEW t \in Threads, Refused(t) PROVE Goal
  <2>1. PICK w \in MaybeNonce : Refuse(ep[t], acct[t], nonce[t], w) /\ want' = [want EXCEPT ![t] = w]
    BY <1>6 DEF Refused
  <2>2. /\ pc[t] = "cast" /\ pc' = [pc EXCEPT ![t] = "refused"]
        /\ UNCHANGED <<pool, held, late, cursor, acct, pending, nonce>>
    BY <1>6 DEF Refused, Goto, netVars
  <2>3. w # NoNonce => Below(acct[t], w)
    BY <1>0, <2>1 DEF Refuse, IsUnreserved, IsFirstFree, Below, Taken
  <2>4. /\ \A a \in Accounts : Taken'[a] = Taken[a]
        /\ pc'[t] = "refused" /\ want'[t] = w
        /\ \A u \in Threads \ {t} : pc'[u] = pc[u] /\ want'[u] = want[u]
    BY <1>0, <2>1, <2>2 DEF Taken
  <2>5. ReachInv'
    BY <1>0, <2>2, <2>3, <2>4 DEF ReachInv, Reserved, Below
  <2>6. PinInv'
    BY <1>0, <2>2, <2>4 DEF PinInv, Reserved, Below
  <2> QED BY <2>5, <2>6
<1>7. ASSUME NEW t \in Threads, Broken(t) PROVE Goal
  <2>1. /\ pc[t] = "cast" /\ pc' = [pc EXCEPT ![t] = "failed"]
        /\ want' = [want EXCEPT ![t] = NoNonce]
        /\ UNCHANGED <<cursor, acct, pending, nonce>>
    BY <1>7 DEF Broken, Goto
  <2>2. Below(acct[t], nonce[t])
    BY <1>0, <2>1 DEF ReachInv, Reserved
  <2>3. \A b \in Accounts : \A r \in late'[b] : r \in late[b] \/ (b = acct[t] /\ r[2] = nonce[t])
    <3>1. \/ UNCHANGED late
          \/ late' = [late EXCEPT ![acct[t]] = @ \cup {<<ep[t], nonce[t]>>}]
      BY <1>7 DEF Broken, BrokenCall
    <3>2. \A b \in Accounts :
             late'[b] = late[b] \/ (b = acct[t] /\ late'[b] = late[b] \cup {<<ep[t], nonce[t]>>})
      BY <1>0, <3>1
    <3>3. ASSUME NEW b \in Accounts, NEW r \in late'[b], r \notin late[b]
          PROVE  b = acct[t] /\ r = <<ep[t], nonce[t]>>
      BY <3>2, <3>3
    <3> QED BY <3>3
  <2>4. /\ pc'[t] = "failed" /\ want'[t] = NoNonce
        /\ \A u \in Threads \ {t} : pc'[u] = pc[u] /\ want'[u] = want[u]
    BY <1>0, <2>1
  <2>5. ReachInv'
    BY <1>0, <1>b, <2>1, <2>2, <2>3, <2>4 DEF ReachInv, Reserved
  <2>6. PinInv'
    BY <1>0, <1>b, <2>1, <2>4 DEF PinInv, Reserved
  <2> QED BY <2>5, <2>6
<1>8. ASSUME NEW t \in Threads, Obey(t) PROVE Goal
  <2>1. /\ pc[t] = "refused" /\ pc' = [pc EXCEPT ![t] = "cast"] /\ want[t] # NoNonce
        /\ cursor' = [cursor EXCEPT ![acct[t]] = want[t]] /\ nonce' = [nonce EXCEPT ![t] = want[t]]
        /\ UNCHANGED <<pool, held, late, acct, pending, want>>
    BY <1>8 DEF Obey, Obeys, Goto, ForceNext, netVars
  <2>2. Below(acct[t], want[t])
    BY <1>0, <2>1 DEF ReachInv
  <2>3. /\ \A a \in Accounts : Taken'[a] = Taken[a]
        /\ pc'[t] = "cast" /\ nonce'[t] = want[t] /\ cursor'[acct[t]] = want[t]
        /\ \A u \in Threads \ {t} : pc'[u] = pc[u] /\ nonce'[u] = nonce[u]
        /\ \A a \in Accounts : a # acct[t] => cursor'[a] = cursor[a]
    BY <1>0, <2>1 DEF Taken
  <2>4. ReachInv'
    BY <1>0, <2>1, <2>2, <2>3 DEF ReachInv, Reserved, Below
  <2>5. PinInv'
    BY <1>0, <2>1, <2>2, <2>3 DEF PinInv, Reserved, Below
  <2> QED BY <2>4, <2>5
<1>9. ASSUME NEW t \in Threads, Raise(t) PROVE Goal
  <2>1. /\ pc[t] \in {"refused", "failed"} /\ pc' = [pc EXCEPT ![t] = "idle"]
        /\ cursor' = [cursor EXCEPT ![acct[t]] = Rollback(@, nonce[t])]
        /\ UNCHANGED <<pool, held, late, acct, pending, nonce, want>>
    BY <1>9 DEF Raise, netVars
  <2>2. Below(acct[t], Rollback(cursor[acct[t]], nonce[t]))
    <3>1. CASE cursor[acct[t]] = nonce[t] + 1
      BY <1>0, <2>1, <3>1 DEF ReachInv, Reserved, Rollback
    <3>2. CASE cursor[acct[t]] # nonce[t] + 1
      <4>1. ASSUME NEW u \in Threads, Reserved(u), acct[u] = acct[t] PROVE u = t
        BY <1>0, <2>1, <4>1 DEF LockInv, Inside, Reserved
      <4> QED BY <1>0, <3>2, <4>1 DEF PinInv, Rollback
    <3> QED BY <3>1, <3>2
  <2>3. /\ \A a \in Accounts : Taken'[a] = Taken[a]
        /\ pc'[t] = "idle" /\ cursor'[acct[t]] = Rollback(cursor[acct[t]], nonce[t])
        /\ \A u \in Threads \ {t} : pc'[u] = pc[u]
        /\ \A a \in Accounts : a # acct[t] => cursor'[a] = cursor[a]
    BY <1>0, <2>1 DEF Taken
  <2>4. ReachInv'
    BY <1>0, <2>1, <2>3 DEF ReachInv, Reserved, Below
  <2>5. PinInv'
    BY <1>0, <2>1, <2>2, <2>3 DEF PinInv, Reserved, Below
  <2> QED BY <2>4, <2>5
<1>10. ASSUME NEW a \in Accounts, ResyncSub(a) PROVE Goal
  <2>1. /\ cursor' = [cursor EXCEPT ![a] = NoNonce]
        /\ UNCHANGED <<pool, held, late, pc, acct, pending, nonce, want>>
    BY <1>10 DEF ResyncSub, Resync, netVars, threadVars
  <2>2. /\ \A b \in Accounts : Taken'[b] = Taken[b]
        /\ cursor'[a] = -1 /\ \A b \in Accounts : b # a => cursor'[b] = cursor[b]
    BY <1>0, <2>1 DEF Taken, NoNonce
  <2>3. ReachInv'
    BY <1>0, <2>1, <2>2 DEF ReachInv, Reserved, Below
  <2>4. PinInv'
    BY <1>0, <2>1, <2>2 DEF PinInv, Reserved, Below
  <2> QED BY <2>3, <2>4
<1>11. CASE Network \/ Finished \/ UNCHANGED vars
  <2>1. UNCHANGED <<cursor, pc, acct, pending, nonce, want>>
    BY <1>11 DEF Network, Finished, vars, threadVars
  <2>2. \A a \in Accounts : late'[a] \subseteq late[a]
    BY <1>0, <1>11 DEF Network, NetStep, LateArrival, Forward, Drop, Finished, vars, netVars
  <2>3. ReachInv'
    BY <1>0, <1>b, <2>1, <2>2 DEF ReachInv, Reserved
  <2>4. PinInv'
    BY <1>0, <1>b, <2>1 DEF PinInv, Reserved
  <2> QED BY <2>3, <2>4
<1> QED
  BY <1>1, <1>2, <1>3, <1>4, <1>5, <1>6, <1>7, <1>8, <1>9, <1>10, <1>11 DEF Next, Step

LEMMA MixInit == Init => MixIInv
<1> SUFFICES ASSUME Init PROVE MixIInv
  OBVIOUS
<1>1. TypeOK
  BY TypeInit
<1>2. \A a \in Accounts : Taken[a] = {} /\ cursor[a] = -1 /\ late[a] = {}
  BY DEF Init, NetInit, Taken, NoNonce
<1> QED BY <1>1, <1>2 DEF Init, MixIInv, LockInv, Inside, ReachInv, PinInv, Below, Reserved

LEMMA MixKept == Spec => []MixIInv
<1>1. MixIInv /\ [Next]_vars => MixIInv'
  BY TypeStep, LockStep, MixStep DEF MixIInv
<1> QED BY <1>1, MixInit, PTL DEF Spec

LEMMA LedgerStep ==
    ASSUME MixIInv, [Next]_vars, drops' = 0
    PROVE  [Ledger!Next]_Taken
<1>1. ASSUME NEW a \in Accounts, NEW n \in Nonces, TakesOne(a, n) PROVE Ledger!Next
  BY <1>1 DEF TakesOne, Below, Nonces, Ledger!Next, Ledger!TakeNext
<1> QED BY <1>1, MixTaken

(***************************************************************************)
(* SendSub!LedgerUntilDropped, for any mix of node and front, any threads, *)
(* accounts, transport faults, late arrivals and resyncs: until the front  *)
(* drops something, each step of send_sub occupies the account's next      *)
(* nonce or none (base.py:69-70).                                          *)
(***************************************************************************)
THEOREM LedgerUntilDrop == Spec => LedgerUntilDropped
<1>1. MixIInv /\ [Next]_vars => [drops' = 0 => Ledger!Next \/ UNCHANGED Taken]_vars
  BY LedgerStep
<1> QED BY <1>1, MixKept, PTL DEF Spec, LedgerUntilDropped

(***************************************************************************)
(* LedgerSpec, where the front drops nothing: send_sub implements          *)
(* NonceLedger through any mix of endpoints.                               *)
(***************************************************************************)
THEOREM ImplementsLedger == ASSUME MaxDrops = 0 PROVE Spec => LedgerSpec
<1>1. Init => Ledger!Init
  BY DEF Init, NetInit, Ledger!Init, Taken
<1>2. MixIInv /\ MixIInv' /\ [Next]_vars => [Ledger!Next]_Taken
  <2> SUFFICES ASSUME MixIInv, MixIInv', [Next]_vars PROVE [Ledger!Next]_Taken
    OBVIOUS
  <2>1. drops' = 0
    BY DEF MixIInv, TypeOK, NetTypeOK
  <2> QED BY <2>1, LedgerStep
<1> QED BY <1>1, <1>2, MixKept, PTL DEF Spec, LedgerSpec, Ledger!Spec
=============================================================================
