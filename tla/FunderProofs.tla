----------------------------- MODULE FunderProofs -----------------------------
(***************************************************************************)
(* What Funder publishes and accounts for, for any accounts, amounts and   *)
(* numbers of deposits, errors and drops.  A credit is seen as money that  *)
(* was not there before; that it makes the account a funded one rests on   *)
(* MoneyInv: while a deposit is awaited, the balance is what was read      *)
(* before it, or a whole deposit has come, whichever deposit that was.     *)
(* Nobody else touches that balance: only published accounts are spent     *)
(* from, and the account in work is not published (UnpublishedInv).        *)
(***************************************************************************)
EXTENDS Funder, TLAPS, SequenceTheorems

Waiting == {"receipt", "credit"}
Funding == {"ensure", "proxy", "deposit"} \cup Waiting

\* TypeOK, with the shapes it leaves open.
ShapeInv ==
    /\ TypeOK
    /\ stage \in [Accts -> Seq(Stages)]
    /\ pc \in {"read"} \cup Funding => acct \in Accts
    /\ pc \in Waiting => stage[acct] # <<>>

\* While an account is being funded its balance is what was read, or enough.
MoneyInv == pc \in Funding => balance[acct] = pre \/ balance[acct] >= Amount

\* The account in work is neither published nor still to be visited.
UnpublishedInv ==
    /\ pending \cap funded = {}
    /\ pc \in {"read"} \cup Funding => acct \notin funded /\ acct \notin pending

PublishedIInv == ShapeInv /\ UnpublishedInv /\ MoneyInv

-----------------------------------------------------------------------------
LEMMA ChainShape ==
  ASSUME ShapeInv, NEW a \in Accts, NEW k \in DOMAIN stage[a], NEW from, NEW to \in Stages,
         Advance(a, k, from, to)
  PROVE  /\ stage' \in [Accts -> Seq(Stages)]
         /\ \A b \in Accts : Len(stage'[b]) = Len(stage[b]) /\ DOMAIN stage'[b] = DOMAIN stage[b]
         /\ UNCHANGED <<stop, funderVars, proxy, creating>>
<1>1. stage' = [stage EXCEPT ![a] = [stage[a] EXCEPT ![k] = to]]
  BY DEF Advance
<1>2. stage[a] \in Seq(Stages) /\ k \in 1 .. Len(stage[a])
  BY DEF ShapeInv
<1>3. /\ [stage[a] EXCEPT ![k] = to] \in Seq(Stages)
      /\ Len([stage[a] EXCEPT ![k] = to]) = Len(stage[a])
  BY <1>2, ExceptSeq
<1> QED
  BY <1>1, <1>2, <1>3 DEF ShapeInv, Advance, ChainStep

\* The chains bring money only, and only Amount at a time.
LEMMA ChainMoney ==
  ASSUME ShapeInv, NEW a \in Accts, Chain(a) \/ ChainFault(a)
  PROVE  /\ stage' \in [Accts -> Seq(Stages)] /\ UNCHANGED <<stop, funderVars>>
         /\ \A b \in Accts : Len(stage'[b]) = Len(stage[b]) /\ DOMAIN stage'[b] = DOMAIN stage[b]
         /\ proxy' \subseteq Accts /\ creating' \subseteq Accts /\ dropped' \in 0 .. MaxDrops
         /\ balance' \in [Accts -> Nat]
         /\ \A b \in Accts : balance'[b] = balance[b] \/ balance'[b] = balance[b] + Amount
<1> USE FunderAssumption DEF ShapeInv, TypeOK
<1>1. CASE CreateMined(a) \/ CreateDropped(a)
  BY <1>1 DEF CreateMined, CreateDropped, ChainStep
<1>2. ASSUME NEW k \in DOMAIN stage[a], Mined(a, k) \/ Credited(a, k) \/ DepositFails(a, k)
      PROVE  /\ \E from, to \in Stages : Advance(a, k, from, to)
             /\ dropped' \in 0 .. MaxDrops
             /\ balance' = balance \/ balance' = [balance EXCEPT ![a] = @ + Amount]
  BY <1>2 DEF Mined, Credited, DepositFails, Stages
<1>3. ASSUME NEW k \in DOMAIN stage[a], NEW from \in Stages, NEW to \in Stages,
             Advance(a, k, from, to), dropped' \in 0 .. MaxDrops,
             balance' = balance \/ balance' = [balance EXCEPT ![a] = @ + Amount]
      PROVE  /\ balance' \in [Accts -> Nat]
             /\ \A b \in Accts : balance'[b] = balance[b] \/ balance'[b] = balance[b] + Amount
  <2>1. balance \in [Accts -> Nat] /\ Amount \in Nat
    OBVIOUS
  <2>2. CASE balance' = balance
    BY <2>1, <2>2
  <2>3. CASE balance' = [balance EXCEPT ![a] = @ + Amount]
    BY <2>1, <2>3
  <2> QED
    BY <1>3, <2>2, <2>3
<1> QED
  BY <1>1, <1>2, <1>3, ChainShape DEF Chain, ChainFault

\* Whoever spends from a published account changes its balance and no other.
LEMMA Spending ==
  ASSUME ShapeInv, NEW a \in Accts, Spend(a)
  PROVE  /\ UNCHANGED <<stop, funderVars, proxy, creating, stage, dropped>>
         /\ a \in funded /\ balance' \in [Accts -> Nat]
         /\ \A b \in Accts : b # a => balance'[b] = balance[b]
<1>1. PICK left \in Leftovers : balance' = [balance EXCEPT ![a] = left]
  BY DEF Spend
<1>2. left \in Nat /\ balance \in [Accts -> Nat]
  BY FunderAssumption DEF ShapeInv, TypeOK
<1> QED
  BY <1>1, <1>2 DEF Spend, ChainStep

\* Of the funder's actions only SendDeposit changes the chains' stages.
LEMMA WorkQuiet ==
  ASSUME Work \/ Stop \/ Finished
  PROVE  /\ balance' = balance
         /\ SendDeposit \/ stage' = stage
BY DEF Work, Stop, Finished, RpcFails, BeginCycle, PickAccount, EndPass, Wake, ReadBalance,
       ProxyExists, CreateProxy, AwaitProxy, SendDeposit, CannotPay, ReceiptOk, ReceiptReverted,
       NoReceipt, CreditSeen, NoCredit, chainVars, vars

LEMMA CurrentDeposit ==
  ASSUME ShapeInv, pc \in Waiting
  PROVE  Current \in Deposits /\ Len(stage[acct]) \in DOMAIN stage[acct]
<1>1. acct \in Accts /\ stage[acct] \in Seq(Stages) /\ stage[acct] # <<>>
  BY DEF ShapeInv, Funding
<1>2. Len(stage[acct]) \in 1 .. Len(stage[acct]) /\ DOMAIN stage[acct] = 1 .. Len(stage[acct])
  BY <1>1, LenProperties, EmptySeq
<1>3. Len(stage[acct]) \in 1 .. MaxDeposits
  BY <1>1, <1>2, FunderAssumption DEF ShapeInv, TypeOK
<1> QED
  BY <1>1, <1>2, <1>3 DEF Current, Deposits

LEMMA Sending ==
  ASSUME ShapeInv, SendDeposit
  PROVE  /\ acct \in Accts /\ stage' \in [Accts -> Seq(Stages)] /\ stage'[acct] # <<>>
         /\ \A b \in Accts : /\ Len(stage'[b]) <= MaxDeposits
                             /\ b # acct => stage'[b] = stage[b]
         /\ DOMAIN stage'[acct] = DOMAIN stage[acct] \cup {Len(stage'[acct])}
<1>1. /\ acct \in Accts /\ stage[acct] \in Seq(Stages) /\ Len(stage[acct]) < MaxDeposits
      /\ stage' = [stage EXCEPT ![acct] = Append(stage[acct], "sent")]
  BY DEF SendDeposit, ShapeInv, Funding
<1>2. "sent" \in Stages
  BY DEF Stages
<1>3. /\ Append(stage[acct], "sent") \in Seq(Stages) /\ Append(stage[acct], "sent") # <<>>
      /\ Len(Append(stage[acct], "sent")) = Len(stage[acct]) + 1
  BY <1>1, <1>2, AppendProperties
<1>4. /\ DOMAIN stage[acct] = 1 .. Len(stage[acct]) /\ Len(stage[acct]) \in Nat
      /\ DOMAIN Append(stage[acct], "sent") = 1 .. Len(stage[acct]) + 1
  BY <1>1, <1>3, LenProperties
<1>5. stage'[acct] = Append(stage[acct], "sent") /\ stage' \in [Accts -> Seq(Stages)]
  BY <1>1, <1>3 DEF ShapeInv
<1>6. Len(stage'[acct]) = Len(stage[acct]) + 1 /\ Len(stage[acct]) + 1 <= MaxDeposits
  BY <1>1, <1>3, <1>4, <1>5, FunderAssumption
<1>7. \A b \in Accts : b # acct => stage'[b] = stage[b]
  BY <1>1 DEF ShapeInv
<1>8. \A b \in Accts : Len(stage'[b]) <= MaxDeposits
  BY <1>6, <1>7 DEF ShapeInv, TypeOK
<1>9. 1 .. Len(stage[acct]) + 1 = 1 .. Len(stage[acct]) \cup {Len(stage[acct]) + 1}
  BY <1>4
<1> QED
  BY <1>1, <1>3, <1>4, <1>5, <1>6, <1>7, <1>8, <1>9

LEMMA ShapeInit == Init => ShapeInv
<1> SUFFICES ASSUME Init PROVE ShapeInv
  OBVIOUS
<1>1. stage \in [Accts -> Seq(Stages)] /\ \A a \in Accts : stage[a] = <<>> /\ Len(stage[a]) = 0
  BY EmptySeq DEF Init
<1>2. balance \in [Accts -> InitialBalances] /\ InitialBalances \subseteq Nat
  BY FunderAssumption DEF Init
<1>3. balance \in [Accts -> Nat]
  BY <1>2
<1>4. 0 \in 0 .. MaxErrors /\ 0 \in 0 .. MaxDrops /\ 0 <= MaxDeposits /\ InitialProxies \subseteq Accts
  BY FunderAssumption
<1>5. TypeOK
  BY <1>1, <1>3, <1>4 DEF Init, TypeOK
<1> QED
  BY <1>1, <1>5 DEF Init, ShapeInv, Funding, Waiting

LEMMA ShapeStep == ShapeInv /\ [Next]_vars => ShapeInv'
<1> SUFFICES ASSUME ShapeInv, [Next]_vars PROVE ShapeInv'
  OBVIOUS
<1>1. ASSUME NEW a \in Accts, Chain(a) \/ ChainFault(a) PROVE ShapeInv'
  <2>1. \A b \in Accts : stage[b] = <<>> <=> stage'[b] = <<>>
    BY <1>1, ChainMoney, EmptySeq DEF ShapeInv
  <2> QED
    <3>1. /\ stage' \in [Accts -> Seq(Stages)] /\ UNCHANGED <<stop, funderVars>>
          /\ \A b \in Accts : Len(stage'[b]) = Len(stage[b])
          /\ proxy' \subseteq Accts /\ creating' \subseteq Accts /\ dropped' \in 0 .. MaxDrops
          /\ balance' \in [Accts -> Nat]
      BY <1>1, ChainMoney
    <3>2. \A b \in Accts : stage'[b] \in Seq(Stages) /\ Len(stage'[b]) <= MaxDeposits
      BY <3>1 DEF ShapeInv, TypeOK
    <3>3. TypeOK'
      BY <3>1, <3>2 DEF ShapeInv, TypeOK, funderVars
    <3> QED
      BY <2>1, <3>1, <3>3 DEF ShapeInv, funderVars, Funding
<1>7. ASSUME NEW a \in Accts, Spend(a) PROVE ShapeInv'
  BY <1>7, Spending DEF ShapeInv, TypeOK, funderVars
<1>2. CASE SendDeposit
  BY <1>2, Sending, FunderAssumption
  DEF SendDeposit, ShapeInv, TypeOK, Funding, Waiting
<1> USE FunderAssumption DEF ShapeInv, TypeOK, Funding, Waiting, Goto, chainVars
<1>3. CASE RpcFails \/ BeginCycle \/ PickAccount \/ EndPass \/ Wake
  <2>1. CASE RpcFails
    BY <2>1 DEF RpcFails
  <2>2. CASE BeginCycle
    BY <2>2 DEF BeginCycle
  <2>3. CASE PickAccount
    BY <2>3 DEF PickAccount
  <2>4. CASE EndPass
    BY <2>4 DEF EndPass
  <2>5. CASE Wake
    BY <2>5 DEF Wake
  <2> QED
    BY <1>3, <2>1, <2>2, <2>3, <2>4, <2>5
<1>4. CASE ReadBalance \/ ProxyExists \/ CreateProxy \/ AwaitProxy \/ CannotPay
  <2>1. CASE ReadBalance
    BY <2>1 DEF ReadBalance
  <2>2. CASE ProxyExists
    BY <2>2 DEF ProxyExists
  <2>3. CASE CreateProxy
    BY <2>3 DEF CreateProxy
  <2>4. CASE AwaitProxy
    BY <2>4 DEF AwaitProxy
  <2>5. CASE CannotPay
    BY <2>5 DEF CannotPay
  <2> QED
    BY <1>4, <2>1, <2>2, <2>3, <2>4, <2>5
<1>5. CASE ReceiptOk \/ ReceiptReverted \/ NoReceipt \/ CreditSeen \/ NoCredit
  <2>1. Current \in Deposits
    BY <1>5, CurrentDeposit DEF ReceiptOk, ReceiptReverted, NoReceipt, CreditSeen, NoCredit
  <2> QED
    BY <1>5, <2>1 DEF ReceiptOk, ReceiptReverted, NoReceipt, CreditSeen, NoCredit, Found
<1>6. CASE Stop \/ Finished \/ UNCHANGED vars
  BY <1>6 DEF Stop, Finished, vars, funderVars
<1> QED
  BY <1>1, <1>2, <1>3, <1>4, <1>5, <1>6, <1>7 DEF Next, Work

(***************************************************************************)
(* Every variable keeps its type; an account never has more deposits than  *)
(* the key can pay for.                                                    *)
(***************************************************************************)
THEOREM TypeCorrect == Spec => []TypeOK
<1>1. ShapeInv => TypeOK
  BY DEF ShapeInv
<1> QED
  BY <1>1, ShapeInit, ShapeStep, PTL DEF Spec

-----------------------------------------------------------------------------
LEMMA HalfAmount == Amount \div 2 \in Nat /\ Amount \div 2 <= Amount
BY FunderAssumption

LEMMA UnpublishedStep == ShapeInv /\ UnpublishedInv /\ [Next]_vars => UnpublishedInv'
<1> SUFFICES ASSUME ShapeInv, UnpublishedInv, [Next]_vars PROVE UnpublishedInv'
  OBVIOUS
<1>1. ASSUME NEW a \in Accts, Chain(a) \/ ChainFault(a) \/ Spend(a) PROVE UnpublishedInv'
  BY <1>1, ChainMoney, Spending DEF funderVars, UnpublishedInv
<1>2. CASE BeginCycle \/ PickAccount \/ EndPass
  BY <1>2 DEF BeginCycle, PickAccount, EndPass, Goto, UnpublishedInv, Funding, Waiting
<1>3. CASE ReadBalance \/ CreditSeen
  BY <1>3 DEF ReadBalance, CreditSeen, Goto, UnpublishedInv, Funding, Waiting
<1>4. CASE RpcFails \/ Wake \/ ProxyExists \/ CreateProxy \/ AwaitProxy \/ SendDeposit
           \/ CannotPay \/ ReceiptOk \/ ReceiptReverted \/ NoReceipt \/ NoCredit
  <2>1. UNCHANGED <<acct, pending, funded>>
    BY <1>4 DEF RpcFails, Wake, ProxyExists, CreateProxy, AwaitProxy, SendDeposit, CannotPay,
         ReceiptOk, ReceiptReverted, NoReceipt, NoCredit
  <2>2. pc' \in {"read"} \cup Funding => pc \in {"read"} \cup Funding
    BY <1>4 DEF RpcFails, Wake, ProxyExists, CreateProxy, AwaitProxy, SendDeposit, CannotPay,
         ReceiptOk, ReceiptReverted, NoReceipt, NoCredit, Goto, Funding, Waiting
  <2> QED
    BY <2>1, <2>2 DEF UnpublishedInv
<1>5. CASE Stop \/ Finished \/ UNCHANGED vars
  BY <1>5 DEF Stop, Finished, vars, funderVars, UnpublishedInv
<1> QED
  BY <1>1, <1>2, <1>3, <1>4, <1>5 DEF Next, Work

LEMMA MoneyStep == PublishedIInv /\ [Next]_vars => MoneyInv'
<1> SUFFICES ASSUME ShapeInv, UnpublishedInv, MoneyInv, [Next]_vars, pc' \in Funding
             PROVE  balance'[acct'] = pre' \/ balance'[acct'] >= Amount
  BY DEF MoneyInv, PublishedIInv
<1> USE DEF MoneyInv
<1>1. ASSUME NEW a \in Accts, Chain(a) \/ ChainFault(a)
      PROVE  balance'[acct'] = pre' \/ balance'[acct'] >= Amount
  <2>1. pc' = pc /\ acct' = acct /\ pre' = pre /\ acct \in Accts
    BY <1>1, ChainMoney DEF funderVars, ShapeInv
  <2>2. balance'[acct] = balance[acct] \/ balance'[acct] = balance[acct] + Amount
    BY <1>1, <2>1, ChainMoney
  <2>3. balance[acct] \in Nat /\ Amount \in Nat
    BY <2>1, FunderAssumption DEF ShapeInv, TypeOK
  <2>4. balance[acct] + Amount >= Amount
    BY <2>3
  <2> QED
    BY <2>1, <2>2, <2>4
<1>2. ASSUME NEW a \in Accts, Spend(a)
      PROVE  balance'[acct'] = pre' \/ balance'[acct'] >= Amount
  <2>1. pc' = pc /\ acct' = acct /\ pre' = pre /\ acct \in Accts
    BY <1>2, Spending DEF funderVars, ShapeInv
  <2>2. acct # a
    BY <1>2, <2>1, Spending DEF UnpublishedInv
  <2> QED
    BY <1>2, <2>1, <2>2, Spending
<1>3. CASE Work \/ Stop \/ Finished \/ UNCHANGED vars
  <2>1. balance' = balance
    BY <1>3, WorkQuiet DEF vars, chainVars
  <2>2. \/ pc \in Funding /\ acct' = acct /\ pre' = pre
        \/ pre' = balance[acct] /\ acct' = acct
    BY <1>3 DEF Work, Stop, Finished, RpcFails, BeginCycle, PickAccount, EndPass, Wake, ReadBalance,
         ProxyExists, CreateProxy, AwaitProxy, SendDeposit, CannotPay, ReceiptOk, ReceiptReverted,
         NoReceipt, CreditSeen, NoCredit, Goto, Funding, Waiting, vars, funderVars
  <2> QED
    BY <2>1, <2>2
<1> QED
  BY <1>1, <1>2, <1>3 DEF Next

LEMMA PublishedStep ==
  ASSUME PublishedIInv, [Next]_vars, NEW b \in funded' \ funded
  PROVE  balance[b] >= Amount \div 2
<1>1. CASE ReadBalance
  BY <1>1 DEF ReadBalance, Sufficient
<1>2. CASE CreditSeen
  <2>1. acct \in Accts /\ balance[acct] > pre /\ b = acct
    BY <1>2 DEF CreditSeen, Arrived, Goto, PublishedIInv, ShapeInv, Funding, Waiting
  <2>2. balance[acct] \in Nat /\ pre \in Nat
    BY <2>1 DEF PublishedIInv, ShapeInv, TypeOK
  <2>3. balance[acct] >= Amount
    BY <1>2, <2>1, <2>2 DEF PublishedIInv, MoneyInv, CreditSeen, Goto, Funding, Waiting
  <2> QED
    BY <2>1, <2>2, <2>3, HalfAmount, FunderAssumption
<1>3. CASE \E a \in Accts : Chain(a) \/ ChainFault(a) \/ Spend(a)
  BY <1>3, ChainMoney, Spending DEF funderVars, PublishedIInv
<1>4. CASE (Work /\ ~ReadBalance /\ ~CreditSeen) \/ Stop \/ Finished \/ UNCHANGED vars
  BY <1>4 DEF Work, Stop, Finished, RpcFails, BeginCycle, PickAccount, EndPass, Wake, ReadBalance,
       ProxyExists, CreateProxy, AwaitProxy, SendDeposit, CannotPay, ReceiptOk, ReceiptReverted,
       NoReceipt, CreditSeen, NoCredit, vars, funderVars
<1> QED
  BY <1>1, <1>2, <1>3, <1>4 DEF Next

(***************************************************************************)
(* Funder!PublishedFunded: an account is published only with sufficient    *)
(* money on L2 at that moment, late credits, lost deposits, RPC errors and *)
(* the spending of the other workers or not (funder.py:7-8, 102, 167-179). *)
(***************************************************************************)
THEOREM PublishedCorrect == Spec => PublishedFunded
<1>1. Init => PublishedIInv
  BY ShapeInit DEF Init, PublishedIInv, UnpublishedInv, MoneyInv, Funding, Waiting
<1>2. PublishedIInv /\ [Next]_vars => PublishedIInv'
  BY ShapeStep, UnpublishedStep, MoneyStep DEF PublishedIInv
<1>3. PublishedIInv /\ [Next]_vars => [\A a \in funded' \ funded : balance[a] >= Amount \div 2]_vars
  BY PublishedStep
<1> QED
  BY <1>1, <1>2, <1>3, PTL DEF Spec, PublishedFunded

-----------------------------------------------------------------------------
\* The deposits somebody has taken note of only grow, and the one that is no
\* longer waited for joins them.
LEMMA AccountedStep == ShapeInv /\ Accounted /\ [Next]_vars => Accounted'
<1> SUFFICES ASSUME ShapeInv, Accounted, [Next]_vars, errors' = 0,
                    NEW b \in Accts, NEW k \in DOMAIN stage'[b]
             PROVE  \/ <<b, k>> \in confirmed' \cup findings'
                    \/ pc' \in Waiting /\ <<b, k>> = Current'
  BY DEF Accounted, Waiting
<1> DEFINE Goal == \/ <<b, k>> \in confirmed' \cup findings'
                   \/ pc' \in Waiting /\ <<b, k>> = Current'
<1>1. errors = 0 /\ k \in DOMAIN stage[b]
        => \/ <<b, k>> \in confirmed \cup findings
           \/ pc \in Waiting /\ <<b, k>> = <<acct, Len(stage[acct])>>
  BY DEF Accounted, Waiting, Current
<1>2. ASSUME NEW a \in Accts, Chain(a) \/ ChainFault(a) PROVE Goal
  <2>1. /\ UNCHANGED <<pc, acct, confirmed, findings, errors>> /\ DOMAIN stage'[b] = DOMAIN stage[b]
        /\ \A c \in Accts : Len(stage'[c]) = Len(stage[c])
    BY <1>2, ChainMoney DEF funderVars
  <2>2. pc \in Waiting => acct \in Accts
    BY DEF ShapeInv, Funding
  <2> QED
    BY <1>1, <2>1, <2>2 DEF Current
<1>9. ASSUME NEW a \in Accts, Spend(a) PROVE Goal
  BY <1>1, <1>9, Spending DEF funderVars, Current
<1>3. CASE SendDeposit
  <2>1. /\ pc = "deposit" /\ UNCHANGED <<acct, confirmed, findings>>
        /\ pc' = "receipt" /\ errors' = errors
    BY <1>3, FunderAssumption DEF SendDeposit, ShapeInv, TypeOK
  <2>2. CASE b # acct \/ k \in DOMAIN stage[acct]
    BY <1>1, <1>3, <2>1, <2>2, Sending DEF Waiting
  <2>3. CASE b = acct /\ k \notin DOMAIN stage[acct]
    BY <1>3, <2>1, <2>3, Sending DEF Current, Waiting
  <2> QED
    BY <2>2, <2>3
<1>4. CASE ReceiptReverted \/ NoReceipt \/ NoCredit \/ CreditSeen
  <2>1. /\ UNCHANGED <<stage, errors>> /\ confirmed \subseteq confirmed' /\ findings \subseteq findings'
        /\ <<acct, Len(stage[acct])>> \in confirmed' \cup findings'
    BY <1>4 DEF ReceiptReverted, NoReceipt, NoCredit, CreditSeen, Found, chainVars, Current
  <2> QED
    BY <1>1, <2>1
<1>5. CASE ReceiptOk
  BY <1>1, <1>5 DEF ReceiptOk, Goto, chainVars, Current, Waiting
<1>6. CASE RpcFails
  BY <1>6, FunderAssumption DEF RpcFails, ShapeInv, TypeOK
<1>7. CASE BeginCycle \/ PickAccount \/ EndPass \/ Wake \/ ReadBalance \/ ProxyExists
           \/ CreateProxy \/ AwaitProxy \/ CannotPay
  <2>1. stage' = stage /\ confirmed' = confirmed /\ findings' = findings /\ pc \notin Waiting
    BY <1>7 DEF BeginCycle, PickAccount, EndPass, Wake, ReadBalance, ProxyExists, CreateProxy,
         AwaitProxy, CannotPay, Goto, Waiting, chainVars
  <2>2. errors' = errors \/ errors' = errors + 1
    BY <1>7 DEF BeginCycle, PickAccount, EndPass, Wake, ReadBalance, ProxyExists, CreateProxy,
         AwaitProxy, CannotPay
  <2>3. errors = 0
    BY <2>2, FunderAssumption DEF ShapeInv, TypeOK
  <2> QED
    BY <1>1, <2>1, <2>3
<1>8. CASE Stop \/ Finished \/ UNCHANGED vars
  BY <1>1, <1>8 DEF Stop, Finished, vars, funderVars, chainVars, Current
<1> QED
  BY <1>2, <1>3, <1>4, <1>5, <1>6, <1>7, <1>8, <1>9 DEF Next, Work

(***************************************************************************)
(* Funder!Accounted: each deposit that is no longer waited for is counted  *)
(* as credited or reported, whatever the stop event breaks off             *)
(* (funder.py:118-165).                                                    *)
(***************************************************************************)
THEOREM AccountedCorrect == Spec => []Accounted
<1>1. Init => Accounted
  BY DEF Init, Accounted
<1> QED
  BY <1>1, ShapeInit, ShapeStep, AccountedStep, PTL DEF Spec
=============================================================================
