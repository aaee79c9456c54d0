-------------------------------- MODULE Funder --------------------------------
(***************************************************************************)
(* The funder worker (eeztest/workers/funder.py) and the two operations of *)
(* Eez it uses, ensure_l1_proxy and deposit (eeztest/eez.py).  In cycles,  *)
(* for ever, it deposits on L1 for every sub-account that is not funded    *)
(* yet, waits for the L1 receipt and then for the L2 credit, each within a *)
(* window, and publishes the funded accounts.  A deposit that outlives its *)
(* window stays on its way and may still be credited later.  The other     *)
(* workers spend from the published accounts, which stay published.        *)
(* Nonces are ClientSend's subject; here a send only succeeds or fails.    *)
(***************************************************************************)
EXTENDS Integers, Sequences

CONSTANTS
    Accts,            \* the sub-accounts
    NoAcct,           \* no account is being funded
    Amount,           \* fund_amount_wei, in units
    InitialBalances,  \* L2 balances the accounts may have at the start
    Leftovers,        \* what a spend may leave of a published account's balance
    InitialProxies,   \* accounts whose L1 proxy exists at the start
    MaxDeposits,      \* what the funding key can pay for, deposits per account
    MaxErrors,        \* bound on RPC errors
    MaxDrops          \* bound on transactions the composer drops or reverts

ASSUME FunderAssumption ==
    /\ NoAcct \notin Accts
    /\ Amount \in Nat \ {0} /\ InitialBalances \subseteq 0 .. Amount
    /\ Leftovers \subseteq Nat /\ InitialProxies \subseteq Accts
    /\ MaxDeposits \in Nat /\ MaxErrors \in Nat /\ MaxDrops \in Nat

VARIABLES
    stop,       \* the stop event
    pc, acct,   \* where the funder is, and the account it is funding
    pre,        \* the account's L2 balance before its deposit
    pending,    \* accounts left in this pass
    funded,     \* FunderWorker.funded, published as l2_accounts
    confirmed,  \* deposits <<a, k>> counted as credited
    findings,   \* deposits a finding was recorded about
    errors,     \* RPC errors so far
    proxy,      \* accounts whose L1 proxy exists
    creating,   \* accounts with a proxy creation on its way
    stage,      \* per account, the stage each of its deposits has reached
    balance,    \* L2 balances
    dropped     \* transactions dropped or reverted so far

funderVars == <<pc, acct, pre, pending, funded, confirmed, findings, errors>>
chainVars == <<proxy, creating, stage, balance, dropped>>
vars == <<stop, funderVars, chainVars>>

\* "dropped": never mined; "lost": mined on L1 and never credited on L2.
Stages == {"sent", "mined", "reverted", "credited", "dropped", "lost"}
Deposits == Accts \X (1 .. MaxDeposits)

TypeOK ==
    /\ stop \in BOOLEAN
    /\ pc \in {"cycle", "pick", "read", "ensure", "proxy", "deposit", "receipt", "credit",
               "sleep", "done"}
    /\ acct \in Accts \cup {NoAcct}
    /\ pre \in Nat
    /\ pending \subseteq Accts /\ funded \subseteq Accts
    /\ confirmed \subseteq Deposits
    /\ findings \subseteq Deposits
    /\ errors \in 0 .. MaxErrors
    /\ proxy \subseteq Accts /\ creating \subseteq Accts
    /\ \A a \in Accts : stage[a] \in Seq(Stages) /\ Len(stage[a]) <= MaxDeposits
    /\ balance \in [Accts -> Nat]
    /\ dropped \in 0 .. MaxDrops

Init ==
    /\ stop = FALSE
    /\ pc = "cycle" /\ acct = NoAcct /\ pre = 0
    /\ pending = {} /\ funded = {} /\ confirmed = {} /\ findings = {} /\ errors = 0
    /\ proxy = InitialProxies /\ creating = {}
    /\ stage = [a \in Accts |-> <<>>]
    /\ balance \in [Accts -> InitialBalances]
    /\ dropped = 0

-----------------------------------------------------------------------------
\* L1, the composer and L2.

ChainStep == UNCHANGED <<stop, funderVars>>

CreateMined(a) ==
    /\ a \in creating
    /\ creating' = creating \ {a}
    /\ proxy' = proxy \cup {a}
    /\ ChainStep /\ UNCHANGED <<stage, balance, dropped>>

CreateDropped(a) ==
    /\ a \in creating /\ dropped < MaxDrops
    /\ creating' = creating \ {a}
    /\ dropped' = dropped + 1
    /\ ChainStep /\ UNCHANGED <<proxy, stage, balance>>

Advance(a, k, from, to) ==
    /\ stage[a][k] = from
    /\ stage' = [stage EXCEPT ![a][k] = to]
    /\ ChainStep /\ UNCHANGED <<proxy, creating>>

Mined(a, k) == Advance(a, k, "sent", "mined") /\ UNCHANGED <<balance, dropped>>

Credited(a, k) ==
    /\ Advance(a, k, "mined", "credited")
    /\ balance' = [balance EXCEPT ![a] = @ + Amount]
    /\ UNCHANGED dropped

\* Never mined, reverted on L1, or mined on L1 and never credited.
DepositFails(a, k) ==
    /\ \/ Advance(a, k, "sent", "dropped")
       \/ Advance(a, k, "sent", "reverted")
       \/ Advance(a, k, "mined", "lost")
    /\ dropped < MaxDrops /\ dropped' = dropped + 1
    /\ UNCHANGED balance

\* Another worker (ddos, fuzzer, contract_caller) spends from a published account.
Spend(a) ==
    /\ a \in funded
    /\ \E left \in Leftovers :
          left < balance[a] /\ balance' = [balance EXCEPT ![a] = left]
    /\ ChainStep /\ UNCHANGED <<proxy, creating, stage, dropped>>

-----------------------------------------------------------------------------
\* The funder.

Goto(from, to) == pc = from /\ pc' = to

\* The deposit the funder waits for: it alone sends, so the account's last one.
Current == <<acct, Len(stage[acct])>>
CurrentStage == stage[acct][Len(stage[acct])]

Sufficient(bal) == bal >= Amount \div 2

\* slip: an unchanged balance passes for a credit
NotLess(bal) == bal >= pre

Arrived(bal) == bal > pre

\* An exception on the way: counted, and the pass goes on.
RpcFails ==
    /\ pc \in {"read", "ensure", "proxy", "deposit", "receipt", "credit"}
    /\ errors < MaxErrors /\ errors' = errors + 1
    /\ pc' = "pick"
    /\ UNCHANGED <<stop, acct, pre, pending, funded, confirmed, findings, chainVars>>

\* slip: only the first pass funds anybody
OnePass ==
    /\ Goto("cycle", IF stop THEN "done" ELSE "pick")
    /\ pending' = IF stage = [a \in Accts |-> <<>>] THEN Accts \ funded ELSE {}
    /\ UNCHANGED <<stop, acct, pre, funded, confirmed, findings, errors, chainVars>>

\* `while not self.stopping()`: the accounts not funded yet, once more.
BeginCycle ==
    /\ Goto("cycle", IF stop THEN "done" ELSE "pick")
    /\ pending' = IF stop THEN pending ELSE Accts \ funded
    /\ UNCHANGED <<stop, acct, pre, funded, confirmed, findings, errors, chainVars>>

PickAccount == \E a \in pending :
    /\ ~stop
    /\ Goto("pick", "read")
    /\ acct' = a
    /\ pending' = pending \ {a}
    /\ UNCHANGED <<stop, pre, funded, confirmed, findings, errors, chainVars>>

\* The pass is over, or broken off; _maintain publishes the pool again.
EndPass ==
    /\ stop \/ pending = {}
    /\ Goto("pick", "sleep")
    /\ acct' = NoAcct
    /\ pending' = {}
    /\ UNCHANGED <<stop, pre, funded, confirmed, findings, errors, chainVars>>

\* slip: the sleep begins again
SleepsOn == pc = "sleep" /\ UNCHANGED vars

\* The sleep ends, early on the stop event.
Wake ==
    /\ Goto("sleep", "cycle")
    /\ UNCHANGED <<stop, acct, pre, pending, funded, confirmed, findings, errors, chainVars>>

\* _fund_one reads the balance: already funded, or `pre` of the deposit.
ReadBalance ==
    /\ pc = "read"
    /\ IF Sufficient(balance[acct])
       THEN pc' = "pick" /\ funded' = funded \cup {acct} /\ UNCHANGED pre
       ELSE pc' = "ensure" /\ pre' = balance[acct] /\ UNCHANGED funded
    /\ UNCHANGED <<stop, acct, pending, confirmed, findings, errors, chainVars>>

ProxyExists ==
    /\ acct \in proxy
    /\ Goto("ensure", "deposit")
    /\ UNCHANGED <<stop, acct, pre, pending, funded, confirmed, findings, errors, chainVars>>

\* create_l1_proxy; its answer may be lost.
CreateProxy ==
    /\ pc = "ensure" /\ acct \notin proxy
    /\ creating' = creating \cup {acct}
    /\ \/ pc' = "proxy" /\ UNCHANGED errors
       \/ pc' = "pick" /\ errors < MaxErrors /\ errors' = errors + 1
    /\ UNCHANGED <<stop, acct, pre, pending, funded, confirmed, findings,
                   proxy, stage, balance, dropped>>

\* The receipt of the creation is there, or its 90 s are over, or the stop
\* event is set; only the code found afterwards counts.
AwaitProxy ==
    /\ Goto("proxy", IF acct \in proxy THEN "deposit" ELSE "pick")
    /\ UNCHANGED <<stop, acct, pre, pending, funded, confirmed, findings, errors, chainVars>>

\* Eez.deposit; its answer may be lost.
SendDeposit ==
    /\ pc = "deposit" /\ Len(stage[acct]) < MaxDeposits
    /\ stage' = [stage EXCEPT ![acct] = Append(@, "sent")]
    /\ \/ pc' = "receipt" /\ UNCHANGED errors
       \/ pc' = "pick" /\ errors < MaxErrors /\ errors' = errors + 1
    /\ UNCHANGED <<stop, acct, pre, pending, funded, confirmed, findings,
                   proxy, creating, balance, dropped>>

\* The funding key is empty: the send is refused.
CannotPay ==
    /\ Goto("deposit", "pick")
    /\ Len(stage[acct]) = MaxDeposits
    /\ UNCHANGED <<stop, acct, pre, pending, funded, confirmed, findings, errors, chainVars>>

\* slip: a finding only about deposits that failed
OnlyFailures ==
    findings' = IF CurrentStage \in {"sent", "mined"} THEN findings ELSE findings \cup {Current}

Found == findings' = findings \cup {Current}

ReceiptOk ==
    /\ Goto("receipt", "credit")
    /\ CurrentStage \in {"mined", "credited", "lost"}
    /\ UNCHANGED <<stop, acct, pre, pending, funded, confirmed, findings, errors, chainVars>>

ReceiptReverted ==
    /\ Goto("receipt", "pick")
    /\ CurrentStage = "reverted"
    /\ Found
    /\ UNCHANGED <<stop, acct, pre, pending, funded, confirmed, errors, chainVars>>

\* wait_receipt returns None: 120 s have passed, or the stop event is set.
NoReceipt ==
    /\ Goto("receipt", "pick")
    /\ Found
    /\ UNCHANGED <<stop, acct, pre, pending, funded, confirmed, errors, chainVars>>

CreditSeen ==
    /\ Goto("credit", "pick")
    /\ Arrived(balance[acct])
    /\ funded' = funded \cup {acct}
    /\ confirmed' = confirmed \cup {Current}
    /\ UNCHANGED <<stop, acct, pre, pending, findings, errors, chainVars>>

\* _wait_credit returns False: 120 s have passed, or the stop event is set.
NoCredit ==
    /\ Goto("credit", "pick")
    /\ Found
    /\ UNCHANGED <<stop, acct, pre, pending, funded, confirmed, errors, chainVars>>

-----------------------------------------------------------------------------
Stop == ~stop /\ stop' = TRUE /\ UNCHANGED <<funderVars, chainVars>>

Chain(a) ==
    \/ CreateMined(a)
    \/ \E k \in DOMAIN stage[a] : Mined(a, k) \/ Credited(a, k)

ChainFault(a) ==
    \/ CreateDropped(a)
    \/ \E k \in DOMAIN stage[a] : DepositFails(a, k)

Work ==
    \/ RpcFails \/ BeginCycle \/ PickAccount \/ EndPass \/ Wake \/ ReadBalance
    \/ ProxyExists \/ CreateProxy \/ AwaitProxy \/ SendDeposit \/ CannotPay
    \/ ReceiptOk \/ ReceiptReverted \/ NoReceipt \/ CreditSeen \/ NoCredit

Finished == pc = "done" /\ UNCHANGED vars

Next ==
    \/ Stop \/ Work \/ Finished
    \/ \E a \in Accts : Chain(a) \/ ChainFault(a) \/ Spend(a)

Spec == Init /\ [][Next]_vars

\* The funder's thread runs and its waits end; what the composer has taken
\* and does not drop it eventually mines and credits, however late.
FairSpec == Spec /\ WF_vars(Work) /\ \A a \in Accts : WF_vars(Chain(a))

-----------------------------------------------------------------------------
(***************************************************************************)
(* "Funded accounts are published" (funder.py:7-8, 102, 167-179): an       *)
(* account joins the pool only with sufficient money on L2 at that moment. *)
(* What tells the funder so is a balance above the one read before the     *)
(* deposit, and that deposit may be lost while the credit of an earlier    *)
(* one comes late.  An account spent dry afterwards stays in the pool.     *)
(***************************************************************************)
PublishedFunded == [][\A a \in funded' \ funded : balance[a] >= Amount \div 2]_vars

(***************************************************************************)
(* "Ensure the L1 proxy exists first (avoids the under-gassed-create       *)
(* stall)" (funder.py:107): no deposit is sent to a proxy without code,    *)
(* though creations fail, time out and are broken off by the stop event.   *)
(***************************************************************************)
ProxyFirst == \A a \in Accts : stage[a] # <<>> => a \in proxy

(***************************************************************************)
(* "Funding is retried indefinitely" (funder.py:58-61): whatever is lost   *)
(* or late, as long as one deposit of each account gets through, every     *)
(* account is published, unless the run is stopped.                        *)
(***************************************************************************)
AllFunded == <>(stop \/ funded = Accts)

(***************************************************************************)
(* No deposit is forgotten (funder.py:118-165): each one the funder is no  *)
(* longer waiting for has been counted as credited or is the subject of a  *)
(* finding, unless an RPC error took it out of sight.                      *)
(***************************************************************************)
Accounted == errors = 0 =>
    \A a \in Accts : \A k \in DOMAIN stage[a] :
        \/ <<a, k>> \in confirmed \cup findings
        \/ pc \in {"receipt", "credit"} /\ <<a, k>> = Current

\* The stop event ends the worker from whichever wait it is in.
StopEnds == stop ~> pc = "done"

(***************************************************************************)
(* "A deposit whose L1 tx mines but never credits L2 within the window     *)
(* (the silent-stall / lost-deposit failure mode)" is a finding            *)
(* (funder.py:10-12): no deposit counted as credited is a lost one.        *)
(***************************************************************************)
LossReported == \A d \in confirmed : stage[d[1]][d[2]] # "lost"
=============================================================================
