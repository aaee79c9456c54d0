----------------------------- MODULE BalanceRace -----------------------------
(***************************************************************************)
(* CongestionWorker._race_deposit_vs_spend (eeztest/workers/congestion.py):*)
(* a deposit from L1 and a spend on L2 race on an account nobody else      *)
(* signs for; the movement of its L2 balance over the round decides the    *)
(* verdict.  Credits arrive when they like, so the worker remembers the    *)
(* balance it is still owed and holds the race until that is reached.      *)
(* A receipt is waited for settle_seconds, or until a poll raises; a       *)
(* transaction whose receipt, or whose hash, comes later is given up: the  *)
(* worker does not remember it.                                            *)
(* trouble names what the chain may do: be late, lose, or misbehave.       *)
(* No name is one of WriteRace's, the worker's other race: a module can    *)
(* extend both.                                                            *)
(***************************************************************************)
EXTENDS Integers

CONSTANTS
    Deposit, Spend, Fee, Seed,  \* deposit_wei, spend_wei, the spend's gas, actor_seed_wei
    InitialBalances,            \* L2 balances the actor may start with
    MaxDeposits,                \* bound on deposits, races' and seeds'
    Troubles                    \* sets of what the chain may do, one per behaviour

ASSUME BalanceRaceAssumption ==
    /\ Deposit \in Nat /\ Spend \in Nat \ {0} /\ Fee \in Nat /\ Seed \in Nat
    /\ InitialBalances \subseteq Nat /\ MaxDeposits \in Nat
    /\ Troubles \subseteq SUBSET
                         {"creditLate",   \* a credit may outlast the wait for it
                          "creditStale",  \* ... and the three rounds held for it
                          "receiptLate",  \* a deposit's answer or receipt may come too late
                          "spendLate",    \* a spend's may
                          "creditLost",   \* a mined deposit may never be credited
                          "depositFails", \* a deposit may not be sent, or may revert
                          "readFails",    \* a balance read may raise
                          "spendFails",   \* a spend may not be sent, or may be dropped
                          "double",       \* fault: a deposit is credited twice
                          "free"}         \* fault: a spend is paid out and not charged

Rounds == 1 .. MaxDeposits
NotOwed == 0   \* _credit_target is None

VARIABLES
    trouble,   \* what the chain may do in this behaviour
    balance,   \* the actor's L2 balance
    deposit,   \* per deposit, its stage
    amount,    \* per deposit, what it is worth
    spend,     \* the stage of this round's spend
    unpaid,    \* spends given up in earlier rounds and still to be charged
    place,     \* where the worker is
    sent,      \* deposits sent so far; the last is this round's
    depLeg, spendLeg,  \* where the legs are; in the end their results
    b0,        \* the balance before the race
    owed,      \* _credit_target
    waits,     \* _credit_waits
    outcome,   \* the verdict of the round
    truth      \* the stages of deposit and spend when it was formed

actorVars == <<trouble, balance, deposit, amount, spend, unpaid>>
raceVars == <<place, sent, depLeg, spendLeg, b0, owed, waits, outcome, truth>>
balanceVars == <<actorVars, raceVars>>

DepositStages == {"none", "sent", "mined", "credited", "twice", "lost", "failed"}
SpendStages == {"none", "sent", "charged", "free", "dropped"}
Outcomes == {"none", "double_credit", "spend_not_charged", "deposit_lost", "consistent"}

BalanceTypeOK ==
    /\ trouble \in Troubles
    /\ balance \in Nat /\ b0 \in Nat /\ owed \in Nat
    /\ deposit \in [Rounds -> DepositStages] /\ amount \in [Rounds -> {0, Deposit, Seed}]
    /\ spend \in SpendStages /\ unpaid \in Nat
    /\ place \in {"idle", "owed", "seed", "seedReceipt", "seedCredit", "start", "race", "await"}
    /\ sent \in 0 .. MaxDeposits
    /\ depLeg \in {"gate", "wait", "ok", "no"} /\ spendLeg \in {"gate", "wait", "ok", "no"}
    /\ waits \in 0 .. 2 /\ (owed = NotOwed => waits = 0)
    /\ outcome \in Outcomes
    /\ truth \in [deposit : DepositStages, spend : SpendStages]

BalanceInit ==
    /\ trouble \in Troubles
    /\ balance \in InitialBalances
    /\ deposit = [r \in Rounds |-> "none"] /\ amount = [r \in Rounds |-> 0]
    /\ spend = "none" /\ unpaid = 0
    /\ place = "idle" /\ sent = 0 /\ depLeg = "no" /\ spendLeg = "no"
    /\ b0 = 0 /\ owed = NotOwed /\ waits = 0
    /\ outcome = "none" /\ truth = [deposit |-> "none", spend |-> "none"]

-----------------------------------------------------------------------------
\* The chain.

Advance(r, from, to, gain) ==
    /\ deposit[r] = from
    /\ deposit' = [deposit EXCEPT ![r] = to]
    /\ balance' = balance + gain
    /\ UNCHANGED <<trouble, amount, spend, unpaid, raceVars>>

\* Deposits are mined in the order of the funding key's nonces.
MineDeposit(r) ==
    Advance(r, "sent", "mined", 0) /\ \A q \in 1 .. r - 1 : deposit[q] # "sent"
Credit(r) == Advance(r, "mined", "credited", amount[r])
CreditTwice(r) == "double" \in trouble /\ Advance(r, "credited", "twice", amount[r])
DepositFails(r) == "depositFails" \in trouble /\ Advance(r, "sent", "failed", 0)
LoseCredit(r) == "creditLost" \in trouble /\ Advance(r, "mined", "lost", 0)

\* The actor's spends are executed in the order of its nonces.
SpendBecomes(stage, cost) ==
    /\ spend = "sent" /\ unpaid = 0 /\ balance >= Spend + Fee
    /\ spend' = stage
    /\ balance' = balance - cost
    /\ UNCHANGED <<trouble, deposit, amount, unpaid, raceVars>>

ChargeLate ==
    /\ unpaid > 0 /\ balance >= Spend + Fee
    /\ unpaid' = unpaid - 1
    /\ balance' = balance - (Spend + Fee)
    /\ UNCHANGED <<trouble, deposit, amount, spend, raceVars>>

Charge == SpendBecomes("charged", Spend + Fee)
SpendFree == "free" \in trouble /\ \E cost \in {0, Fee} : SpendBecomes("free", cost)
SpendDropped == "spendFails" \in trouble /\ SpendBecomes("dropped", 0)

ChainSettles ==
    \/ \E r \in Rounds :
         MineDeposit(r) \/ Credit(r) \/ CreditTwice(r) \/ DepositFails(r) \/ LoseCredit(r)
    \/ Charge \/ SpendFree \/ SpendDropped \/ ChargeLate

-----------------------------------------------------------------------------
\* The worker.

Goto(from, to) == place = from /\ place' = to

Poor(b) == b <= Spend + Fee
AfterRead(b) == IF Poor(b) THEN "seed" ELSE "start"

OnL1(stage) == stage \in {"mined", "credited", "twice", "lost"}

\* A wait that must see the end of what it waits for, unless it may be late.
WaitOver(stage) ==
    trouble \intersect {"creditLate", "receiptLate"} # {} \/ stage \notin {"sent", "mined"}

\* The wait for a deposit's receipt ends without it, wherever the deposit is.
GivenUp == "receiptLate" \in trouble

\* The target of the round is reached or the window is over.
AwaitOver == balance >= b0 + Deposit - Spend - Fee \/ WaitOver(deposit[sent])

\* A read raises and the step ends there; the polls of _await_credit go on.
ReadFails ==
    /\ "readFails" \in trouble
    /\ \/ place = "owed" /\ balance >= owed
       \/ place = "seedCredit" /\ balance >= b0 + Seed
       \/ place = "start"
       \/ place = "await" /\ AwaitOver
    /\ place' = "idle"
    /\ UNCHANGED <<actorVars, sent, depLeg, spendLeg, b0, owed, waits, outcome, truth>>

\* The actor's balance is read; a credit still owed is waited for first.
\* A round that finds no L1 proxy, or cannot read, ends having changed nothing.
BeginBalanceRound ==
    /\ place = "idle" /\ sent < MaxDeposits
    /\ b0' = balance
    /\ place' = IF owed # NotOwed /\ balance < owed THEN "owed" ELSE AfterRead(balance)
    /\ owed' = (IF balance < owed THEN owed ELSE NotOwed)
    /\ waits' = (IF balance < owed THEN waits ELSE 0)
    /\ outcome' = "none"
    /\ UNCHANGED <<actorVars, sent, depLeg, spendLeg, truth>>

OwedArrives ==
    /\ Goto("owed", AfterRead(balance)) /\ balance >= owed
    /\ b0' = balance
    /\ owed' = NotOwed /\ waits' = 0
    /\ UNCHANGED <<actorVars, sent, depLeg, spendLeg, outcome, truth>>

\* slip: the rounds held are not counted
HoldsForEver ==
    /\ Goto("owed", "idle")
    /\ UNCHANGED <<actorVars, sent, depLeg, spendLeg, b0, owed, waits, outcome, truth>>

\* The window is over: hold the race, for three rounds at most.
Hold ==
    /\ Goto("owed", "idle")
    /\ waits < 2 \/ "creditStale" \in trouble \/ \A r \in Rounds : deposit[r] # "mined"
    /\ waits' = (IF waits + 1 >= 3 THEN 0 ELSE waits + 1)
    /\ owed' = (IF waits + 1 >= 3 THEN NotOwed ELSE owed)
    /\ UNCHANGED <<actorVars, sent, depLeg, spendLeg, b0, outcome, truth>>

\* A deposit is sent.  Without an answer it was not, or is given up at once.
Broadcast(value, answered) == \E stage \in {"sent", "failed"} :
    /\ IF answered THEN stage = "sent"
       ELSE (IF stage = "sent" THEN "receiptLate" ELSE "depositFails") \in trouble
    /\ sent' = sent + 1
    /\ deposit' = [deposit EXCEPT ![sent + 1] = stage]
    /\ amount' = [amount EXCEPT ![sent + 1] = value]
    /\ UNCHANGED <<trouble, balance, spend, unpaid>>

\* _seed_actor.
SendSeed == \E answered \in BOOLEAN :
    /\ Goto("seed", IF answered THEN "seedReceipt" ELSE "idle") /\ Broadcast(Seed, answered)
    /\ UNCHANGED <<depLeg, spendLeg, b0, owed, waits, outcome, truth>>

\* A seed without a good receipt is forgotten, the one on its way included.
SeedReceipt ==
    /\ \/ Goto("seedReceipt", "seedCredit") /\ OnL1(deposit[sent])
       \/ /\ Goto("seedReceipt", "idle")
          /\ deposit[sent] = "failed" \/ GivenUp
    /\ UNCHANGED <<actorVars, sent, depLeg, spendLeg, b0, owed, waits, outcome, truth>>

SeedArrives ==
    /\ Goto("seedCredit", IF Poor(balance) \/ sent = MaxDeposits THEN "idle" ELSE "start")
    /\ balance >= b0 + Seed
    /\ b0' = balance
    /\ UNCHANGED <<actorVars, sent, depLeg, spendLeg, owed, waits, outcome, truth>>

\* slip: a seed that is late is forgotten
ForgetSeed ==
    /\ Goto("seedCredit", "idle") /\ WaitOver(deposit[sent])
    /\ UNCHANGED <<actorVars, sent, depLeg, spendLeg, b0, owed, waits, outcome, truth>>

SeedLate ==
    /\ Goto("seedCredit", "idle") /\ WaitOver(deposit[sent])
    /\ owed' = b0 + Seed
    /\ UNCHANGED <<actorVars, sent, depLeg, spendLeg, b0, waits, outcome, truth>>

StartRace ==
    /\ Goto("start", "race")
    /\ depLeg' = "gate" /\ spendLeg' = "gate"
    /\ spend' = "none"
    /\ unpaid' = unpaid + (IF spend = "sent" THEN 1 ELSE 0)
    /\ UNCHANGED <<trouble, balance, deposit, amount, sent, b0, owed, waits, outcome, truth>>

Race(next) ==
    /\ place = "race" /\ next
    /\ UNCHANGED <<place, b0, owed, waits, outcome, truth>>

LegDeposit == \E answered \in BOOLEAN :
    /\ Race(depLeg = "gate" /\ Broadcast(Deposit, answered))
    /\ depLeg' = (IF answered THEN "wait" ELSE "no")
    /\ UNCHANGED spendLeg

DepositReceipt ==
    /\ Race(depLeg = "wait")
    /\ \/ OnL1(deposit[sent]) /\ depLeg' = "ok"
       \/ (deposit[sent] = "failed" \/ GivenUp) /\ depLeg' = "no"
    /\ UNCHANGED <<actorVars, sent, spendLeg>>

LegSpend ==
    /\ Race(spendLeg = "gate")
    /\ \/ spendLeg' = "wait" /\ spend' = "sent"
       \/ "spendFails" \in trouble /\ spendLeg' = "no" /\ spend' = "dropped"
       \/ "spendLate" \in trouble /\ spendLeg' = "no" /\ spend' = "sent"
    /\ UNCHANGED <<trouble, balance, deposit, amount, unpaid, sent, depLeg>>

SpendReceipt ==
    /\ Race(spendLeg = "wait")
    /\ \/ spend \in {"charged", "free"} /\ spendLeg' = "ok"
       \/ spend = "dropped" /\ spendLeg' = "no"
       \/ "spendLate" \in trouble /\ spendLeg' = "no"
    /\ UNCHANGED <<actorVars, sent, depLeg>>

LegsSettled ==
    /\ Goto("race", "await")
    /\ depLeg \in {"ok", "no"} /\ spendLeg \in {"ok", "no"}
    /\ UNCHANGED <<actorVars, sent, depLeg, spendLeg, b0, owed, waits, outcome, truth>>

\* The fee is in the spend's receipt; without one it counts as 0.
Charged == IF spendLeg = "ok" THEN Fee ELSE 0

\* slip: no test for a spend that cost nothing
OnlyDoubles(delta) ==
    IF delta > 2 * Deposit THEN "double_credit" ELSE
    IF depLeg = "ok" /\ delta <= -Spend THEN "deposit_lost" ELSE "consistent"

\* slip: the spend's own gas makes a loss look smaller
LossNeedsFee(delta) ==
    IF delta > Deposit THEN "double_credit" ELSE
    IF spendLeg = "ok" /\ delta > Deposit - Spend - Charged THEN "spend_not_charged" ELSE
    IF depLeg = "ok" /\ delta < -Spend - Charged THEN "deposit_lost" ELSE "consistent"

Judgement(delta) ==
    IF delta > Deposit THEN "double_credit" ELSE
    IF spendLeg = "ok" /\ delta > Deposit - Spend - Charged THEN "spend_not_charged" ELSE
    IF depLeg = "ok" /\ delta <= -Spend THEN "deposit_lost" ELSE "consistent"

\* The wait is over; the balance is read again.
Measure ==
    LET v == Judgement(balance - b0) IN
    /\ Goto("await", "idle")
    /\ AwaitOver
    /\ outcome' = v
    /\ owed' = (IF v = "deposit_lost" THEN balance + Deposit ELSE owed)
    /\ truth' = [deposit |-> deposit[sent], spend |-> spend]
    /\ UNCHANGED <<actorVars, sent, depLeg, spendLeg, b0, waits>>

-----------------------------------------------------------------------------
Worker ==
    \/ BeginBalanceRound \/ OwedArrives \/ Hold
    \/ SendSeed \/ SeedReceipt \/ SeedArrives \/ SeedLate
    \/ StartRace \/ LegDeposit \/ DepositReceipt \/ LegSpend \/ SpendReceipt
    \/ LegsSettled \/ Measure

RacesOver == place = "idle" /\ sent = MaxDeposits /\ UNCHANGED balanceVars

BalanceNext == ChainSettles \/ Worker \/ ReadFails \/ RacesOver

BalanceSpec == BalanceInit /\ [][BalanceNext]_balanceVars

\* The worker's thread runs; the chain settles what it has accepted.
FairBalanceSpec == BalanceSpec /\ WF_balanceVars(Worker) /\ WF_balanceVars(ChainSettles)

-----------------------------------------------------------------------------
CreditedTwice == \E r \in Rounds : deposit[r] = "twice"

(***************************************************************************)
(* "While one is outstanding we hold the balance race instead of           *)
(* attributing someone else's timing to a double credit"                   *)
(* (congestion.py:89-92), and the movement that is "impossible under any   *)
(* interleaving" (539): a chain that credits each deposit at most once and *)
(* charges each spend is not accused, however late the credits are.        *)
(***************************************************************************)
NobodyAccused ==
    /\ outcome = "double_credit" => CreditedTwice
    /\ outcome = "spend_not_charged" => CreditedTwice \/ truth.spend = "free"

\* What makes the worker forget a debt is left out: a deposit or a seed given
\* up without its receipt, a credit that outlasts the three rounds held for it,
\* a read that raises between a deposit and its verdict, and a spend that is
\* not charged in its own round, whose money hides the missing deposit's.
DebtRemembered ==
    trouble \intersect {"receiptLate", "creditStale", "readFails",
                        "spendFails", "spendLate", "free"} = {}

(***************************************************************************)
(* The same where the code delivers it (congestion.py:445-490, 538-597):   *)
(* with DebtRemembered, late and lost credits, failing deposits and        *)
(* deposits credited twice make no round accuse another round's credit.    *)
(***************************************************************************)
NoFalseAlarmIfRemembered == DebtRemembered => NobodyAccused

(***************************************************************************)
(* "Deposit mined on L1 but never credited while the account was busy"     *)
(* (congestion.py:40, 578-580): while debts are remembered and nothing is  *)
(* credited twice, the finding is made exactly when this round's deposit   *)
(* is on L1 and not on L2.                                                 *)
(***************************************************************************)
LossExact ==
    DebtRemembered /\ "double" \notin trouble
      /\ truth.spend = "charged" /\ depLeg = "ok" /\ place = "idle" /\ outcome # "none" =>
        (outcome = "deposit_lost" <=> truth.deposit \in {"mined", "lost"})

(***************************************************************************)
(* "Deposit credited twice / racing spend never charged (high)"            *)
(* (congestion.py:39): a deposit found credited twice, or a spend that is  *)
(* paid out and not charged beside a deposit that is credited, ends in one *)
(* of the two findings, unless a spend's receipt was not waited out: then  *)
(* its gas is taken for 0 and its charge falls into any later round.       *)
(***************************************************************************)
AnomalyReported ==
    "spendLate" \notin trouble /\ outcome # "none"
      /\ (truth.deposit = "twice" \/ (truth.spend = "free" /\ truth.deposit = "credited"))
        => outcome \in {"double_credit", "spend_not_charged"}

(***************************************************************************)
(* The hold ends (congestion.py:480-490): a credit that never comes, or    *)
(* comes when it likes, does not stop the races for good.                  *)
(***************************************************************************)
HoldEnds == owed # NotOwed ~> (owed = NotOwed \/ sent = MaxDeposits)
=============================================================================
