# TLA+ models of EEZtest

EEZtest is a stress tester for the EEZ cross-chain stack: worker threads send
transactions to an L2 ("rollup0"), to L1 and through a cross-chain *front*, and
compare what comes back with what should have happened. It holds no funds for
anybody; what has to be right in it is

* the **shared nonces**: all workers send from one primary key and one pool of
  sub-accounts, in many threads, through endpoints that queue, refuse, time out
  and silently drop;
* the **verdicts**: a finding must be raised when the chain misbehaved and not
  when the harness was merely unlucky with timing;
* the **life cycle**: workers are retried, stopped and reported on without ever
  blocking the run.

The models follow that division. Paths below are relative to the repository root
(`src/` holds the repository); line numbers are those of the modelled commit.

## 1. Inventory

| Component | State it keeps | Operations | Interacts with |
|---|---|---|---|
| Nonce allocator (`eeztest/nonce.py`) | next nonce and a send lock per (chain, address) | `allocate`, `rollback`, `resync`, `force_next`, `reserve_with`, `parse_expected_nonce` | called by the send path of every worker |
| Sub-account send path (`workers/base.py`) | the allocator, `nonce_resyncs` | `send_sub`, `resync_sub` | node and front over `rpc.py` |
| Primary-key client (`rpc.py`, `contracts.py`) | `_local_nonce`, `_send_lock`, `_nonce_lock`, `nonce_resyncs` | `next_nonce`, `rollback_nonce`, `send`, `wait_receipt`, `deploy` | every worker; node, front |
| Worker loop (`workers/base.py`) | thread, status, stop event | `start`, `run`, `_setup_with_retry`, `step`, `sleep`, `join` | registry, runner |
| Runner and supervisor (`runner.py`, `multi.py`, `cli.py`) | workers, stop event | `start`, `run`, `shutdown` | workers, registry, report |
| Registry and report (`state.py`, `report.py`) | per worker: status, counters, gauges, events, findings; shutdown note | `finding`, `incr`, `snapshot`, `all_findings`, `write_report` | every thread |
| EEZ identity (`eez.py`) | none of its own | `ensure_l1_proxy`, `deposit`, `withdraw`, `call_l1_from_l2` | client, L1, L2 |
| Funder (`workers/funder.py`) | the funded pool | `_fund_one`, `_maintain`, `_wait_credit` | publishes the pool to the others |
| Congestion (`workers/congestion.py`) | value streams, credit still owed, rounds held | `_race_write`, `_race_deposit_vs_spend`, `_seed_actor` | front and direct RPC at once |
| DDoS (`workers/ddos.py`) | token bucket, in-flight slots, spend, solvent senders, throttle | `_flood`, `_take_tokens`, `_fire`, `_charge`, `_refresh_balance`, `_revive_depleted`, `_liveness`, `_backpressure` | executor threads; sends through `send_sub` |
| Fuzzer (`workers/fuzzer.py`) | pending list, head watch | `step`, `_poll_pending`, `_liveness` | sends through `send_sub` |
| Proxy builder (`workers/proxy_builder.py`) | the probes of a matrix, counts per endpoint, the iteration | `_variant_explicit`, `_variant_implicit`, the mempool matrix, `_clear_nonce_gap` | primary-key client, two thread pools; every L1 endpoint |
| Contract caller (`workers/contract_caller.py`) | deployed fixtures, senders seen, the book of verdicts | staged deployment, combinations a, b and c, `_settle_identity` | primary-key client; L1 and L2 |
| State-root race (`workers/stateroot_race.py`) | the phase of a round, the age and span of a stall, the flood's threads | prepare, flood, sample, release, watch, classify | front, L1 |
| Monitor and vitals (`monitor.py`, `vitals.py`) | scan cursor, batches, backlog | `poll`, incremental block scan | L1, L2 |
| Solidity probes (`contracts/*.sol`) | one or two words each | store, forward, deposit | called by the workers |
| Dashboard, configuration, verification, notes | none that changes | views, parsing, upload | - |

What is hard here, and where it is dealt with: interleavings of threads over the
shared nonces; requests that are lost, answered too late or executed after the
caller gave up; an endpoint that silently drops what it accepted and so holds up every
later nonce; credits and effects that arrive in a later round than the one that measures
them; reads that fail half way through a verdict; a recovery that comes when nobody caused
it; the stop event cutting a wait short; workers outliving the shutdown deadline while the
report is being written. `PROJECT.json` lists every such hazard at its line with the
properties that cover it.

What makes the components correct:

* *send path*: no gap in the nonces of an account, no nonce used twice, broadcasts
  arrive in order, one correction by the front suffices, the resync counter means
  what its comment says, every call ends and frees its lock;
* *life cycle*: the report is written whatever the workers do and reflects
  reality; a set-up that fails is retried until it holds; the stop event reaches all;
* *funder*: an account is published only when it has the money, every deposit is credited,
  awaited or reported, every account is funded in the end;
* *congestion*: a correct chain is never accused, each anomaly the file header lists
  is reported, the hold for a late credit ends;
* *DDoS*: the rate holds, the budget is overrun by no more than what is in flight, no
  slot leaks, senders are retired and revived as their money goes and comes;
* *contract caller*: no finding blames the chain for what it did not do, a pass means
  that the call was mined, applied and answered, what the chain did wrong is found, and
  the suite runs although deployments fail for a while;
* *proxy builder*: a verdict says what its endpoint does and nothing else, the control
  path is not accused of the gap the other variant left (where that can be cleared),
  every trial is counted once, iterations end;
* *state-root race*: the span reported is that of one stall, a round without recovery
  saw none (unless the samples fail for too long), a flood that died confirms nothing, no
  thread of a flood outlives it.

## 2. Modules

| Module | Models | State and actions |
|---|---|---|
| `NonceManager` | `nonce.py` | operators on one key's cursor: `Allocated`, `Allocate`, `Rollback`, `Resync`, `ForceNext`; each runs under the manager's lock and so is atomic |
| `Endpoints` | node and front (external; from the way `nonce.py`, `rpc.py` and `base.py` use and describe them) | `pool`, `held`, `late`: nonces the node has, the front has accepted, and requests on the wire after their caller's timeout; `Accept`, `Refuse`, `BrokenCall`, `LateArrival`, `Forward`, `Drop` |
| `NonceLedger` | the abstract specification of both send paths | an account's transactions occupy nonces 0, 1, 2, ... |
| `SendSub` | `send_sub`, `resync_sub` | per thread a `pc`; one action per RPC or critical section |
| `ClientSend` | `next_nonce`, `rollback_nonce`, `send`, `deploy`, `_clear_nonce_gap` | the two locks of a client and the threads in them |
| `Lifecycle` | `Runner`, `Supervisor`/`serve`, `Worker`, registry and report | main thread, worker threads, stop event, clocks |
| `Funder` | `funder.py`, `ensure_l1_proxy`, `deposit` | the worker's pass over its accounts; the chain's stages of every deposit; the other workers' spends from published accounts |
| `WriteRace` | `_race_write` and its legs, watcher and verdicts | the contested slot and the writes in flight |
| `BalanceRace` | `_race_deposit_vs_spend`, `_seed_actor` and its hold | the actor's balance and the stage of each deposit and spend, those whose receipt was given up included |
| `Ddos` | the flood of `ddos.py`: dispatcher, executor threads, token bucket, spend guard, rotation | per actor a place; one action per RPC or critical section; `level` is an observer that measures the rate |
| `ContractCaller` | `contract_caller.py`; `Counter.increment` and `Logger.execute` as far as the worker uses them | the worker's place in a combination and a hop; the entries on both chains and the effects still on their way; `truth` observes what happened to the combination's transactions |
| `ProxyBuilder` | both variants and the matrix of `proxy_builder.py` | the master key's transactions in nonce order, a trial per endpoint, the worker's place; a dropped transaction holds up those behind it, and the front names its nonce as the next |
| `StateRoot` | a round of `stateroot_race.py` from preparation to verdict, and the threads of its flood | the ages of the newest batches, what the loop measures of them, the threads still alive; the true stall, what landed after the release and how long the samples failed are observers |
| `SendSubProofs`, `ClientSendProofs`, `FunderProofs`, `DdosProofs`, `StateRootProofs`, `ProxyBuilderProofs` | theorems about the module each is named for (section 6) | |
| `WorkerProofs`, `CongestionProofs` | theorems about `Lifecycle` and `ContractCaller`, and about `WriteRace` and `BalanceRace` | |
| `MC*` | instances for TLC: symmetry sets, configurations, otherwise nothing | |

`SendSub` and `ClientSend` both extend `Endpoints`, which extends `NonceManager`;
both are shown to implement `NonceLedger` by `INSTANCE NonceLedger WITH taken <- Taken`.
`NonceLedger` leaves out what nobody promises (which thread, which endpoint) and
keeps what both `nonce.py:1-33` and `rpc.py:186-202` promise.

The granularity is one action per RPC, per lock operation or per critical section,
because that is where other threads can get in between. What a thread does alone
between two such points is part of the action before it.

A definition whose comment begins with *slip:* is a plausible mistake in the
operator it stands before (a dropped guard, a missing rollback, an off-by-one). No
specification uses one. Each property was tried against the slips and each
property catches at least one (`PROJECT.json`, `mutants`), which shows that
the property says something about the code.

## 3. Runs

`tlc -config X.cfg MCModule`. One run per component asks everything of it at once, so its
bounds are chosen to fire every fault the module knows; a *violation* run shows one
disagreement. Bounds are constants of the modules and named in their configurations.

| Run | Instance | What it shows |
|---|---|---|
| send_sub_plain | 2 threads, 3 sends each, 1 account, plain node, 2 transport faults of any kind, 2 resyncs | no nonce gap; every call returns or raises |
| send_sub_front | the same threads, node and front mixed, a lost request, a drop, a resync | arrivals are in order and no nonce is used twice as long as nothing is dropped and no cursor is reset; each step takes the account's next nonce or none until the first drop; the nonce the front names is still free when the retry uses it |
| client_send | 2 threads, 2 calls each of `send`, `deploy` or `_clear_nonce_gap`, 2 clients of which one deploys, one transport fault of any kind | where nobody deploys: no gap, the ledger; everywhere: no call blocks for ever |
| lifecycle | 3 workers, one disabled, one that may hang for ever, one failing set-up, one finding each | the report shows the final state of every worker it does not name as still active, and is written whatever they do; set-ups recover; the stop event ends every worker that does not hang |
| funder | 2 accounts, one with a proxy, up to 2 deposits each, an RPC error, a drop; published accounts are spent dry | an account has the money when it is published; every deposit is credited, awaited or reported; all accounts get funded; the stop event ends the worker |
| write_race | 3 rounds; writes in any order, dropped, reverted, failing to be sent, the first read failing; each round may roll a write back or let an inner call outlive its transaction | the chain is accused only if it misbehaved, and a write that vanishes is reported |
| balance_race | up to 3 deposits, seeds included; six behaviours of the chain (`Troubles`), two of them with receipts that come too late | no false alarm and exact losses while debts are remembered; doubled credits, and free spends beside a credited deposit, are found whatever else fails; the hold ends |
| ddos | 2 senders, 1 or 2 executor threads, three configurations (`MCLoads`): half tokens and throttling; a budget; senders that run dry, are refunded and cannot always be read | the rate holds over any stretch of time, the overrun of the budget is bounded, no slot leaks, the rotation follows the money, the flood ends |
| contract_caller | 2 rounds of the three combinations, up to 2 deploy stages, 1 effect on its way when another call is given up; nine behaviours of the chains (`Troubles`) | no false alarm, no empty pass, each fault found, the suite runs |
| proxy_builder | 2 endpoints that each create, keep, revert, drop or refuse; 2 iterations; five behaviours (`Troubles`) | the matrix names what each endpoint does; the control path is not accused for the gap of the other variant where the plain RPC knows the lost deposit and takes the replacement; trials are counted once; iterations end |
| proxy_builder_gap | the same, where the plain RPC need not know what the front has dropped | the finding of section 4 |
| state_root | 2 rounds of 5 samples and 4 of cooldown, threshold 2, ages up to 6 of which 5 are within the lookback, any number of failing samples; three behaviours (`Troubles`) | confirmations are real, and so are spans and missing recoveries unless the samples fail for longer than the threshold; the flood's threads end |

Why the bounds are enough. *Send path*: two threads race for a nonce, three sends each
let one overtake the other's failure and its recovery, and the faults reach each error
path; the proofs remove the bounds for what matters most. *Life cycle*: the order
of three workers and the one in the middle being disabled is what the join and the
report could get wrong. *Funder*: a second deposit is the first retry. *Write race*: a
value of round 1 can be met by round 3. *Balance race*: a seed, the race that
incurs a debt and the race that meets it; the amounts (deposit 5, spend 1, fee 1,
seed 4) are the smallest that keep the order the configuration has, deposit > spend +
fee and seed > spend + fee. *DDoS*: four tasks may be in flight with two threads,
which is enough for an estimate to be debited behind a read, and for a budget of
one transfer to be overrun by three. *Contract caller*: a second round meets the effects,
senders and baselines the first one left; two deploy stages are a failure and its repair;
one late effect is enough to be taken for another's. *Proxy builder*: two endpoints
are what a divergence needs, and the second iteration meets what the first left in the
master key's nonces; within an iteration every transaction that variant, control or
funding can hold up follows another. *State-root race*: five samples hold a stall, an
interruption and another stall above the threshold; two rounds let a thread outlive
its own; ages beyond the lookback are all alike.

What may happen is split over several sets (`Troubles`) because the combinations of
everything with everything say no more and do not end in reasonable time; every fault
meets the faults it can be confused with in at least one set.

Configurations that are not runs reproduce what the limits of section 4 say; TLC finds
each property violated:

| Configuration | Property | Shows |
|---|---|---|
| `SendSubCollision.cfg` | `NoCollision` | limit 1 |
| `ClientSendGap.cfg` | `NoPermanentGap` | limit 2 |
| `LifecycleServe.cfg` | `ReportReflectsReality` | limit 3 |
| `BalanceRaceLate.cfg` | `NobodyAccused` | limit 4 |
| `FunderLateCredit.cfg` | `LossReported` | limit 5 |
| `ContractCallerBlind.cfg` | `NoFalseAlarm` | limit 6 |
| `StateRootRelease.cfg` | `RecoveryFollowsRelease` | limit 7 |
| `BalanceRaceTimeout.cfg` | `NobodyAccused` | limit 8 |
| `StateRootOutage.cfg` | `SpanOfOneStall` | limit 9 |
| `ProxyBuilderRefused.cfg` | `DivergenceReal` | limit 10 |

`DebtRemembered` in `BalanceRace` names when the hold works: the receipts of deposits and
seeds are not given up, spends go through and are charged in their own round, reads succeed,
and a credit comes within the rounds held for it. Limits 4 and 8 show what happens
otherwise.

## 4. Findings and limits

One disagreement between the code and what it says of itself is a run (`proxy_builder_gap`;
`PROJECT.json` quotes the lines). When the deposit of V2 is not mined, `_clear_nonce_gap`
looks its nonce up with `eth_getTransactionByHash` on the plain RPC and returns in silence if
that does not know the hash (`proxy_builder.py:820-822`). This is the normal case for a
deposit the front has dropped (`.issues/B-bug-front-drop.md:43-57`, "front=absent
plain=absent"). Its nonce then stays empty, the client's own cursor is past it, and V1 of the
next iteration, which sends by the plain RPC (`eez.py:132`), waits behind the gap and is
reported as `explicit_create_never_mined`, although a failing V1 "means the whole instance is
sick" (lines 16-18) and V2 "does clear" (742). Where the plain RPC knows the deposit and takes
the replacement, the control path is not accused (`ControlCleared`, run proxy_builder and
`ControlCorrect`, section 6).

Limits met while modelling. Those with a number have a configuration that shows them
(section 3):

1. `send_sub` pins the shared cursor to the nonce the retry is about to use
   (`base.py:142`) instead of the one after it: the next send through the plain RPC
   reuses it. For the same reason one silent drop makes `nonce_resyncs` rise at every
   later send through the front.
2. `deploy` (`contracts.py:137`) reserves a nonce that `send` will not roll back: a failed
   deployment leaves a permanent gap. It also reserves outside `_send_lock`, so a
   send through the front may be told to take its nonce.
3. `serve` prints the workers still alive but does not record them in the report.
4. A deposit that is late while the spend fails is not remembered as owed; its credit
   becomes a double credit in the next round.
5. The late credit of an earlier deposit hides the loss of a later one. The funder also
   takes a wait cut short by the stop event for an elapsed window (`funder.py:128`).
6. If every read of a window fails and the one after it succeeds, the contract caller
   takes the effect for missing (`contract_caller.py:565`) and reports a call that was
   applied late or never looked at.
7. A round of the state-root race is confirmed when the age is low after the release,
   whenever it became low (`stateroot_race.py:315`): a stall that ended before the
   release confirms as well.
8. A deposit or a seed whose L1 receipt is not there within `settle_seconds`, or whose poll
   raises, is not remembered as owed (`congestion.py:607-613`, `663-667`): if it is mined
   after all, its credit is a double credit of the next round, or hides that round's loss.
9. A sample that fails leaves the span of a stall open (`stateroot_race.py:228`), and nothing
   bounds how many fail: an outage longer than `block_threshold_seconds` may join two
   stalls into one `block_span`. In the same way reads that fail until the cooldown is over
   (407-412) end in "did not recover on release" although a batch has landed;
   `NoRecoveryReal` speaks of what some sample has shown.
10. `_broadcast_probe` (`proxy_builder.py:617`) scores every `RpcError` as
    `rejected_by_rpc`: a probe refused for its nonce, fee or funds counts as the endpoint's
    behaviour, and the matrix reports a divergence between endpoints that treat the deposit
    alike (both drop what they accept, say, and one refuses its probe). The comments at 317-321
    and 707-709 want such refusals kept apart. Without them a divergence is reported exactly
    when there is one (`DivergenceCorrect`, section 6).

Further, by a constant or by stating the stronger property:

* A published account stays published. The flood, the fuzzer and the contract caller spend
  from the pool, and the funder never looks at an account again that is in `funded`
  (`funder.py:58-80`, `175-179`): the pool comes to hold accounts without money, which the flood
  retires by itself (`Ddos`) and nobody refills. `PublishedFunded` is about the moment an
  account is published; as an invariant of the published accounts it fails.
* A spend whose receipt was given up is charged in whichever later round, and its gas counts
  as 0 in its own: a doubled deposit beside it may pass as consistent (drop `spendLate` from
  `AnomalyReported`).
* A `wait_receipt` that raises inside `_deploy_one` (`contract_caller.py:212`) is caught by
  nothing before the crash guard of the thread: the suite never runs. `SuiteRuns` lets the worker
  die of it (`pc = "dead"`).
* A write that settles a round late makes a lost write of a correct execution
  (`Late = TRUE` in `WriteRace`), and so does a failed first read when nothing
  landed (drop `pre # NoRead` from `NoFalseAlarm`).
* A free spend goes unnoticed when the deposit beside it is not credited
  (`AnomalyReported` without `truth.deposit = "credited"`), and makes the next round's
  late credit look doubled.
* `max_spend_wei` "caps the total attempted spend" (`ddos.py:18`) only up to the tasks in
  flight: it is compared at submission and charged at execution (`SpendBounded` with `spent
  <= load.budget` fails).
* A probe whose wait is cut short by the stop event is scored as silently dropped
  (`proxy_builder.py:629`; drop `~stop` from `Patient`), and where the replacement of a
  stuck transaction fails, the next iteration's control path waits behind it as in the finding
  above (drop `clearFails` from `ControlCleared`).
* In the contract caller an effect of an earlier call that arrives late is taken for
  this call's (drop `clean` from `PassMeansDelivered`): entries are told apart by
  their number alone.
* `_refresh_balance` reads the latest balance, which does not count what the mempool
  holds: on a chain that accepts and does not mine, a sender refused for want of funds
  stays in the rotation, and the refusals go on until a block comes.

## 5. Fairness

Safety needs none. Liveness assumes only what the code arranges:

* `SendSub!FairSpec`, `ClientSend!FairSpec`: weak fairness of the steps of a thread that
  is inside a call. `rpc_call` has a timeout (`rpc.py:37`), so every RPC returns or
  raises; nothing is assumed of the network, and a thread need not call again. Acquiring a
  lock needs only weak fairness because the bounded workload leaves it free at last;
  unbounded contention would need fair locks, which Python does not promise.
* `Lifecycle!FairSpec`: the main thread, the shutdown deadline and each worker's own steps:
  `sleep` and `wait_receipt` wake on the stop event and each RPC times out. A worker in
  `MayHang` may stop taking steps for good, and the report must be written all the same.
* `Funder!FairSpec`: the worker's thread, and a chain that eventually handles what it has
  accepted and not dropped. Faults are bounded, never fair.
* `BalanceRace!FairBalanceSpec`, `ContractCaller!FairCallerSpec` and `ProxyBuilder!FairSpec`: the worker's
  thread and the chain as a whole; the credits and effects in question may come late or
  never.
* `StateRoot!FairSpec`: the worker's thread and those of the flood, which look at their
  stop events between two requests, each with a timeout; of the chain nothing is assumed.
* `WriteRace` states no liveness.
* `Ddos!FairSpec`: the dispatcher, each executor thread and the chain's mining; and, strongly,
  that the metrics and the revival become due again and again, because the clock brings
  them (`next_metrics`, `_next_revive`) however the loop is interleaved.

## 6. Proofs

`tlapm` on each of the `*Proofs` modules checks its theorems for any values of the constants
that satisfy the module's assumptions; hypotheses beyond those are named below and needed, as
the limits of section 4 show. None of the invariants is inductive as it stands; each proof
strengthens it, with one lemma per action or group of actions, and TLC agreed with the
strengthened invariant on the run's instance before it was proved. Every invariant that a
passing run checks is a theorem, and so is every module's `TypeOK`.

* **SendSub.** `TypeCorrect`: `Spec => []TypeOK`. `PlainNoGap` (`Endpoints = {"rpc"}`): a gap
  is prepared steps earlier, by a cursor, a reservation or a request on the wire that lies
  beyond the node's count. `PlainIInv` adds that whoever is inside the send block holds the
  lock (`LockInv`), that what was read, reserved or is on the wire is within the node's
  contiguous nonces (`WithinInv`), and that a cursor is within them too unless its account's
  lock holder has just advanced it (`CursorInv`); with the plain node no refusal names a nonce
  (`PlainInv`). `PlainImplementsLedger`: from the same invariant every step is a step of
  `NonceLedger` or leaves it unchanged. `LedgerUntilDrop`: the same for any mix of node and
  front until the front drops something, and `ImplementsLedger` where it never does. Whatever
  has been read, reserved, named by a refusal or given up on the wire has every lower nonce
  below it in node and front together (`ReachInv`), and so has a cursor (`PinInv`), pinned by
  a refusal or not; `NoGap` itself speaks of the node alone and fails for a while when the
  node gets a nonce before the front has forwarded the one below it. `OneCorrection` (no late
  requests): between the refusal that names a nonce and the retry that uses it nobody can take
  it, because the send lock is kept over both (`CorrectionIInv`). `InOrderCorrect` and
  `NoCollisionCorrect` (`FaultKinds \subseteq {"lost"}`, any mix of node and front): until
  something is dropped, node and front together have exactly the nonces below a reserved one,
  and below the cursor of an account nobody is sending from (`OrderIInv`), so there is nothing
  to refuse. A reply that is lost or a request that is late breaks this, which is why the
  hypothesis is needed.
* **ClientSend.** `TypeCorrect`; `NoGapCorrect` and `ImplementsLedger` (`MaxDrops = 0`), for
  the keys nobody deploys with and any mix of endpoints. `KeyIInv` has the same parts as above
  for the two locks of a client, and `ClosedInv`: what the front holds and the node has are
  together contiguous, so that forwarding never leaves a gap either.
* **Lifecycle** (`WorkerProofs`). `ReportCorrect` (`Mode = "run"`; `serve` is limit 3).
  `ReportIInv`: workers that have ended stay quiet (`QuietInv`), the shutdown note names
  whoever had not (`NoteInv`), and what has been copied of a worker it does not name is final
  (`CopyInv`). `LifecycleTypeCorrect`: only a thread that is ending has the one finding more
  than the bound that a crash leaves behind (`BoundInv`).
* **Funder.** `TypeCorrect`, `PublishedCorrect`, `AccountedCorrect`. `PublishedCorrect` is an
  action property: nobody spends from an account that is not published, so the balance of the
  account in work only grows, is either what it was before its deposit or at least the amount,
  and suffices when a rise is seen, whatever published accounts are left with.
* **WriteRace** (`CongestionProofs`). `TypeCorrect`; `NoFalseAlarmCorrect` (`~Late`): a round
  begins with nothing on the wire (`WireInv`), and while it lasts the slot holds what the
  receipts account for (`StoryInv`), which is what the verdict is drawn from (`JudgedInv`).
  `VanishCorrect` needs no hypothesis.
* **BalanceRace** (`CongestionProofs`). `BalanceTypeCorrect`; `DebtCorrect`: as long as debts
  are remembered (the property says when) a credit still open is the last deposit's, and the worker
  waits for exactly
  that much (`DebtInv`), so a race's balance moves by its own deposit and spend (`ExactInv`).
  `LossCorrect` (`Fee < Deposit`) and `AnomalyCorrect` (`Deposit > 0`): the absence of the
  deposit shows in the balance (`LossInv`), and, if the spends' receipts are waited out, the
  balance is at least the one before the race, plus the credits that came, less what a spend
  costs (`LeastInv`). The hypotheses are
  the configured amounts: a deposit is 5e13 wei by default (`congestion.py:79`), and the gas
  of a spend, 21000 (`congestion.py:452`, `630`), is worth less than it up to about 2.4 gwei.
  With a fee as high as the deposit, a race that credited it leaves as little as one that lost
  it.
* **Ddos.** `SlotsCorrect`; `SpendCorrect`: attempts made, being charged and queued stay
  within the budget and the slots (`SpendInv`); `RateCorrect`: the bucket and the observer's
  level together never exceed one burst, even when all the time since the last accrual counts
  at the full rate (`BucketInv`). `RotationCorrect` and `TypeCorrect`: a sender has one place
  in the rotation although two tasks may read it at once (`OnceInv`); one that is out of it is
  estimated below the floor, one that is in it below the floor is being read unless a read
  failed, and no estimate is overdrawn by more than the tasks that may debit it and the reads
  that failed (`EstimateInv`).
* **ContractCaller** (`WorkerProofs`). `CallerTypeCorrect`; `CallerAlarmCorrect` (`"blackout"`
  in none of the `Troubles`: with it limit 6 is met): every finding is backed by what was
  observed of the combination's transactions: only the hop's own effect has landed since its
  first read (`LandInv`), what landed is what was called for (`EntryInv`) by the proxy
  (`SenderInv`), and the receipts and waits tell what became of it (`ReceiptInv`).
  `PassCorrect` needs no hypothesis: what the chain did wrong is what the hops have shown
  (`TruthInv`), and a pass needs two hops delivered or the baseline (`PassInv`).
  `FaultsCorrect`: when nothing is late and nothing fails but the chain, whatever it did wrong
  is already in the book when the combination is settled (`HeardInv`).
* **StateRoot.** `TypeCorrect`, `HealthyCorrect`, `SpanCorrect` and `NoRecoveryCorrect`, for
  any number of failing samples. `SpanHonest` and `NoRecoveryReal` name their limit themselves:
  a round is `blind` once more samples have failed in a row than the threshold is long, and
  until then at most that many are missing (`SeeingInv`). So a running span is covered by a
  true stall (`SpanInv`), and a batch that landed since the release is either within the
  samples still missing or beyond what ages count to (`RecoverInv`).
* **ProxyBuilder.** `VerdictsCorrect`: for any number of endpoints, what a trial has come to,
  what was seen of it and what is said of it fit its endpoint's policy (`TrialsInv`), and a
  trial that has not had its turn has sent nothing (`FreshInv`). `ControlCorrect`: where the
  plain RPC knows the deposit V2 has lost and takes the replacement (`ControlCleared` says so),
  a lost transaction of the master key is V2's last deposit and is replaced before anything
  else is sent (`GapInv`). `AccountedCorrect`: what the counts lack is known from the trials still
  open (`BalanceInv`, `OpenInv`), and between matrices none is. `DivergenceCorrect`: between
  matrices a divergence is noted exactly when two verdicts differ (`DivergedInv`), and with
  `VerdictsCorrect`'s invariant these are two policies; `DivergenceExact` is about runs without
  `"refused"`, with which limit 10 is met. No run repeats it. `TypeCorrect`.

The type invariants are not repeated in the runs; each was checked with TLC by adding `TypeOK`
to the run's invariants before it was proved.

Only model-checked: all liveness, the `~>` and `<>` properties of the runs (fairness and
`ENABLED` are out of the prover's reach). No module has a recursive definition, so nothing
rests on induction over data.

## 7. Assumptions and abstractions

* The chain, the composer and the front are not code of this repository. The node refuses
  a nonce it already has, queues a later one and counts the first missing one as
  pending; a replacement with a doubled gas price is taken in the old one's place. The front
  accepts only the next unreserved nonce, hands on the lowest first and, when it
  drops a transaction, drops those accepted after it.
* A transaction is its nonce (send path), its value (write race) or its amount (balance
  race). Gas, data, signatures and hashes are left out.
* `nonce_resyncs += 1` is not atomic in Python; a lost update would only lower a counter
  nobody decides upon, and is left out.
* In the balance race a wait lasts until what it waits for has settled, unless the trouble says
  that it may be late: a deposit's or seed's receipt (`receiptLate`), a spend's (`spendLate`), a
  credit (`creditLate`). A transaction whose answer is lost is the same as one whose receipt is:
  given up, and perhaps on its way. In the funder any wait may end at any time, and a spend
  by another worker leaves a published account with as much as `Leftovers` says.
* In `Ddos` money is counted in transfers and recipients' dust is left out; the node refuses
  a transfer the sender's latest balance less its pending transfers cannot pay; the
  rate's movements are any that `_backpressure` may make. Only the dispatcher looks at
  the time, so all of it passes in its pause.
* In `ContractCaller` and `ProxyBuilder` a wait lasts until what it waits for has settled,
  unless `late` (for the matrix `probesLate`) is among the troubles; reads fail only where the troubles say so. What a
  call returns is the counter's value, told apart from none and from a wrong one.
* In `ProxyBuilder` an endpoint does one thing with a deposit to a missing proxy (`policy`) for
  the whole run: the matrix compares endpoints, not moods.
* In `ProxyBuilder` the front's next nonce is that of the transaction it has dropped: it refuses
  V2's next deposit with that number, and `send` signs it again with it (`rpc.py:216-228`), so
  that deposit takes the dropped one's place and is dropped as well. V1 and the fundings go by
  the plain RPC and are queued behind the gap, or refused there once the correction has taken
  the client's cursor back among the queued nonces (`NonceTaken`). Sends of other workers through
  the front, which could fill it, are not modelled, and neither is the front's answer to a transaction of V1
  that a sick instance loses.
* In `StateRoot` time is counted in samples: an age grows by one from a sample to the next.
  `WindowAssumption` says that an age that counts as blocked can be read, which is what "must
  exceed a full attack's worth of blocks" (`stateroot_race.py:89-92`) asks of the lookback.
  Any number of samples may fail.
* The primary-key client's node is always among the endpoints (`"rpc" \in Endpoints`): `deploy`
  and `_clear_nonce_gap` send through it.
* Otherwise time is what may happen: a window passes whenever the model lets it. No property
  depends on how long anything takes.

## 8. Plan

1. Send path: `NonceManager`, `Endpoints`, `SendSub`, `ClientSend`, `NonceLedger`; proofs of both.
   *Done.*
2. `Lifecycle`, `Funder`, `WriteRace`, `BalanceRace`, `Ddos`, each with its proofs. *Done.*
3. The verdicts of the remaining workers: `ContractCaller`, `ProxyBuilder` and `StateRoot` with
   their proofs. *Done.*
4. Open: the fuzzer's pending list and stuck verdict; the halt and refusal verdicts and the
   throttle of the flood, as observers of a chain with failing reads; the incremental block
   scan of the vitals.

Not modelled, and why:

* **Fuzzer** (`workers/fuzzer.py`): its sends are `send_sub`'s and so are modelled. What is its
  own is a list of hashes polled from one end and a head watch, whose verdicts are
  rates over time ("stuck for so many seconds"); without a clock they hold or fail by
  choice.
* **Monitor and vitals** (`monitor.py`, `vitals.py`): they feed gauges and tables, and no verdict
  rests on them.
* **Dashboard, contract verification, configuration and command line**: views, uploads and
  parsing; no state that changes.
* **The other Solidity targets**: they store or forward one value, and no worker
  judges them but by the effect modelled with it.
* **Issue notes and scripts**: not part of the program. Rendering of the report and the wording
  of findings decide nothing.
