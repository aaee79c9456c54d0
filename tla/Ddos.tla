-------------------------------- MODULE Ddos --------------------------------
(***************************************************************************)
(* DdosWorker (eeztest/workers/ddos.py): the thread that dispatches dust   *)
(* transfers under a token bucket and a spend budget, the executor threads *)
(* that send them, and the rotation of solvent senders they share with it. *)
(* Money is counted in transfers (_tx_cost); tokens in Units, fractions of *)
(* a token.  What send_sub does with nonces is SendSub's.                  *)
(***************************************************************************)
EXTENDS Integers, Sequences, FiniteSets, SequencesExt

CONSTANTS
    Senders,       \* indices into subs
    Concurrency,   \* bound on the executor threads
    Loads          \* configurations, one per behaviour: records, see DdosAssumption

ASSUME DdosAssumption ==
    /\ Concurrency \in Nat \ {0}
    /\ Senders \subseteq Nat \ {0} /\ IsFiniteSet(Senders)
    /\ Loads \subseteq [units : Nat \ {0},                      \* fractions of a token
                        rateMin : Nat \ {0}, rateMax : Nat \ {0}, \* Units per quantum of time
                        burst : Nat \ {0},                       \* tokens
                        floor : Nat \ {0},                       \* spend_floor
                        budget : Nat,                            \* max_spend; 0 is unlimited
                        funds : [Senders -> Nat],                \* on the chain at the start
                        concurrency : 1 .. Concurrency,
                        refunds : Nat, misreads : Nat]           \* bounds

Main == 0
Threads == 1 .. Concurrency
Actors == Threads \union {Main}
NoOne == 0

VARIABLES
    load,
    stop,
    funds, pooled,      \* the chain: latest balance, and what the mempool will take
    refunds, misreads,  \* bounded environment
    tokens, since, rate,    \* _tokens, time since _tokens_at, rate_cur
    level,              \* observer: a bucket that leaks at rate_max and fills with submissions
    inflight, queued,   \* the counter, and the executor's queue
    spent,              \* _spend_attempted, while there is a budget
    balance, live, rr,  \* _balance, _live, _sender_rr
    at, who, seen, then, \* per actor: its place, its sender, the balance it read, where it goes on
    todo                \* senders _revive_depleted has still to look at

chainVars == <<load, stop, funds, pooled, refunds>>
bucketVars == <<tokens, since, rate, level>>
guardVars == <<spent, balance, live, rr>>
placeVars == <<at, who, seen, then, todo>>
vars == <<chainVars, misreads, bucketVars, inflight, queued, guardVars, placeVars>>

LiveSet == ToSet(live)
Units == load.units
MaxInflight == 2 * load.concurrency
Deepest == -(MaxInflight + load.misreads + 1)

TypeOK ==
    /\ load \in Loads /\ stop \in BOOLEAN
    /\ funds \in [Senders -> Nat] /\ pooled \in [Senders -> Nat]
    /\ \A i \in Senders : pooled[i] <= funds[i]
    /\ refunds \in 0 .. load.refunds /\ misreads \in 0 .. load.misreads
    /\ tokens \in 0 .. load.burst * Units
    /\ since \in Nat /\ rate \in 1 .. load.rateMax /\ level \in Nat
    /\ inflight \in 0 .. MaxInflight /\ queued \in 0 .. MaxInflight
    /\ spent \in Nat
    /\ balance \in [Senders -> Int] /\ \A i \in Senders : balance[i] > Deepest
    /\ live \in Seq(Senders) /\ Len(live) = Cardinality(LiveSet)
    /\ rr \in Nat
    /\ at \in [Actors -> {"tick", "pace", "metrics", "charge", "read", "apply", "send", "over",
                          "idle", "drain", "done"}]
    /\ who \in [Actors -> Senders \union {NoOne}]
    /\ seen \in [Actors -> Nat] /\ then \in [Actors -> {"tick", "send", "over"}]
    /\ todo \subseteq Senders

\* The solvent senders in the order of their indices: one sequence.
Solvent ==
    LET S == {i \in Senders : balance[i] >= load.floor} IN
    {s \in [1 .. Cardinality(S) -> S] : \A h, k \in DOMAIN s : h < k => s[h] < s[k]}

\* setup; a balance that cannot be read counts as the floor.
Init ==
    /\ load \in Loads /\ stop = FALSE
    /\ funds = load.funds /\ pooled = [i \in Senders |-> 0]
    /\ refunds = 0 /\ misreads = 0
    /\ tokens = 0 /\ since = 0 /\ rate = load.rateMax /\ level = 0
    /\ inflight = 0 /\ queued = 0 /\ spent = 0 /\ rr = 0
    /\ \E unread \in SUBSET Senders :
         balance = [i \in Senders |-> IF i \in unread THEN load.floor ELSE funds[i]]
    /\ live \in Solvent
    /\ at = [a \in Actors |-> IF a = Main THEN "tick" ELSE "idle"]
    /\ who = [a \in Actors |-> NoOne] /\ seen = [a \in Actors |-> 0]
    /\ then = [a \in Actors |-> "tick"] /\ todo = {}

-----------------------------------------------------------------------------
\* The chain, the clock and the operator.

Mine == \E i \in Senders :
    /\ pooled[i] > 0
    /\ pooled' = [pooled EXCEPT ![i] = @ - 1] /\ funds' = [funds EXCEPT ![i] = @ - 1]
    /\ UNCHANGED <<load, stop, refunds, misreads, bucketVars, inflight, queued, guardVars, placeVars>>

Refund == \E i \in Senders :
    /\ refunds < load.refunds /\ refunds' = refunds + 1
    /\ funds' = [funds EXCEPT ![i] = @ + load.floor]
    /\ UNCHANGED <<load, stop, pooled, misreads, bucketVars, inflight, queued, guardVars, placeVars>>

Stop ==
    /\ ~stop /\ stop' = TRUE
    /\ UNCHANGED <<load, funds, pooled, refunds, misreads, bucketVars, inflight, queued, guardVars, placeVars>>

-----------------------------------------------------------------------------
\* The dispatching thread.

SmallerOf(a, b) == IF a < b THEN a ELSE b
LargerOf(a, b) == IF a < b THEN b ELSE a

\* slip: the bucket has no bottom to its depth
NeverFull == tokens + since * rate

Accrued == SmallerOf(load.burst * Units, tokens + since * rate)

Takeable(limit) == SmallerOf(limit, Accrued \div Units)

\* slip: no budget
AnySolvent == live # <<>>

CanSpend == live # <<>> /\ (load.budget = 0 \/ spent < load.budget)

\* One tick: as many tasks as slots and tokens allow are submitted.
Dispatch ==
    LET slots == MaxInflight - inflight
        n == Takeable(slots) IN
    /\ at[Main] = "tick" /\ ~stop
    /\ \/ /\ slots > 0 /\ CanSpend
          /\ tokens' = Accrued - n * Units /\ since' = 0
          /\ level' = level + n * Units
          /\ inflight' = inflight + n /\ queued' = queued + n
       \/ /\ ~(slots > 0 /\ CanSpend)
          /\ UNCHANGED <<tokens, since, level, inflight, queued>>
    /\ at' = [at EXCEPT ![Main] = "pace"]
    /\ UNCHANGED <<chainVars, misreads, rate, guardVars, who, seen, then, todo>>

\* From here on more time fills the bucket no further.
LongEnough == since * SmallerOf(load.rateMin, load.rateMax) >= load.burst * Units

\* Every round of the loop takes one quantum of time at least.  Only Dispatch
\* looks at the time, so what passes elsewhere passes here.  The metrics may
\* then be due.
Pause ==
    /\ at[Main] = "pace"
    /\ since' = IF LongEnough THEN since ELSE since + 1
    /\ level' = IF level > load.rateMax THEN level - load.rateMax ELSE 0
    /\ \E place \in {"pace", "tick", "metrics"} : at' = [at EXCEPT ![Main] = place]
    /\ UNCHANGED <<chainVars, misreads, tokens, rate, inflight, queued, guardVars, who, seen, then, todo>>

\* slip: retired senders are not looked at again
NobodyDead == {}

Dead == Senders \ LiveSet

\* Back-pressure moves the rate, and now and then the retired senders are read
\* again.
Metrics ==
    /\ at[Main] = "metrics"
    /\ rate' \in {SmallerOf(rate, LargerOf(load.rateMin, rate \div 2)), SmallerOf(load.rateMax, rate * 2)}
    /\ todo' \in {Dead, {}}
    /\ at' = [at EXCEPT ![Main] = "over"]
    /\ UNCHANGED <<chainVars, misreads, tokens, since, level, inflight, queued, guardVars, who, seen, then>>

NextDead ==
    /\ at[Main] = "over"
    /\ \/ /\ todo = {} \/ stop
          /\ at' = [at EXCEPT ![Main] = "tick"] /\ todo' = {}
          /\ who' = [who EXCEPT ![Main] = NoOne] /\ then' = [then EXCEPT ![Main] = "tick"]
       \/ \E i \in todo :
            /\ ~stop /\ \A j \in todo : i <= j
            /\ todo' = todo \ {i}
            /\ at' = [at EXCEPT ![Main] = "read"]
            /\ who' = [who EXCEPT ![Main] = i] /\ then' = [then EXCEPT ![Main] = "over"]
    /\ UNCHANGED <<chainVars, misreads, bucketVars, inflight, queued, guardVars, seen>>

\* The loop ends; the executor is left when every task has run.
LeaveLoop ==
    /\ at[Main] = "tick" /\ stop
    /\ at' = [at EXCEPT ![Main] = "drain"]
    /\ UNCHANGED <<chainVars, misreads, bucketVars, inflight, queued, guardVars, who, seen, then, todo>>

Leave ==
    /\ at[Main] = "drain" /\ queued = 0 /\ \A t \in Threads : at[t] = "idle"
    /\ at' = [at EXCEPT ![Main] = "done"]
    /\ UNCHANGED <<chainVars, misreads, bucketVars, inflight, queued, guardVars, who, seen, then, todo>>

-----------------------------------------------------------------------------
\* A task on an executor thread.

\* slip: a task that has nothing to do returns without giving its slot back
ReturnsAtOnce(t) ==
    /\ at[t] = "idle" /\ t <= load.concurrency /\ queued > 0 /\ queued' = queued - 1
    /\ IF stop \/ live = <<>>
         THEN UNCHANGED <<at, who, rr>>
         ELSE /\ rr' = (rr + 1) % Len(live)
              /\ who' = [who EXCEPT ![t] = live[rr' + 1]]
              /\ at' = [at EXCEPT ![t] = "charge"]
    /\ UNCHANGED <<chainVars, misreads, bucketVars, inflight, spent, balance, live, seen, then, todo>>

\* slip: tasks in the queue are abandoned when stopping
NotWhenStopping(t) == ~stop /\ ReturnsAtOnce(t)

\* A task is taken; when stopping, or when nobody is solvent, there is nothing to do.
Fire(t) ==
    /\ at[t] = "idle" /\ t <= load.concurrency /\ queued > 0 /\ queued' = queued - 1
    /\ IF stop \/ live = <<>>
         THEN at' = [at EXCEPT ![t] = "over"] /\ UNCHANGED <<who, rr>>
         ELSE /\ rr' = (rr + 1) % Len(live)
              /\ who' = [who EXCEPT ![t] = live[rr' + 1]]
              /\ at' = [at EXCEPT ![t] = "charge"]
    /\ UNCHANGED <<chainVars, misreads, bucketVars, inflight, spent, balance, live, seen, then, todo>>

Charge(t) ==
    LET i == who[t]
        low == balance[i] - 1 < load.floor /\ i \in LiveSet IN
    /\ at[t] = "charge"
    /\ spent' = IF load.budget = 0 THEN 0 ELSE spent + 1
    /\ balance' = [balance EXCEPT ![i] = @ - 1]
    /\ at' = [at EXCEPT ![t] = IF low THEN "read" ELSE "send"]
    /\ then' = [then EXCEPT ![t] = "send"]
    /\ UNCHANGED <<chainVars, misreads, bucketVars, inflight, queued, live, rr, who, seen, todo>>

\* _refresh_balance reads outside the lock; should the read raise, that is all.
Read(a) ==
    /\ at[a] = "read"
    /\ \/ /\ seen' = [seen EXCEPT ![a] = funds[who[a]]]
          /\ at' = [at EXCEPT ![a] = "apply"]
          /\ UNCHANGED misreads
       \/ /\ misreads < load.misreads /\ misreads' = misreads + 1
          /\ at' = [at EXCEPT ![a] = then[a]]
          /\ UNCHANGED seen
    /\ UNCHANGED <<chainVars, bucketVars, inflight, queued, guardVars, who, then, todo>>

\* slip: nobody is retired
NobodyRetired(i, b) == IF b < load.floor \/ i \in LiveSet THEN live ELSE Append(live, i)

\* A sender is in live once at most (TypeOK): live without it is live without its place.
Rotation(i, b) ==
    IF b >= load.floor THEN IF i \in LiveSet THEN live ELSE Append(live, i)
    ELSE IF i \in LiveSet THEN RemoveAt(live, CHOOSE k \in DOMAIN live : live[k] = i) ELSE live

\* ... and writes what it read under it, whatever was charged in between.
Apply(a) ==
    LET i == who[a] IN
    /\ at[a] = "apply"
    /\ balance' = [balance EXCEPT ![i] = seen[a]]
    /\ live' = Rotation(i, seen[a])
    /\ at' = [at EXCEPT ![a] = then[a]]
    /\ seen' = [seen EXCEPT ![a] = 0]
    /\ UNCHANGED <<chainVars, misreads, bucketVars, inflight, queued, spent, rr, who, then, todo>>

\* The transfer is taken, refused for want of money, or refused or lost for
\* another reason; only the second makes the worker look at the balance again.
Send(t) ==
    LET i == who[t] IN
    /\ at[t] = "send"
    /\ \/ /\ pooled[i] < funds[i]
          /\ pooled' = [pooled EXCEPT ![i] = @ + 1]
          /\ at' = [at EXCEPT ![t] = "over"] /\ UNCHANGED then
       \/ /\ pooled[i] = funds[i]
          /\ at' = [at EXCEPT ![t] = "read"] /\ then' = [then EXCEPT ![t] = "over"]
          /\ UNCHANGED pooled
       \/ /\ at' = [at EXCEPT ![t] = "over"] /\ UNCHANGED <<pooled, then>>
    /\ UNCHANGED <<load, stop, funds, refunds, misreads, bucketVars, inflight, queued, guardVars, who, seen, todo>>

\* The finally clause.
Finish(t) ==
    /\ at[t] = "over"
    /\ at' = [at EXCEPT ![t] = "idle"] /\ who' = [who EXCEPT ![t] = NoOne]
    /\ then' = [then EXCEPT ![t] = "tick"]
    /\ inflight' = inflight - 1
    /\ UNCHANGED <<chainVars, misreads, bucketVars, queued, guardVars, seen, todo>>

-----------------------------------------------------------------------------
Task(t) == Fire(t) \/ Charge(t) \/ Read(t) \/ Apply(t) \/ Send(t) \/ Finish(t)

Loop == Dispatch \/ Pause \/ Metrics \/ NextDead \/ Read(Main) \/ Apply(Main) \/ LeaveLoop \/ Leave

Done == at[Main] = "done" /\ UNCHANGED vars

Next ==
    \/ Mine \/ Refund \/ Stop
    \/ Loop
    \/ \E t \in Threads : Task(t)
    \/ Done

Spec == Init /\ [][Next]_vars

Revive == Metrics /\ todo' = Dead

\* The threads run, the clock brings the metrics and the revival, and the
\* chain mines what it has accepted.
FairSpec ==
    /\ Spec
    /\ WF_vars(Mine)
    /\ WF_vars(Loop) /\ SF_vars(Pause /\ at'[Main] = "metrics") /\ SF_vars(Revive)
    /\ \A t \in Threads : WF_vars(Task(t))

-----------------------------------------------------------------------------
(***************************************************************************)
(* "The average submission rate therefore never exceeds the configured     *)
(* rate" (ddos.py:11-13, 234-236): over any stretch of time no more is     *)
(* submitted than the rate yields in it and the burst, through throttling, *)
(* pauses and fractions of tokens.                                         *)
(***************************************************************************)
RateHonoured == level <= load.burst * Units

(***************************************************************************)
(* max_spend "caps the total attempted spend" (ddos.py:18, 90, 262): it is *)
(* compared when tasks are submitted and charged when they run, so it is   *)
(* overrun, but only by the tasks that may be in flight.                   *)
(***************************************************************************)
SpendBounded == load.budget > 0 => spent < load.budget + MaxInflight

(***************************************************************************)
(* Every task gives back the slot it was submitted with, whichever way it  *)
(* ends (ddos.py:195-203, 323-355): a slot lost would slow the flood down  *)
(* for good and be taken for the chain's doing.                            *)
(***************************************************************************)
SlotsExact == inflight = queued + Cardinality({t \in Threads : at[t] # "idle"})

Misplaced(i) ==
    \/ i \in LiveSet /\ funds[i] < load.floor /\ load.budget = 0
    \/ i \notin LiveSet /\ funds[i] - pooled[i] >= load.floor

(***************************************************************************)
(* "An account whose balance drops below a floor stops being allocated     *)
(* work" (ddos.py:15-18, 278-298) and comes back when "the funder may have *)
(* topped them up" (309-319), although estimates are debited by several    *)
(* tasks and overwritten by reads that are out of date.                    *)
(***************************************************************************)
RotationFollowsMoney == \A i \in Senders : Misplaced(i) ~> (~Misplaced(i) \/ stop)

(***************************************************************************)
(* The stop event ends the flood, tasks in flight and queued included      *)
(* (ddos.py:190-191, 226, 324).                                            *)
(***************************************************************************)
FloodEnds == stop ~> at[Main] = "done"
=============================================================================
