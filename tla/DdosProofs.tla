------------------------------ MODULE DdosProofs ------------------------------
(***************************************************************************)
(* The accounts of Ddos for any senders, threads and configurations: the   *)
(* slots, the overrun of the budget and the rate; the rotation of solvent  *)
(* senders and the estimates it goes by.                                   *)
(***************************************************************************)
EXTENDS Ddos, FiniteSetTheorems, TLAPS

Places == {"tick", "pace", "metrics", "charge", "read", "apply", "send", "over", "idle", "drain", "done"}

ShapeInv ==
    /\ load \in Loads
    /\ at \in [Actors -> Places] /\ then \in [Actors -> {"tick", "send", "over"}]
    /\ spent \in Nat /\ queued \in Nat /\ inflight \in Int

Busy == {t \in Threads : at[t] # "idle"}
Charging == {t \in Threads : at[t] = "charge"}

\* The bucket and the observer's bucket never hold more than one burst together,
\* even if all the time since the last submission counts at the full rate.
BucketInv ==
    /\ tokens \in Nat /\ since \in Nat /\ rate \in 1 .. load.rateMax /\ level \in Nat
    /\ level + SmallerOf(load.burst * Units, tokens + since * load.rateMax) <= load.burst * Units

\* What has been attempted, and what is on its way to be, is within the bound.
SpendInv == load.budget > 0 =>
    spent + queued + Cardinality(Charging) <= load.budget - 1 + MaxInflight

AccountIInv == ShapeInv /\ BucketInv /\ SlotsExact /\ SpendInv

-----------------------------------------------------------------------------
LEMMA LoadFacts ==
  ASSUME load \in Loads
  PROVE  /\ load.units \in Nat \ {0} /\ load.rateMin \in Nat \ {0} /\ load.rateMax \in Nat \ {0}
         /\ load.burst \in Nat \ {0} /\ load.budget \in Nat
         /\ MaxInflight \in Nat \ {0} /\ load.burst * Units \in Nat
<1>1. load.concurrency \in 1 .. Concurrency
  BY DdosAssumption
<1> QED
  BY <1>1, DdosAssumption DEF MaxInflight, Units

LEMMA Finite ==
  /\ IsFiniteSet(Busy) /\ IsFiniteSet(Charging)
  /\ Cardinality(Busy) \in Nat /\ Cardinality(Charging) \in Nat
  /\ Cardinality(Charging) <= Cardinality(Busy)
<1>1. IsFiniteSet(Threads)
  BY FS_Interval, DdosAssumption DEF Threads
<1>2. Busy \in SUBSET Threads /\ Charging \in SUBSET Busy
  BY DEF Busy, Charging
<1>3. IsFiniteSet(Busy)
  BY <1>1, <1>2, FS_Subset
<1>4. IsFiniteSet(Charging) /\ Cardinality(Charging) <= Cardinality(Busy)
  BY <1>2, <1>3, FS_Subset
<1> QED
  BY <1>3, <1>4, FS_CardinalityType

LEMMA MainIsNoThread == Main \notin Threads /\ Threads \subseteq Actors /\ Main \in Actors
BY DdosAssumption DEF Main, Threads, Actors

\* What a move of one actor does to the counts.
LEMMA Moves ==
  ASSUME ShapeInv, NEW a \in Actors, NEW to \in Places, at' = [at EXCEPT ![a] = to]
  PROVE  /\ a \notin Threads => Busy' = Busy /\ Charging' = Charging
         /\ a \in Threads =>
              /\ Busy' = IF to = "idle" THEN Busy \ {a} ELSE Busy \cup {a}
              /\ Charging' = IF to = "charge" THEN Charging \cup {a} ELSE Charging \ {a}
<1>1. \A t \in Threads : at'[t] = IF t = a THEN to ELSE at[t]
  BY MainIsNoThread DEF ShapeInv
<1> QED
  BY <1>1 DEF Busy, Charging

\* The effect of each kind of task step on the counts.
LEMMA Enters ==
  ASSUME ShapeInv, NEW t \in Threads, at[t] = "idle", NEW to \in Places \ {"idle"},
         at' = [at EXCEPT ![t] = to]
  PROVE  /\ Cardinality(Busy') = Cardinality(Busy) + 1
         /\ Cardinality(Charging') = IF to = "charge" THEN Cardinality(Charging) + 1 ELSE Cardinality(Charging)
<1>1. t \notin Busy /\ t \notin Charging
  BY DEF Busy, Charging
<1>2. t \in Actors /\ to \in Places
  BY MainIsNoThread
<1>3. /\ Busy' = IF to = "idle" THEN Busy \ {t} ELSE Busy \cup {t}
      /\ Charging' = IF to = "charge" THEN Charging \cup {t} ELSE Charging \ {t}
  BY <1>2, Moves
<1>4. Charging \ {t} = Charging
  BY <1>1
<1> QED
  BY <1>1, <1>3, <1>4, Finite, FS_AddElement

LEMMA Leaves ==
  ASSUME ShapeInv, NEW t \in Threads, at[t] = "over", at' = [at EXCEPT ![t] = "idle"]
  PROVE  /\ Cardinality(Busy') = Cardinality(Busy) - 1
         /\ Cardinality(Charging') = Cardinality(Charging)
<1>1. t \in Busy /\ t \notin Charging
  BY DEF Busy, Charging
<1>2. t \in Actors /\ "idle" \in Places
  BY MainIsNoThread DEF Places
<1>3. /\ Busy' = IF "idle" = "idle" THEN Busy \ {t} ELSE Busy \cup {t}
      /\ Charging' = IF "idle" = "charge" THEN Charging \cup {t} ELSE Charging \ {t}
  BY <1>2, Moves
<1>4. Charging \ {t} = Charging
  BY <1>1
<1> QED
  BY <1>1, <1>3, <1>4, Finite, FS_RemoveElement

LEMMA Stays ==
  ASSUME ShapeInv, NEW a \in Actors, at[a] # "idle", NEW to \in Places \ {"idle", "charge"},
         at' = [at EXCEPT ![a] = to]
  PROVE  /\ Busy' = Busy
         /\ Cardinality(Charging') = IF a \in Threads /\ at[a] = "charge" THEN Cardinality(Charging) - 1
                                                                          ELSE Cardinality(Charging)
<1>1. CASE a \notin Threads
  BY <1>1, Moves
<1>2. CASE a \in Threads
  <2>1. a \in Busy /\ (a \in Charging <=> at[a] = "charge")
    BY <1>2 DEF Busy, Charging
  <2>2. Busy' = Busy \cup {a} /\ Charging' = Charging \ {a}
    BY <1>2, Moves
  <2>3. Busy \cup {a} = Busy
    BY <2>1
  <2> QED
    BY <1>2, <2>1, <2>2, <2>3, Finite, FS_RemoveElement
<1> QED
  BY <1>1, <1>2

LEMMA IInvInit == Init => AccountIInv
<1> SUFFICES ASSUME Init PROVE AccountIInv
  OBVIOUS
<1>1. ShapeInv
  BY MainIsNoThread DEF Init, ShapeInv, Places
<1>2. Busy = {} /\ Charging = {}
  BY MainIsNoThread DEF Init, Busy, Charging
<1>3. Cardinality(Busy) = 0 /\ Cardinality(Charging) = 0
  BY <1>2, FS_EmptySet
<1>4. BucketInv
  BY LoadFacts, <1>1 DEF Init, ShapeInv, BucketInv, SmallerOf, Units
<1>5. SlotsExact /\ SpendInv
  BY LoadFacts, <1>1, <1>3 DEF Init, ShapeInv, SlotsExact, SpendInv, Busy
<1> QED
  BY <1>1, <1>4, <1>5 DEF AccountIInv

\* A step that leaves the counts alone.
LEMMA SameCounts ==
  ASSUME SlotsExact, SpendInv, UNCHANGED <<load, spent, queued, inflight>>,
         Busy' = Busy, Cardinality(Charging') = Cardinality(Charging)
  PROVE  SlotsExact' /\ SpendInv'
BY DEF SlotsExact, SpendInv, Busy, MaxInflight

\* The steps of an actor that is not idle, does not charge and goes nowhere to.
LEMMA Passing ==
  ASSUME AccountIInv, NEW a \in Actors, at[a] \notin {"idle", "charge"},
         NEW to \in Places \ {"idle", "charge"}, at' = [at EXCEPT ![a] = to],
         UNCHANGED <<load, spent, queued, inflight>>
  PROVE  SlotsExact' /\ SpendInv'
<1>1. ShapeInv /\ SlotsExact /\ SpendInv
  BY DEF AccountIInv
<1>2. at[a] # "idle" /\ Cardinality(Busy') = Cardinality(Busy) /\ Busy' = Busy
  BY <1>1, Stays
<1>3. Cardinality(Charging') = Cardinality(Charging)
  BY <1>1, Stays
<1> QED
  BY <1>1, <1>2, <1>3, SameCounts

LEMMA TaskAccounts ==
  ASSUME AccountIInv, NEW t \in Threads, Task(t)
  PROVE  SlotsExact' /\ SpendInv' /\ queued' \in Nat /\ spent' \in Nat /\ inflight' \in Int
<1> DEFINE b == Cardinality(Busy)
           c == Cardinality(Charging)
<1>1. /\ ShapeInv /\ t \in Actors /\ load \in Loads /\ b \in Nat /\ c \in Nat
      /\ spent \in Nat /\ queued \in Nat /\ inflight \in Int
      /\ inflight = queued + b
      /\ load.budget > 0 => spent + queued + c <= load.budget - 1 + MaxInflight
      /\ load.budget \in Nat /\ MaxInflight \in Nat
  BY LoadFacts, Finite, MainIsNoThread DEF AccountIInv, ShapeInv, SlotsExact, SpendInv, Busy
<1>2. CASE Fire(t)
  <2>1. /\ queued > 0 /\ queued' = queued - 1 /\ UNCHANGED <<load, spent, inflight>>
        /\ \E to \in {"over", "charge"} : at' = [at EXCEPT ![t] = to]
        /\ at[t] = "idle"
    BY <1>2 DEF Fire, chainVars
  <2>2. /\ Cardinality(Busy') = b + 1
        /\ Cardinality(Charging') \in {c, c + 1}
    BY <1>1, <2>1, Enters DEF Places
  <2>3. MaxInflight' = MaxInflight
    BY <2>1 DEF MaxInflight
  <2>4. SlotsExact'
    BY <1>1, <2>1, <2>2 DEF SlotsExact, Busy
  <2>5. SpendInv'
    BY <1>1, <2>1, <2>2, <2>3 DEF SpendInv
  <2> QED
    BY <1>1, <2>1, <2>4, <2>5
<1>3. CASE Charge(t)
  <2>1. /\ UNCHANGED <<load, queued, inflight>>
        /\ spent' = IF load.budget = 0 THEN 0 ELSE spent + 1
        /\ \E to \in {"read", "send"} : at' = [at EXCEPT ![t] = to]
        /\ at[t] = "charge"
    BY <1>3 DEF Charge, chainVars
  <2>2. Busy' = Busy /\ Cardinality(Charging') = c - 1
    BY <1>1, <2>1, Stays DEF Places
  <2>3. MaxInflight' = MaxInflight
    BY <2>1 DEF MaxInflight
  <2>4. SlotsExact'
    BY <1>1, <2>1, <2>2 DEF SlotsExact, Busy
  <2>5. SpendInv'
    BY <1>1, <2>1, <2>2, <2>3 DEF SpendInv
  <2> QED
    BY <1>1, <2>1, <2>4, <2>5
<1>4. CASE Read(t) \/ Apply(t) \/ Send(t)
  <2>1. /\ UNCHANGED <<load, spent, queued, inflight>>
        /\ at[t] \notin {"idle", "charge"}
        /\ \E to \in Places \ {"idle", "charge"} : at' = [at EXCEPT ![t] = to]
    BY <1>1, <1>4 DEF Read, Apply, Send, chainVars, guardVars, ShapeInv, Places
  <2> QED
    BY <1>1, <2>1, Passing
<1>5. CASE Finish(t)
  <2>1. /\ UNCHANGED <<load, spent, queued>> /\ inflight' = inflight - 1
        /\ at[t] = "over" /\ at' = [at EXCEPT ![t] = "idle"]
    BY <1>5 DEF Finish, chainVars, guardVars
  <2>2. Cardinality(Busy') = b - 1 /\ Cardinality(Charging') = c
    BY <1>1, <2>1, Leaves
  <2>3. MaxInflight' = MaxInflight
    BY <2>1 DEF MaxInflight
  <2>4. SlotsExact'
    BY <1>1, <2>1, <2>2 DEF SlotsExact, Busy
  <2>5. SpendInv'
    BY <1>1, <2>1, <2>2, <2>3 DEF SpendInv
  <2> QED
    BY <1>1, <2>1, <2>4, <2>5
<1> QED
  BY <1>2, <1>3, <1>4, <1>5 DEF Task

\* What taking n tokens does to the two buckets.
LEMMA TakeTokens ==
  ASSUME NEW depth \in Nat, NEW unit \in Nat \ {0}, NEW slots \in Nat,
         NEW have \in Nat, NEW dt \in Nat, NEW max \in Nat, NEW r \in 0 .. max, NEW fill \in Nat,
         fill + SmallerOf(depth, have + dt * max) <= depth
  PROVE  LET grown == SmallerOf(depth, have + dt * r)
             n == SmallerOf(slots, grown \div unit) IN
         /\ n \in Nat /\ n <= slots /\ n * unit \in Nat /\ grown - n * unit \in Nat
         /\ (fill + n * unit) + SmallerOf(depth, (grown - n * unit) + 0 * max) <= depth
<1> DEFINE grown == SmallerOf(depth, have + dt * r)
           n == SmallerOf(slots, grown \div unit)
<1>1. dt * r \in Nat /\ dt * max \in Nat /\ dt * r <= dt * max
  <2>1. \A x, y, z \in Nat : y <= z => x * y \in Nat /\ x * z \in Nat /\ x * y <= x * z
    OBVIOUS
  <2> QED
    BY <2>1
<1>2. grown \in Nat /\ grown <= SmallerOf(depth, have + dt * max) /\ grown <= depth
  BY <1>1 DEF SmallerOf
<1>3. n \in Nat /\ n <= slots /\ n <= grown \div unit
  BY <1>2 DEF SmallerOf
<1>4. n * unit \in Nat /\ n * unit <= grown
  BY <1>2, <1>3
<1>5. 0 * max = 0
  OBVIOUS
<1>6. (fill + n * unit) + SmallerOf(depth, (grown - n * unit) + 0 * max) <= depth
  <2> HIDE DEF n, grown
  <2> QED
    BY <1>2, <1>4, <1>5 DEF SmallerOf
<1> QED
  BY <1>2, <1>3, <1>4, <1>6

LEMMA DispatchAccounts == AccountIInv /\ Dispatch => AccountIInv'
<1> SUFFICES ASSUME AccountIInv, Dispatch PROVE AccountIInv'
  OBVIOUS
<1> DEFINE c == Cardinality(Charging)
           slots == MaxInflight - inflight
           n == Takeable(slots)
<1>1. /\ ShapeInv /\ BucketInv /\ SlotsExact /\ SpendInv
      /\ load.units \in Nat \ {0} /\ load.rateMax \in Nat /\ load.budget \in Nat
      /\ load.burst * Units \in Nat /\ MaxInflight \in Nat
      /\ Main \in Actors /\ Main \notin Threads
      /\ Cardinality(Busy) \in Nat /\ c \in Nat /\ c <= Cardinality(Busy)
  BY LoadFacts, Finite, MainIsNoThread DEF AccountIInv, ShapeInv
<1>2. /\ at[Main] = "tick" /\ at' = [at EXCEPT ![Main] = "pace"]
      /\ UNCHANGED <<load, rate, spent, then>>
  BY DEF Dispatch, chainVars, guardVars
<1>3. Busy' = Busy /\ Cardinality(Charging') = c
  BY <1>1, <1>2, Stays DEF Places
<1>4. load' = load /\ MaxInflight' = MaxInflight /\ Units' = Units
  BY <1>2 DEF MaxInflight, Units
<1>5. CASE slots > 0 /\ CanSpend
  <2>1. /\ tokens' = Accrued - n * Units /\ since' = 0 /\ level' = level + n * Units
        /\ inflight' = inflight + n /\ queued' = queued + n
    BY <1>5 DEF Dispatch
  <2>2. /\ n \in Nat /\ n <= slots /\ n * Units \in Nat /\ Accrued - n * Units \in Nat
        /\ (level + n * Units) + SmallerOf(load.burst * Units, (Accrued - n * Units) + 0 * load.rateMax)
             <= load.burst * Units
    <3>1. /\ load.burst * Units \in Nat /\ Units \in Nat \ {0} /\ slots \in Nat /\ tokens \in Nat
          /\ since \in Nat /\ load.rateMax \in Nat /\ rate \in 0 .. load.rateMax /\ level \in Nat
          /\ level + SmallerOf(load.burst * Units, tokens + since * load.rateMax) <= load.burst * Units
      BY <1>1, <1>5 DEF BucketInv, ShapeInv, Units
    <3> QED
      BY <3>1, TakeTokens DEF Takeable, Accrued
  <2>3. ShapeInv'
    BY <1>1, <1>2, <2>1, <2>2 DEF ShapeInv, Places
  <2>4. /\ tokens' \in Nat /\ since' \in Nat /\ level' \in Nat /\ rate' \in 1 .. load'.rateMax
    BY <1>1, <1>2, <2>1, <2>2 DEF BucketInv
  <2>5. level' + SmallerOf(load'.burst * Units', tokens' + since' * load'.rateMax) <= load'.burst * Units'
    BY <1>4, <2>1, <2>2
  <2>6. BucketInv'
    BY <1>4, <2>4, <2>5 DEF BucketInv
  <2>7. SlotsExact'
    <3>1. inflight + n = (queued + n) + Cardinality(Busy)
      <4> HIDE DEF n
      <4> QED
        BY <1>1, <2>2 DEF SlotsExact, ShapeInv, Busy
    <3> QED
      BY <1>3, <2>1, <3>1 DEF SlotsExact, Busy
  <2>8. load.budget > 0 => spent + (queued + n) + c <= load.budget - 1 + MaxInflight
    <3>1. inflight = queued + Cardinality(Busy)
      BY <1>1 DEF SlotsExact, Busy
    <3>2. load.budget > 0 => spent < load.budget
      BY <1>1, <1>5 DEF CanSpend
    <3> HIDE DEF n
    <3> QED
      BY <1>1, <2>2, <3>1, <3>2 DEF ShapeInv
  <2>9. SpendInv'
    BY <1>2, <1>3, <1>4, <2>1, <2>8 DEF SpendInv
  <2> QED
    BY <2>3, <2>6, <2>7, <2>9 DEF AccountIInv
<1>6. CASE ~(slots > 0 /\ CanSpend)
  <2>1. UNCHANGED <<tokens, since, level, inflight, queued>>
    BY <1>6 DEF Dispatch
  <2>2. ShapeInv'
    BY <1>1, <1>2, <2>1 DEF ShapeInv, Places
  <2>3. BucketInv'
    BY <1>1, <1>2, <1>4, <2>1 DEF BucketInv, SmallerOf
  <2>4. SlotsExact' /\ SpendInv'
    BY <1>1, <1>2, <1>3, <2>1, SameCounts
  <2> QED
    BY <2>2, <2>3, <2>4 DEF AccountIInv
<1> QED
  BY <1>5, <1>6

\* The bucket's other steps: time passes, or the rate moves.
LEMMA BucketRest ==
  ASSUME AccountIInv, load' = load,
         Pause \/ Metrics \/ UNCHANGED bucketVars
  PROVE  BucketInv'
<1>1. /\ BucketInv /\ load.rateMax \in Nat \ {0} /\ load.rateMin \in Nat \ {0}
      /\ load.burst * Units \in Nat /\ Units' = Units
  BY LoadFacts DEF AccountIInv, ShapeInv, Units
<1>2. CASE Pause
  <2>1. /\ since' \in {since, since + 1} /\ UNCHANGED <<tokens, rate>>
        /\ level' = IF level > load.rateMax THEN level - load.rateMax ELSE 0
    BY <1>2 DEF Pause
  <2>2. since * load.rateMax \in Nat /\ (since + 1) * load.rateMax = since * load.rateMax + load.rateMax
    BY <1>1 DEF BucketInv
  <2>3. /\ level' \in Nat /\ since' \in Nat /\ since' * load.rateMax \in Nat
        /\ since' * load.rateMax <= since * load.rateMax + load.rateMax
    BY <1>1, <2>1, <2>2 DEF BucketInv
  <2>4. \A depth, t, x, y, max, fill \in Nat :
          /\ fill + SmallerOf(depth, t + x) <= depth /\ y <= x + max
          => (IF fill > max THEN fill - max ELSE 0) + SmallerOf(depth, t + y) <= depth
    BY DEF SmallerOf
  <2>5. level' + SmallerOf(load.burst * Units, tokens + since' * load.rateMax) <= load.burst * Units
    BY <1>1, <2>1, <2>2, <2>3, <2>4 DEF BucketInv
  <2> QED
    BY <1>1, <2>1, <2>3, <2>5 DEF BucketInv
<1>3. CASE Metrics
  <2>1. /\ UNCHANGED <<tokens, since, level>>
        /\ rate' \in {SmallerOf(rate, LargerOf(load.rateMin, rate \div 2)), SmallerOf(load.rateMax, rate * 2)}
    BY <1>3 DEF Metrics
  <2>2. rate' \in 1 .. load.rateMax
    BY <1>1, <2>1 DEF BucketInv, SmallerOf, LargerOf
  <2> QED
    BY <1>1, <2>1, <2>2 DEF BucketInv
<1>4. CASE UNCHANGED bucketVars
  BY <1>1, <1>4 DEF bucketVars, BucketInv
<1> QED
  BY <1>2, <1>3, <1>4

LEMMA MainAccounts ==
  ASSUME AccountIInv,
         Pause \/ Metrics \/ NextDead \/ Read(Main) \/ Apply(Main) \/ LeaveLoop \/ Leave
  PROVE  ShapeInv' /\ SlotsExact' /\ SpendInv'
<1>1. ShapeInv /\ Main \in Actors
  BY MainIsNoThread DEF AccountIInv
<1>2. /\ UNCHANGED <<load, spent, queued, inflight>>
      /\ at[Main] \notin {"idle", "charge"}
      /\ \E to \in Places \ {"idle", "charge"} : at' = [at EXCEPT ![Main] = to]
      /\ then' \in [Actors -> {"tick", "send", "over"}]
  BY <1>1 DEF Pause, Metrics, NextDead, Read, Apply, LeaveLoop, Leave, chainVars, guardVars, ShapeInv, Places
<1>3. SlotsExact' /\ SpendInv'
  BY <1>1, <1>2, Passing
<1>4. ShapeInv'
  BY <1>1, <1>2 DEF ShapeInv
<1> QED
  BY <1>3, <1>4

LEMMA AccountStep == AccountIInv /\ [Next]_vars => AccountIInv'
<1> SUFFICES ASSUME AccountIInv, [Next]_vars PROVE AccountIInv'
  OBVIOUS
<1>1. CASE Mine \/ Refund \/ Stop \/ Done \/ UNCHANGED vars
  <2>1. UNCHANGED <<load, at, then, spent, queued, inflight, bucketVars>>
    BY <1>1 DEF Mine, Refund, Stop, Done, vars, chainVars, guardVars, placeVars
  <2>2. ShapeInv'
    BY <2>1 DEF AccountIInv, ShapeInv
  <2>3. Busy' = Busy /\ Cardinality(Charging') = Cardinality(Charging)
    BY <2>1 DEF Busy, Charging
  <2>4. SlotsExact' /\ SpendInv'
    BY <2>1, <2>3, SameCounts DEF AccountIInv
  <2>5. BucketInv'
    BY <2>1, BucketRest
  <2> QED
    BY <2>2, <2>4, <2>5 DEF AccountIInv
<1>2. CASE Dispatch
  BY <1>2, DispatchAccounts
<1>3. CASE Pause \/ Metrics \/ NextDead \/ Read(Main) \/ Apply(Main) \/ LeaveLoop \/ Leave
  <2>1. load' = load /\ (Pause \/ Metrics \/ UNCHANGED bucketVars)
    BY <1>3 DEF Pause, Metrics, NextDead, Read, Apply, LeaveLoop, Leave, chainVars
  <2> QED
    BY <1>3, <2>1, MainAccounts, BucketRest DEF AccountIInv
<1>4. ASSUME NEW t \in Threads, Task(t) PROVE AccountIInv'
  <2>1. SlotsExact' /\ SpendInv' /\ queued' \in Nat /\ spent' \in Nat /\ inflight' \in Int
    BY <1>4, TaskAccounts
  <2>2. /\ UNCHANGED <<load, bucketVars>>
        /\ at' \in [Actors -> Places] /\ then' \in [Actors -> {"tick", "send", "over"}]
    BY <1>4, MainIsNoThread
    DEF Task, Fire, Charge, Read, Apply, Send, Finish, chainVars, AccountIInv, ShapeInv, Places
  <2> QED
    BY <2>1, <2>2, BucketRest DEF AccountIInv, ShapeInv
<1> QED
  BY <1>1, <1>2, <1>3, <1>4 DEF Next, Loop

LEMMA AccountsKept == Spec => []AccountIInv
BY IInvInit, AccountStep, PTL DEF Spec

(***************************************************************************)
(* Ddos!SlotsExact: for any number of threads every task gives its slot    *)
(* back, and none twice (ddos.py:195-203, 323-355).                        *)
(***************************************************************************)
THEOREM SlotsCorrect == Spec => []SlotsExact
BY AccountsKept, PTL DEF AccountIInv

(***************************************************************************)
(* Ddos!SpendBounded: whatever the budget and the concurrency, it is       *)
(* overrun by less than the tasks that may be in flight (ddos.py:18, 262). *)
(***************************************************************************)
THEOREM SpendCorrect == Spec => []SpendBounded
<1>1. AccountIInv => SpendBounded
  <2> SUFFICES ASSUME AccountIInv, load.budget > 0 PROVE spent < load.budget + MaxInflight
    BY DEF SpendBounded
  <2>1. /\ spent \in Nat /\ queued \in Nat /\ Cardinality(Charging) \in Nat
        /\ load.budget \in Nat /\ MaxInflight \in Nat
        /\ spent + queued + Cardinality(Charging) <= load.budget - 1 + MaxInflight
    BY Finite, LoadFacts DEF AccountIInv, ShapeInv, SpendInv
  <2> QED
    BY <2>1
<1> QED
  BY <1>1, AccountsKept, PTL

(***************************************************************************)
(* Ddos!RateHonoured: for every rate, burst and fraction of a token, and   *)
(* however back-pressure moves the rate, no stretch of time sees more than *)
(* the rate yields in it and one burst (ddos.py:11-13, 234-247).           *)
(***************************************************************************)
THEOREM RateCorrect == Spec => []RateHonoured
<1>1. AccountIInv => RateHonoured
  <2> SUFFICES ASSUME AccountIInv PROVE level <= load.burst * Units
    BY DEF RateHonoured
  <2>1. /\ level \in Nat /\ load.burst * Units \in Nat /\ tokens + since * load.rateMax \in Nat
        /\ level + SmallerOf(load.burst * Units, tokens + since * load.rateMax) <= load.burst * Units
    BY LoadFacts DEF AccountIInv, ShapeInv, BucketInv
  <2> QED
    BY <2>1 DEF SmallerOf
<1> QED
  BY <1>1, AccountsKept, PTL

-----------------------------------------------------------------------------
(***************************************************************************)
(* The rotation and the estimates.                                         *)
(***************************************************************************)
\* A sender has one place in the rotation at most.
OnceInv == live \in Seq(Senders) /\ \A h, k \in 1 .. Len(live) : h # k => live[h] # live[k]

LEMMA RemoveAtFacts ==
  ASSUME NEW S, NEW s \in Seq(S), NEW p \in 1 .. Len(s)
  PROVE  /\ RemoveAt(s, p) \in Seq(S) /\ Len(RemoveAt(s, p)) = Len(s) - 1
         /\ \A k \in 1 .. Len(s) - 1 : RemoveAt(s, p)[k] = IF k < p THEN s[k] ELSE s[k + 1]
<1> DEFINE a == SubSeq(s, 1, p - 1)
           b == SubSeq(s, p + 1, Len(s))
<1>1. Len(s) \in Nat
  OBVIOUS
<1>2. /\ a \in Seq(S) /\ Len(a) = p - 1 /\ \A k \in 1 .. p - 1 : a[k] = s[k]
  BY <1>1
<1>3. /\ b \in Seq(S) /\ Len(b) = Len(s) - p /\ \A k \in 1 .. Len(s) - p : b[k] = s[p + k]
  BY <1>1
<1>4. RemoveAt(s, p) = a \o b
  BY DEF RemoveAt
<1> HIDE DEF a, b
<1>5. /\ a \o b \in Seq(S) /\ Len(a \o b) = (p - 1) + (Len(s) - p)
      /\ \A k \in 1 .. (p - 1) + (Len(s) - p) : (a \o b)[k] = IF k <= p - 1 THEN a[k] ELSE b[k - (p - 1)]
  <2>1. \A f, g \in Seq(S) :
          /\ f \o g \in Seq(S) /\ Len(f \o g) = Len(f) + Len(g)
          /\ \A k \in 1 .. Len(f) + Len(g) : (f \o g)[k] = IF k <= Len(f) THEN f[k] ELSE g[k - Len(f)]
    OBVIOUS
  <2>2. /\ a \o b \in Seq(S) /\ Len(a \o b) = Len(a) + Len(b)
        /\ \A k \in 1 .. Len(a) + Len(b) : (a \o b)[k] = IF k <= Len(a) THEN a[k] ELSE b[k - Len(a)]
    <3>1. a \in Seq(S) /\ b \in Seq(S)
      BY <1>2, <1>3
    <3> QED
      BY <2>1, <3>1
  <2>3. Len(a) = p - 1 /\ Len(b) = Len(s) - p
    BY <1>2, <1>3
  <2> QED
    BY <2>2, <2>3
<1>6. ASSUME NEW k \in 1 .. Len(s) - 1 PROVE (a \o b)[k] = IF k < p THEN s[k] ELSE s[k + 1]
  <2>1. CASE k < p
    BY <1>1, <1>2, <1>5, <2>1
  <2>2. CASE ~(k < p)
    <3>1. k - (p - 1) \in 1 .. Len(s) - p /\ p + (k - (p - 1)) = k + 1
      BY <1>1, <2>2
    <3>2. (a \o b)[k] = b[k - (p - 1)]
      BY <1>1, <1>5, <2>2
    <3> QED
      BY <1>3, <2>2, <3>1, <3>2
  <2> QED
    BY <2>1, <2>2
<1> QED
  BY <1>1, <1>4, <1>5, <1>6

LEMMA Members ==
  ASSUME OnceInv
  PROVE  /\ LiveSet = {live[k] : k \in 1 .. Len(live)} /\ DOMAIN live = 1 .. Len(live)
         /\ LiveSet \subseteq Senders
BY DEF OnceInv, LiveSet, ToSet

LEMMA RotationOnce ==
  ASSUME OnceInv, load.floor \in Nat, NEW i \in Senders, NEW b \in Nat, live' = Rotation(i, b)
  PROVE  OnceInv' /\ LiveSet' = IF b >= load.floor THEN LiveSet \cup {i} ELSE LiveSet \ {i}
<1>0. live \in Seq(Senders) /\ Len(live) \in Nat
  BY DEF OnceInv
<1>1. CASE live' = live /\ (b >= load.floor <=> i \in LiveSet)
  BY <1>1 DEF OnceInv, LiveSet
<1>2. CASE live' = Append(live, i) /\ i \notin LiveSet /\ b >= load.floor
  <2>1. /\ live' \in Seq(Senders) /\ Len(live') = Len(live) + 1
        /\ live'[Len(live) + 1] = i /\ \A k \in 1 .. Len(live) : live'[k] = live[k]
    BY <1>0, <1>2
  <2>2. \A k \in 1 .. Len(live) : live[k] # i
    BY <1>2, Members
  <2>3. OnceInv'
    BY <1>0, <2>1, <2>2 DEF OnceInv
  <2>4. LiveSet' = {live'[k] : k \in 1 .. Len(live')}
    BY <2>3 DEF OnceInv, LiveSet, ToSet
  <2>5. LiveSet' = LiveSet \cup {i}
    BY <1>0, <2>1, <2>4, Members
  <2> QED
    BY <1>2, <2>3, <2>5
<1>3. CASE b < load.floor /\ i \in LiveSet /\ live' = RemoveAt(live, CHOOSE k \in DOMAIN live : live[k] = i)
  <2> DEFINE p == CHOOSE k \in DOMAIN live : live[k] = i
  <2>1. p \in 1 .. Len(live) /\ live[p] = i
    BY <1>3, Members
  <2>2. live' = RemoveAt(live, p)
    BY <1>3
  <2> HIDE DEF p
  <2>3. /\ live' \in Seq(Senders) /\ Len(live') = Len(live) - 1
        /\ \A k \in 1 .. Len(live) - 1 : live'[k] = IF k < p THEN live[k] ELSE live[k + 1]
    BY <1>0, <2>1, <2>2, RemoveAtFacts
  <2>4. OnceInv'
    BY <1>0, <2>1, <2>3, SMTT(30) DEF OnceInv
  <2>5. LiveSet' = {live'[k] : k \in 1 .. Len(live')}
    BY <2>4 DEF OnceInv, LiveSet, ToSet
  <2>6. LiveSet' \subseteq LiveSet \ {i}
    <3>1. ASSUME NEW k \in 1 .. Len(live') PROVE live'[k] \in LiveSet \ {i}
      <4>1. PICK h \in 1 .. Len(live) : h # p /\ live'[k] = live[h]
        BY <1>0, <2>1, <2>3
      <4> QED
        BY <2>1, <4>1, Members DEF OnceInv
    <3> QED
      BY <2>5, <3>1
  <2>7. LiveSet \ {i} \subseteq LiveSet'
    <3>1. ASSUME NEW h \in 1 .. Len(live), live[h] # i PROVE live[h] \in LiveSet'
      <4>1. h # p
        BY <2>1, <3>1
      <4>2. CASE h < p
        <5>1. h \in 1 .. Len(live') /\ live'[h] = live[h]
          BY <1>0, <2>1, <2>3, <4>2
        <5> QED
          BY <2>5, <5>1
      <4>3. CASE h > p
        <5>1. h - 1 \in 1 .. Len(live') /\ live'[h - 1] = live[h]
          BY <1>0, <2>1, <2>3, <4>3
        <5> QED
          BY <2>5, <5>1
      <4> QED
        BY <2>1, <4>1, <4>2, <4>3
    <3> QED
      BY <3>1, Members
  <2> QED
    BY <1>3, <2>4, <2>6, <2>7
<1> QED
  BY <1>1, <1>2, <1>3 DEF Rotation

LEMMA LiveCount == ASSUME OnceInv PROVE Len(live) = Cardinality(LiveSet)
<1>1. Len(live) \in Nat /\ live \in [1 .. Len(live) -> LiveSet]
  BY Members DEF OnceInv
<1>2. live \in Bijection(1 .. Len(live), LiveSet)
  BY <1>1, Members DEF OnceInv, Bijection, Injection, Surjection, IsInjective
<1>3. ExistsBijection(1 .. Len(live), LiveSet)
  BY <1>2 DEF ExistsBijection
<1>4. IsFiniteSet(1 .. Len(live)) /\ Cardinality(1 .. Len(live)) = Len(live)
  <2>1. 1 \in Int /\ Len(live) \in Int
    BY <1>1
  <2> QED
    BY <1>1, <2>1, FS_Interval, SMTT(30)
<1> QED
  BY <1>3, <1>4, FS_Bijection

-----------------------------------------------------------------------------
Reading(i) == {t \in Threads : at[t] \in {"read", "apply"} /\ who[t] = i}
ChargingOf(i) == {t \in Threads : at[t] = "charge" /\ who[t] = i}

MoneyInv ==
    /\ funds \in [Senders -> Nat] /\ pooled \in [Senders -> Nat]
    /\ \A i \in Senders : pooled[i] <= funds[i]
    /\ refunds \in 0 .. load.refunds /\ misreads \in 0 .. load.misreads /\ stop \in BOOLEAN

\* Whoever works for a sender has one, and no more threads work than the load has.
ActorInv ==
    /\ who \in [Actors -> Senders \cup {NoOne}] /\ seen \in [Actors -> Nat]
    /\ todo \subseteq Senders /\ rr \in Nat
    /\ \A a \in Actors : at[a] \in {"charge", "read", "apply", "send"} => who[a] \in Senders
    /\ \A t \in Threads : at[t] # "idle" => t <= load.concurrency

\* How deep an estimate may fall.  In the rotation, every debit below the floor
\* has its reader, or had one whose read failed; out of it, nothing is left to
\* debit but what was picked before.
EstimateOf(i) ==
    /\ i \in LiveSet => balance[i] + Cardinality(Reading(i)) + misreads >= 0
    /\ i \notin LiveSet => balance[i] >= Cardinality(ChargingOf(i)) - load.concurrency
    /\ i \notin LiveSet => balance[i] < load.floor
    /\ i \in LiveSet /\ balance[i] < load.floor => misreads > 0 \/ Reading(i) # {}

EstimateInv == balance \in [Senders -> Int] /\ \A i \in Senders : EstimateOf(i)

LEMMA LoadMore ==
  ASSUME load \in Loads
  PROVE  /\ load.floor \in Nat \ {0} /\ load.refunds \in Nat /\ load.misreads \in Nat
         /\ load.concurrency \in Nat \ {0} /\ load.concurrency <= Concurrency
         /\ load.funds \in [Senders -> Nat]
BY DdosAssumption

LEMMA FewThreads ==
  ASSUME load \in Loads, ActorInv, NEW i
  PROVE  /\ IsFiniteSet(Reading(i)) /\ IsFiniteSet(ChargingOf(i))
         /\ Cardinality(Reading(i)) \in Nat /\ Cardinality(ChargingOf(i)) \in Nat
         /\ Cardinality(Reading(i)) <= load.concurrency /\ Cardinality(ChargingOf(i)) <= load.concurrency
<1>1. load.concurrency \in Nat /\ 1 \in Int /\ load.concurrency \in Int /\ load.concurrency >= 1
  BY LoadMore
<1>2. IsFiniteSet(1 .. load.concurrency) /\ Cardinality(1 .. load.concurrency) = load.concurrency
  BY <1>1, FS_Interval, SMTT(30)
<1>3. Reading(i) \in SUBSET (1 .. load.concurrency) /\ ChargingOf(i) \in SUBSET (1 .. load.concurrency)
  BY <1>1 DEF ActorInv, Reading, ChargingOf, Threads
<1>4. IsFiniteSet(Reading(i)) /\ Cardinality(Reading(i)) <= load.concurrency
  BY <1>2, <1>3, FS_Subset
<1>5. IsFiniteSet(ChargingOf(i)) /\ Cardinality(ChargingOf(i)) <= load.concurrency
  BY <1>2, <1>3, FS_Subset, ZenonT(40)
<1> QED
  BY <1>4, <1>5, FS_CardinalityType

LEMMA OneMore ==
  ASSUME NEW S, NEW T, NEW x, IsFiniteSet(S), T = IF x \in T THEN S \cup {x} ELSE S \ {x}
  PROVE  Cardinality(T) = Cardinality(S) - (IF x \in S THEN 1 ELSE 0) + (IF x \in T THEN 1 ELSE 0)
<1>1. Cardinality(S) \in Nat
  BY FS_CardinalityType
<1>2. CASE x \in T
  <2>1. Cardinality(S \cup {x}) = IF x \in S THEN Cardinality(S) ELSE Cardinality(S) + 1
    BY FS_AddElement
  <2>2. T = S \cup {x}
    BY <1>2
  <2>3. Cardinality(T) = IF x \in S THEN Cardinality(S) ELSE Cardinality(S) + 1
    BY <2>1, <2>2
  <2> QED
    BY <1>1, <1>2, <2>3
<1>3. CASE x \notin T
  <2>1. Cardinality(S \ {x}) = IF x \in S THEN Cardinality(S) - 1 ELSE Cardinality(S)
    BY FS_RemoveElement
  <2>2. T = S \ {x}
    BY <1>3
  <2>3. Cardinality(T) = IF x \in S THEN Cardinality(S) - 1 ELSE Cardinality(S)
    BY <2>1, <2>2
  <2> QED
    BY <1>1, <1>3, <2>3
<1> QED
  BY <1>2, <1>3

\* One actor moves.
LEMMA OneMoves ==
  ASSUME load \in Loads, ActorInv, NEW a \in Actors, NEW i,
         \A t \in Threads : t # a => at'[t] = at[t] /\ who'[t] = who[t]
  PROVE  /\ Cardinality(Reading(i)') = Cardinality(Reading(i)) - (IF a \in Reading(i) THEN 1 ELSE 0)
                                                               + (IF a \in Reading(i)' THEN 1 ELSE 0)
         /\ Cardinality(ChargingOf(i)') = Cardinality(ChargingOf(i)) - (IF a \in ChargingOf(i) THEN 1 ELSE 0)
                                                                     + (IF a \in ChargingOf(i)' THEN 1 ELSE 0)
         /\ a \notin Reading(i) \/ a \in Reading(i)' => Reading(i) \subseteq Reading(i)'
<1>1. Reading(i)' = IF a \in Reading(i)' THEN Reading(i) \cup {a} ELSE Reading(i) \ {a}
  BY DEF Reading
<1>2. ChargingOf(i)' = IF a \in ChargingOf(i)' THEN ChargingOf(i) \cup {a} ELSE ChargingOf(i) \ {a}
  BY DEF ChargingOf
<1>3. IsFiniteSet(Reading(i)) /\ IsFiniteSet(ChargingOf(i))
  BY FewThreads
<1>6. Cardinality(Reading(i)') = Cardinality(Reading(i)) - (IF a \in Reading(i) THEN 1 ELSE 0)
                                                         + (IF a \in Reading(i)' THEN 1 ELSE 0)
  BY <1>1, <1>3, OneMore
<1>7. Cardinality(ChargingOf(i)') = Cardinality(ChargingOf(i)) - (IF a \in ChargingOf(i) THEN 1 ELSE 0)
                                                               + (IF a \in ChargingOf(i)' THEN 1 ELSE 0)
  BY <1>2, <1>3, OneMore
<1>8. a \notin Reading(i) \/ a \in Reading(i)' => Reading(i) \subseteq Reading(i)'
  BY <1>1
<1> QED
  BY <1>6, <1>7, <1>8

\* The estimate of a sender that nothing brings closer to its bound.
LEMMA EstimateStays ==
  ASSUME load \in Loads, ActorInv, NEW i \in Senders, EstimateOf(i), balance[i] \in Int,
         misreads \in Nat, misreads' \in Nat, misreads <= misreads',
         load' = load, balance'[i] = balance[i], i \in LiveSet' <=> i \in LiveSet,
         Cardinality(Reading(i)') \in Nat, Cardinality(ChargingOf(i)') \in Nat,
         Cardinality(Reading(i)) <= Cardinality(Reading(i)'), Reading(i) \subseteq Reading(i)',
         Cardinality(ChargingOf(i)') <= Cardinality(ChargingOf(i))
  PROVE  EstimateOf(i)'
<1>1. /\ Cardinality(Reading(i)) \in Nat /\ Cardinality(ChargingOf(i)) \in Nat
      /\ load.concurrency \in Nat /\ load.floor \in Nat
  BY FewThreads, LoadMore
<1>2. i \in LiveSet' => balance'[i] + Cardinality(Reading(i)') + misreads' >= 0
  BY <1>1 DEF EstimateOf
<1>3. i \notin LiveSet' => balance'[i] >= Cardinality(ChargingOf(i)') - load'.concurrency
  BY <1>1 DEF EstimateOf
<1>4. i \notin LiveSet' => balance'[i] < load'.floor
  BY DEF EstimateOf
<1>5. i \in LiveSet' /\ balance'[i] < load'.floor => misreads' > 0 \/ Reading(i)' # {}
  BY DEF EstimateOf
<1> QED
  BY <1>2, <1>3, <1>4, <1>5 DEF EstimateOf

-----------------------------------------------------------------------------
LEMMA RotationInit ==
  ASSUME load \in Loads, balance \in [Senders -> Int], live \in Solvent
  PROVE  OnceInv /\ \A i \in Senders : i \in LiveSet <=> balance[i] >= load.floor
<1> DEFINE S == {i \in Senders : balance[i] >= load.floor}
           n == Cardinality(S)
<1>1. S \in SUBSET Senders /\ \A i \in Senders : i \in S <=> balance[i] >= load.floor
  OBVIOUS
<1>2. live \in [1 .. n -> S] /\ \A h, k \in DOMAIN live : h < k => live[h] < live[k]
  BY DEF Solvent
<1> HIDE DEF S
<1>3. IsFiniteSet(S) /\ n \in Nat
  BY <1>1, DdosAssumption, FS_Subset, FS_CardinalityType
<1> HIDE DEF n
<1>4. \A h, k \in 1 .. n : h # k => live[h] # live[k]
  <2>1. \A k \in 1 .. n : live[k] \in Nat
    BY <1>1, <1>2, DdosAssumption
  <2> QED
    BY <1>2, <1>3, <2>1
<1>5. live \in Seq(Senders) /\ Len(live) = n
  <2>1. live \in [1 .. n -> Senders]
    BY <1>1, <1>2
  <2> QED
    BY <1>3, <2>1
<1>6. OnceInv
  BY <1>4, <1>5 DEF OnceInv
<1>7. live \in Surjection(1 .. n, S)
  <2>1. live \in Injection(1 .. n, S)
    BY <1>2, <1>4 DEF Injection, IsInjective
  <2>2. Cardinality(1 .. n) = n
    <3>1. 1 \in Int /\ n \in Int
      BY <1>3
    <3> QED
      BY <1>3, <3>1, FS_Interval
  <2> QED
    BY <1>3, <2>1, <2>2, FS_Injection DEF n
<1>8. LiveSet = S
  <2>1. LiveSet = {live[k] : k \in 1 .. n}
    BY <1>5, <1>6, Members
  <2>2. \A x \in S : \E k \in 1 .. n : live[k] = x
    BY <1>7 DEF Surjection
  <2>3. \A k \in 1 .. n : live[k] \in S
    BY <1>2
  <2> QED
    BY <2>1, <2>2, <2>3
<1> QED
  BY <1>1, <1>6, <1>8

LEMMA MoneyStep ==
  ASSUME load \in Loads, MoneyInv, ActorInv, [Next]_vars
  PROVE  MoneyInv'
<1>1. load.refunds \in Nat /\ load.misreads \in Nat /\ load.floor \in Nat
  BY LoadMore
<1>2. load' = load
  BY DEF Next, Loop, Task, Mine, Refund, Stop, Done, vars, chainVars, Dispatch, Pause, Metrics, NextDead,
       LeaveLoop, Leave, Fire, Charge, Read, Apply, Send, Finish
<1>3. CASE Mine
  <2>1. PICK i \in Senders : /\ pooled[i] > 0 /\ UNCHANGED <<stop, refunds, misreads>>
                             /\ pooled' = [pooled EXCEPT ![i] = pooled[i] - 1]
                             /\ funds' = [funds EXCEPT ![i] = funds[i] - 1]
    BY <1>3 DEF Mine
  <2>2. pooled[i] \in Nat /\ funds[i] \in Nat /\ pooled[i] <= funds[i]
    BY DEF MoneyInv
  <2>3. pooled[i] - 1 \in Nat /\ funds[i] - 1 \in Nat /\ pooled[i] - 1 <= funds[i] - 1
    BY <2>1, <2>2
  <2> QED
    BY <1>2, <2>1, <2>3 DEF MoneyInv
<1>4. CASE Refund
  <2>1. PICK i \in Senders : /\ refunds < load.refunds /\ refunds' = refunds + 1
                             /\ funds' = [funds EXCEPT ![i] = funds[i] + load.floor]
                             /\ UNCHANGED <<stop, pooled, misreads>>
    BY <1>4 DEF Refund
  <2>2. pooled[i] \in Nat /\ funds[i] \in Nat /\ pooled[i] <= funds[i]
    BY DEF MoneyInv
  <2>3. funds[i] + load.floor \in Nat /\ pooled[i] <= funds[i] + load.floor
    BY <1>1, <2>2
  <2>4. refunds' \in 0 .. load.refunds
    BY <1>1, <2>1 DEF MoneyInv
  <2> QED
    BY <1>2, <2>1, <2>3, <2>4 DEF MoneyInv
<1>5. CASE \E t \in Threads : Send(t)
  <2>1. PICK t \in Threads : Send(t)
    BY <1>5
  <2>2. who[t] \in Senders /\ UNCHANGED <<stop, funds, refunds, misreads>>
    BY <2>1, MainIsNoThread DEF Send, ActorInv
  <2>3. \/ pooled' = pooled
        \/ pooled[who[t]] < funds[who[t]] /\ pooled' = [pooled EXCEPT ![who[t]] = pooled[who[t]] + 1]
    BY <2>1 DEF Send
  <2>4. pooled[who[t]] \in Nat /\ funds[who[t]] \in Nat
    BY <2>2 DEF MoneyInv
  <2>5. pooled' \in [Senders -> Nat] /\ \A i \in Senders : pooled'[i] <= funds[i]
    BY <2>2, <2>3, <2>4 DEF MoneyInv
  <2> QED
    BY <1>2, <2>2, <2>5 DEF MoneyInv
<1>6. CASE \E a \in Actors : Read(a)
  <2>1. /\ UNCHANGED <<stop, funds, pooled, refunds>>
        /\ misreads' = misreads \/ (misreads < load.misreads /\ misreads' = misreads + 1)
    BY <1>6 DEF Read, chainVars
  <2>2. misreads' \in 0 .. load.misreads
    BY <1>1, <2>1 DEF MoneyInv
  <2> QED
    BY <1>2, <2>1, <2>2 DEF MoneyInv
<1>7. CASE \/ Stop \/ Done \/ UNCHANGED vars \/ Dispatch \/ Pause \/ Metrics \/ NextDead \/ LeaveLoop
           \/ Leave \/ (\E a \in Actors : Apply(a))
           \/ \E t \in Threads : Fire(t) \/ Charge(t) \/ Finish(t)
  <2>1. UNCHANGED <<funds, pooled, refunds, misreads>> /\ stop' \in {stop, TRUE}
    BY <1>7 DEF Stop, Done, vars, chainVars, Dispatch, Pause, Metrics, NextDead, LeaveLoop, Leave, Apply,
         Fire, Charge, Finish
  <2> QED
    BY <1>2, <2>1 DEF MoneyInv
<1> QED
  BY <1>3, <1>4, <1>5, <1>6, <1>7, MainIsNoThread DEF Next, Loop, Task

\* Where a step of one actor leaves it.
LEMMA ActorStep ==
  ASSUME ShapeInv, MoneyInv, ActorInv, OnceInv, [Next]_vars
  PROVE  ActorInv'
<1>1. /\ load \in Loads /\ at \in [Actors -> Places] /\ then \in [Actors -> {"tick", "send", "over"}]
      /\ who \in [Actors -> Senders \cup {NoOne}] /\ seen \in [Actors -> Nat]
      /\ todo \subseteq Senders /\ rr \in Nat
      /\ \A a \in Actors : at[a] \in {"charge", "read", "apply", "send"} => who[a] \in Senders
      /\ \A t \in Threads : at[t] # "idle" => t <= load.concurrency
      /\ Main \notin Threads /\ Threads \subseteq Actors /\ Main \in Actors
  BY MainIsNoThread DEF ShapeInv, ActorInv
<1>2. load' = load
  BY DEF Next, Loop, Task, Mine, Refund, Stop, Done, vars, chainVars, Dispatch, Pause, Metrics, NextDead,
       LeaveLoop, Leave, Fire, Charge, Read, Apply, Send, Finish
<1>3. CASE Mine \/ Refund \/ Stop \/ Done \/ UNCHANGED vars
  BY <1>1, <1>2, <1>3 DEF Mine, Refund, Stop, Done, vars, guardVars, placeVars, ActorInv
<1>4. CASE Dispatch \/ Pause \/ Metrics \/ LeaveLoop \/ Leave
  <2>1. /\ \E to \in {"pace", "tick", "metrics", "over", "drain", "done"} : at' = [at EXCEPT ![Main] = to]
        /\ UNCHANGED <<who, seen, rr>> /\ (todo' = todo \/ todo' \subseteq Senders)
    BY <1>4 DEF Dispatch, Pause, Metrics, LeaveLoop, Leave, guardVars, Dead
  <2> QED
    BY <1>1, <1>2, <2>1 DEF ActorInv
<1>5. CASE NextDead
  <2>1. /\ UNCHANGED <<seen, rr>> /\ todo' \subseteq todo
        /\ \/ at' = [at EXCEPT ![Main] = "tick"] /\ who' = [who EXCEPT ![Main] = NoOne]
           \/ \E i \in todo : at' = [at EXCEPT ![Main] = "read"] /\ who' = [who EXCEPT ![Main] = i]
    BY <1>5 DEF NextDead, guardVars
  <2>2. CASE at' = [at EXCEPT ![Main] = "tick"] /\ who' = [who EXCEPT ![Main] = NoOne]
    BY <1>1, <1>2, <2>1, <2>2 DEF ActorInv
  <2>3. CASE \E i \in todo : at' = [at EXCEPT ![Main] = "read"] /\ who' = [who EXCEPT ![Main] = i]
    BY <1>1, <1>2, <2>1, <2>3 DEF ActorInv
  <2> QED
    BY <2>1, <2>2, <2>3
<1>6. ASSUME NEW t \in Threads, Fire(t) PROVE ActorInv'
  <2>1. /\ t <= load.concurrency /\ UNCHANGED <<seen, todo>>
        /\ \/ at' = [at EXCEPT ![t] = "over"] /\ UNCHANGED <<who, rr>>
           \/ /\ live # <<>> /\ rr' = (rr + 1) % Len(live)
              /\ who' = [who EXCEPT ![t] = live[rr' + 1]] /\ at' = [at EXCEPT ![t] = "charge"]
    BY <1>6 DEF Fire
  <2>2. CASE at' = [at EXCEPT ![t] = "over"] /\ UNCHANGED <<who, rr>>
    BY <1>1, <1>2, <2>1, <2>2 DEF ActorInv
  <2>3. CASE live # <<>> /\ rr' = (rr + 1) % Len(live)
              /\ who' = [who EXCEPT ![t] = live[rr' + 1]] /\ at' = [at EXCEPT ![t] = "charge"]
    <3>1. live \in Seq(Senders) /\ Len(live) \in Nat /\ Len(live) # 0
      BY <2>3 DEF OnceInv
    <3>2. rr' \in 0 .. Len(live) - 1
      BY <1>1, <2>3, <3>1
    <3>3. live[rr' + 1] \in Senders
      BY <3>1, <3>2
    <3> QED
      BY <1>1, <1>2, <2>1, <2>3, <3>2, <3>3 DEF ActorInv
  <2> QED
    BY <2>1, <2>2, <2>3
<1>7. ASSUME NEW a \in Actors, Read(a) \/ Apply(a) \/ (a \in Threads /\ (Charge(a) \/ Send(a) \/ Finish(a)))
      PROVE  ActorInv'
  <2>1. /\ UNCHANGED <<rr, todo>> /\ at[a] \in {"charge", "read", "apply", "send", "over"}
        /\ at' = [at EXCEPT ![a] = at'[a]] /\ at'[a] \in Places
        /\ \/ who' = who /\ at[a] # "over"
           \/ who' = [who EXCEPT ![a] = NoOne] /\ at'[a] = "idle"
    BY <1>1, <1>7 DEF Read, Apply, Charge, Send, Finish, guardVars, Places
  <2>2. seen' \in [Actors -> Nat]
    <3>1. CASE Read(a)
      <4>1. funds[who[a]] \in Nat
        BY <1>1, <3>1 DEF Read, MoneyInv
      <4> QED
        BY <1>1, <3>1, <4>1 DEF Read
    <3>2. CASE Apply(a)
      BY <1>1, <3>2 DEF Apply
    <3>3. CASE Charge(a) \/ Send(a) \/ Finish(a)
      BY <1>1, <3>3 DEF Charge, Send, Finish
    <3> QED
      BY <1>7, <3>1, <3>2, <3>3
  <2>3. who' \in [Actors -> Senders \cup {NoOne}]
    BY <1>1, <2>1
  <2>4. \A b \in Actors : at'[b] \in {"charge", "read", "apply", "send"} => who'[b] \in Senders
    BY <1>1, <2>1
  <2>5. \A t \in Threads : at'[t] # "idle" => t <= load.concurrency
    BY <1>1, <2>1
  <2> QED
    BY <1>1, <1>2, <2>1, <2>2, <2>3, <2>4, <2>5 DEF ActorInv
<1> QED
  BY <1>1, <1>3, <1>4, <1>5, <1>6, <1>7 DEF Next, Loop, Task

LEMMA OnceStep ==
  ASSUME ShapeInv, ActorInv, OnceInv, [Next]_vars
  PROVE  OnceInv'
<1>1. load.floor \in Nat
  BY LoadMore DEF ShapeInv
<1>2. CASE UNCHANGED live
  BY <1>2 DEF OnceInv
<1>3. ASSUME NEW a \in Actors, Apply(a) PROVE OnceInv'
  <2>1. who[a] \in Senders /\ seen[a] \in Nat /\ live' = Rotation(who[a], seen[a])
    BY <1>3 DEF Apply, ActorInv
  <2> QED
    BY <1>1, <2>1, RotationOnce
<1>4. (\E a \in Actors : Apply(a)) \/ UNCHANGED live
  BY MainIsNoThread DEF Next, Loop, Task, Mine, Refund, Stop, Done, vars, guardVars, Dispatch, Pause, Metrics, NextDead,
       LeaveLoop, Leave, Fire, Charge, Read, Send, Finish
<1> QED
  BY <1>2, <1>3, <1>4

LEMMA FewThen ==
  ASSUME load \in Loads, load' = load, ActorInv', NEW i
  PROVE  /\ Cardinality(Reading(i)') \in Nat /\ Cardinality(ChargingOf(i)') \in Nat
         /\ Cardinality(ChargingOf(i)') <= load.concurrency
<1>1. load.concurrency \in Nat /\ 1 \in Int /\ load.concurrency \in Int /\ load.concurrency >= 1
  BY LoadMore
<1>2. IsFiniteSet(1 .. load.concurrency) /\ Cardinality(1 .. load.concurrency) = load.concurrency
  BY <1>1, FS_Interval, SMTT(30)
<1>3. Reading(i)' \in SUBSET (1 .. load.concurrency) /\ ChargingOf(i)' \in SUBSET (1 .. load.concurrency)
  BY <1>1 DEF ActorInv, Reading, ChargingOf, Threads
<1>4. IsFiniteSet(Reading(i)')
  BY <1>2, <1>3, FS_Subset
<1>5. IsFiniteSet(ChargingOf(i)') /\ Cardinality(ChargingOf(i)') <= load.concurrency
  BY <1>2, <1>3, FS_Subset, ZenonT(40)
<1> QED
  BY <1>4, <1>5, FS_CardinalityType

\* A step of actor a that leaves i's estimate and place alone.
LEMMA EstimateApart ==
  ASSUME load \in Loads, load' = load, ActorInv, ActorInv', NEW i \in Senders, EstimateOf(i), balance[i] \in Int,
         misreads \in Nat, misreads' \in Nat, misreads <= misreads',
         balance'[i] = balance[i], i \in LiveSet' <=> i \in LiveSet,
         NEW a \in Actors, \A t \in Threads : t # a => at'[t] = at[t] /\ who'[t] = who[t],
         a \in Reading(i) => a \in Reading(i)', a \in ChargingOf(i)' => a \in ChargingOf(i)
  PROVE  EstimateOf(i)'
<1>1. /\ Cardinality(Reading(i)') = Cardinality(Reading(i)) - (IF a \in Reading(i) THEN 1 ELSE 0)
                                                            + (IF a \in Reading(i)' THEN 1 ELSE 0)
      /\ Cardinality(ChargingOf(i)') = Cardinality(ChargingOf(i)) - (IF a \in ChargingOf(i) THEN 1 ELSE 0)
                                                                  + (IF a \in ChargingOf(i)' THEN 1 ELSE 0)
      /\ Reading(i) \subseteq Reading(i)'
  BY OneMoves
<1>2. /\ Cardinality(Reading(i)) \in Nat /\ Cardinality(ChargingOf(i)) \in Nat
      /\ Cardinality(Reading(i)') \in Nat /\ Cardinality(ChargingOf(i)') \in Nat
  BY FewThreads, FewThen
<1>3. Cardinality(Reading(i)) <= Cardinality(Reading(i)') /\ Cardinality(ChargingOf(i)') <= Cardinality(ChargingOf(i))
  BY <1>1, <1>2
<1> QED
  BY <1>1, <1>2, <1>3, EstimateStays

\* The estimate of the sender whose balance is written.
LEMMA EstimateWritten ==
  ASSUME load \in Loads, load' = load, ActorInv', MoneyInv, OnceInv, NEW i \in Senders,
         misreads' = misreads, NEW b \in Nat,
         balance'[i] = b, live' = Rotation(i, b)
  PROVE  EstimateOf(i)'
<1>1. /\ Cardinality(Reading(i)') \in Nat /\ Cardinality(ChargingOf(i)') \in Nat
      /\ Cardinality(ChargingOf(i)') <= load.concurrency
      /\ load.floor \in Nat \ {0} /\ load.concurrency \in Nat /\ load.misreads \in Nat
  BY FewThen, LoadMore
<1>2. misreads' \in Nat
  BY <1>1 DEF MoneyInv
<1>3. i \in LiveSet' <=> b >= load.floor
  BY <1>1, RotationOnce
<1>4. i \in LiveSet' => balance'[i] + Cardinality(Reading(i)') + misreads' >= 0
  BY <1>1, <1>2, <1>3
<1>5. i \notin LiveSet' => balance'[i] >= Cardinality(ChargingOf(i)') - load'.concurrency
  BY <1>1
<1>6. i \notin LiveSet' => balance'[i] < load'.floor
  BY <1>1, <1>3
<1>7. i \in LiveSet' /\ balance'[i] < load'.floor => misreads' > 0 \/ Reading(i)' # {}
  BY <1>1, <1>3
<1> QED
  BY <1>4, <1>5, <1>6, <1>7 DEF EstimateOf

\* ... of the sender that is charged.
LEMMA EstimateCharged ==
  ASSUME load \in Loads, ActorInv, ActorInv', MoneyInv, EstimateInv,
         at \in [Actors -> Places], NEW t \in Threads, Charge(t),
         NEW i \in Senders, i = who[t]
  PROVE  EstimateOf(i)'
<1> DEFINE low == balance[i] - 1 < load.floor /\ i \in LiveSet
<1>1. /\ t \in Actors /\ load.floor \in Nat \ {0} /\ load.concurrency \in Nat
      /\ balance \in [Senders -> Int] /\ EstimateOf(i) /\ misreads \in Nat
  BY MainIsNoThread, LoadMore DEF Charge, ActorInv, EstimateInv, MoneyInv
<1>2. /\ load' = load /\ misreads' = misreads /\ live' = live /\ who' = who
      /\ at[t] = "charge" /\ at' = [at EXCEPT ![t] = IF low THEN "read" ELSE "send"]
      /\ balance'[i] = balance[i] - 1
  BY <1>1 DEF Charge, chainVars
<1> HIDE DEF low
<1>3. /\ t \in ChargingOf(i) /\ t \notin ChargingOf(i)' /\ t \notin Reading(i)
      /\ t \in Reading(i)' <=> low
  BY <1>1, <1>2 DEF ChargingOf, Reading
<1>4. /\ Cardinality(Reading(i)') = Cardinality(Reading(i)) - (IF t \in Reading(i) THEN 1 ELSE 0)
                                                            + (IF t \in Reading(i)' THEN 1 ELSE 0)
      /\ Cardinality(ChargingOf(i)') = Cardinality(ChargingOf(i)) - (IF t \in ChargingOf(i) THEN 1 ELSE 0)
                                                                  + (IF t \in ChargingOf(i)' THEN 1 ELSE 0)
      /\ t \notin Reading(i) \/ t \in Reading(i)' => Reading(i) \subseteq Reading(i)'
  <2>1. \A u \in Threads : u # t => at'[u] = at[u] /\ who'[u] = who[u]
    BY <1>2
  <2> QED
    BY <1>1, <2>1, OneMoves
<1>5. /\ Cardinality(Reading(i)) \in Nat /\ Cardinality(ChargingOf(i)) \in Nat
      /\ Cardinality(Reading(i)') \in Nat
      /\ Cardinality(Reading(i)') = Cardinality(Reading(i)) + (IF low THEN 1 ELSE 0)
      /\ Cardinality(ChargingOf(i)') = Cardinality(ChargingOf(i)) - 1
  <2>1. Cardinality(Reading(i)) \in Nat /\ Cardinality(ChargingOf(i)) \in Nat /\ Cardinality(Reading(i)') \in Nat
    BY <1>2, FewThreads, FewThen
  <2> QED
    BY <1>3, <1>4, <2>1
<1>6. LiveSet' = LiveSet
  BY <1>2 DEF LiveSet
<1>7. balance[i] \in Int /\ (low <=> balance[i] - 1 < load.floor /\ i \in LiveSet)
  BY <1>1 DEF low
<1>8. i \in LiveSet' => balance'[i] + Cardinality(Reading(i)') + misreads' >= 0
  <2>1. CASE low
    BY <1>1, <1>2, <1>5, <1>6, <2>1 DEF EstimateOf
  <2>2. CASE ~low
    BY <1>1, <1>2, <1>5, <1>6, <1>7, <2>2
  <2> QED
    BY <2>1, <2>2
<1>9. i \notin LiveSet' => balance'[i] >= Cardinality(ChargingOf(i)') - load'.concurrency
  BY <1>1, <1>2, <1>5, <1>6, <1>7 DEF EstimateOf
<1>10. i \notin LiveSet' => balance'[i] < load'.floor
  BY <1>1, <1>2, <1>6, <1>7 DEF EstimateOf
<1>11. i \in LiveSet' /\ balance'[i] < load'.floor => misreads' > 0 \/ Reading(i)' # {}
  BY <1>2, <1>3, <1>6, <1>7
<1> QED
  BY <1>8, <1>9, <1>10, <1>11 DEF EstimateOf

\* ... and of the sender whose read failed.
LEMMA EstimateMissed ==
  ASSUME load \in Loads, load' = load, ActorInv, ActorInv', NEW i \in Senders, EstimateOf(i), balance[i] \in Int,
         misreads \in Nat, misreads' = misreads + 1, UNCHANGED <<balance, live>>,
         NEW a \in Actors, \A t \in Threads : t # a => at'[t] = at[t] /\ who'[t] = who[t],
         a \notin ChargingOf(i)'
  PROVE  EstimateOf(i)'
<1>1. /\ Cardinality(Reading(i)') = Cardinality(Reading(i)) - (IF a \in Reading(i) THEN 1 ELSE 0)
                                                            + (IF a \in Reading(i)' THEN 1 ELSE 0)
      /\ Cardinality(ChargingOf(i)') = Cardinality(ChargingOf(i)) - (IF a \in ChargingOf(i) THEN 1 ELSE 0)
                                                                  + (IF a \in ChargingOf(i)' THEN 1 ELSE 0)
  BY OneMoves
<1>2. /\ Cardinality(Reading(i)) \in Nat /\ Cardinality(ChargingOf(i)) \in Nat
      /\ Cardinality(Reading(i)') \in Nat /\ Cardinality(ChargingOf(i)') \in Nat
      /\ load.concurrency \in Nat /\ load.floor \in Nat
  BY FewThreads, FewThen, LoadMore
<1>3. /\ Cardinality(Reading(i)') >= Cardinality(Reading(i)) - 1
      /\ Cardinality(ChargingOf(i)') <= Cardinality(ChargingOf(i))
  BY <1>1, <1>2
<1>4. LiveSet' = LiveSet
  BY DEF LiveSet
<1>5. i \in LiveSet' => balance'[i] + Cardinality(Reading(i)') + misreads' >= 0
  BY <1>2, <1>3, <1>4 DEF EstimateOf
<1>6. i \notin LiveSet' => balance'[i] >= Cardinality(ChargingOf(i)') - load'.concurrency
  BY <1>2, <1>3, <1>4 DEF EstimateOf
<1>7. (i \notin LiveSet' => balance'[i] < load'.floor) /\ misreads' > 0
  BY <1>4 DEF EstimateOf
<1> QED
  BY <1>5, <1>6, <1>7 DEF EstimateOf

LEMMA EstimateStep ==
  ASSUME ShapeInv, MoneyInv, ActorInv, OnceInv, EstimateInv, ActorInv', MoneyInv', load' = load, [Next]_vars
  PROVE  EstimateInv'
<1>1. /\ load \in Loads /\ at \in [Actors -> Places] /\ who \in [Actors -> Senders \cup {NoOne}]
      /\ then \in [Actors -> {"tick", "send", "over"}]
      /\ balance \in [Senders -> Int] /\ \A i \in Senders : EstimateOf(i) /\ balance[i] \in Int
      /\ \A a \in Actors : at[a] \in {"charge", "read", "apply", "send"} => who[a] \in Senders
      /\ \A a \in Actors : at[a] \in {"read", "apply"} => seen[a] \in Nat
      /\ misreads \in Nat /\ misreads' \in Nat
      /\ Main \notin Threads /\ Threads \subseteq Actors /\ Main \in Actors
  BY MainIsNoThread, LoadMore DEF ShapeInv, ActorInv, EstimateInv, MoneyInv
<1>2. CASE Mine \/ Refund \/ Stop \/ Done \/ UNCHANGED vars \/ Dispatch \/ Pause \/ Metrics \/ NextDead
           \/ LeaveLoop \/ Leave \/ Read(Main)
  <2>1. /\ UNCHANGED <<balance, live>> /\ misreads <= misreads'
        /\ \A t \in Threads : at'[t] = at[t] /\ who'[t] = who[t]
    BY <1>1, <1>2 DEF Mine, Refund, Stop, Done, vars, guardVars, placeVars, Dispatch, Pause, Metrics, NextDead, LeaveLoop,
                      Leave, Read
  <2>2. ASSUME NEW i \in Senders PROVE EstimateOf(i)'
    <3>1. Reading(i)' = Reading(i) /\ ChargingOf(i)' = ChargingOf(i) /\ LiveSet' = LiveSet /\ balance'[i] = balance[i]
      BY <2>1 DEF Reading, ChargingOf, LiveSet
    <3>2. Cardinality(Reading(i)) \in Nat /\ Cardinality(ChargingOf(i)) \in Nat
      BY <1>1, FewThreads
    <3> QED
      BY <1>1, <2>1, <3>1, <3>2, EstimateStays
  <2> QED
    BY <1>1, <2>1, <2>2 DEF EstimateInv
<1>3. ASSUME NEW a \in Actors, Apply(a) PROVE EstimateInv'
  <2>1. /\ at[a] = "apply" /\ who[a] \in Senders /\ seen[a] \in Nat
        /\ balance' = [balance EXCEPT ![who[a]] = seen[a]] /\ live' = Rotation(who[a], seen[a])
        /\ at' = [at EXCEPT ![a] = then[a]] /\ who' = who /\ misreads' = misreads
        /\ then[a] \in {"tick", "send", "over"}
    BY <1>1, <1>3 DEF Apply
  <2>2. ASSUME NEW i \in Senders PROVE EstimateOf(i)'
    <3>1. CASE i = who[a]
      <4>1. PICK b \in Nat : b = seen[a] /\ balance'[i] = b /\ live' = Rotation(i, b)
        BY <1>1, <2>1, <3>1
      <4> QED
        BY <1>1, <2>1, <4>1, EstimateWritten
    <3>2. CASE i # who[a]
      <4>1. balance'[i] = balance[i] /\ a \notin Reading(i) /\ a \notin ChargingOf(i)'
        BY <1>1, <2>1, <3>2 DEF Reading, ChargingOf
      <4>2. i \in LiveSet' <=> i \in LiveSet
        <5>1. load.floor \in Nat
          BY <1>1, LoadMore
        <5>2. LiveSet' = IF seen[a] >= load.floor THEN LiveSet \cup {who[a]} ELSE LiveSet \ {who[a]}
          BY <2>1, <5>1, RotationOnce
        <5> QED
          BY <3>2, <5>2
      <4>3. \A t \in Threads : t # a => at'[t] = at[t] /\ who'[t] = who[t]
        BY <1>1, <2>1
      <4> QED
        BY <1>1, <2>1, <4>1, <4>2, <4>3, EstimateApart
    <3> QED
      BY <3>1, <3>2
  <2>3. balance' \in [Senders -> Int]
    BY <1>1, <2>1
  <2> QED
    BY <2>2, <2>3 DEF EstimateInv
<1>4. ASSUME NEW t \in Threads, Charge(t) PROVE EstimateInv'
  <2>1. /\ at[t] = "charge" /\ who[t] \in Senders /\ UNCHANGED <<live, who, misreads>>
        /\ balance' = [balance EXCEPT ![who[t]] = balance[who[t]] - 1]
        /\ \A u \in Threads : u # t => at'[u] = at[u] /\ who'[u] = who[u]
        /\ balance[who[t]] - 1 \in Int
    BY <1>1, <1>4 DEF Charge
  <2>2. ASSUME NEW i \in Senders PROVE EstimateOf(i)'
    <3>1. CASE i = who[t]
      BY <1>1, <1>4, <3>1, EstimateCharged
    <3>2. CASE i # who[t]
      <4>1. /\ balance'[i] = balance[i] /\ t \notin Reading(i) /\ t \notin ChargingOf(i)'
            /\ LiveSet' = LiveSet /\ t \in Actors
        BY <1>1, <2>1, <3>2 DEF Reading, ChargingOf, LiveSet
      <4> QED
        BY <1>1, <2>1, <4>1, EstimateApart
    <3> QED
      BY <3>1, <3>2
  <2>3. balance' \in [Senders -> Int]
    BY <1>1, <2>1
  <2> QED
    BY <2>2, <2>3 DEF EstimateInv
<1>5. ASSUME NEW t \in Threads, Read(t) \/ Send(t) \/ Finish(t) PROVE EstimateInv'
  <2>1. /\ UNCHANGED <<balance, live>> /\ at[t] \in {"read", "send", "over"}
        /\ at'[t] \in Places \ {"charge"}
        /\ \A u \in Threads : u # t => at'[u] = at[u] /\ who'[u] = who[u]
        /\ \/ at[t] # "read" /\ misreads' = misreads
           \/ at[t] = "read" /\ at'[t] = "apply" /\ who' = who /\ misreads' = misreads
           \/ at[t] = "read" /\ misreads' = misreads + 1
    BY <1>1, <1>5 DEF Read, Send, Finish, guardVars, Places
  <2>2. ASSUME NEW i \in Senders PROVE EstimateOf(i)'
    <3>1. t \notin ChargingOf(i)' /\ LiveSet' = LiveSet /\ balance'[i] = balance[i] /\ t \in Actors
      BY <1>1, <2>1 DEF ChargingOf, LiveSet
    <3>2. CASE misreads' = misreads + 1
      BY <1>1, <2>1, <3>1, <3>2, EstimateMissed
    <3>3. CASE misreads' = misreads
      <4>1. t \in Reading(i) => t \in Reading(i)'
        BY <1>1, <2>1, <3>3 DEF Reading
      <4> QED
        BY <1>1, <2>1, <3>1, <3>3, <4>1, EstimateApart
    <3> QED
      BY <2>1, <3>2, <3>3
  <2> QED
    BY <1>1, <2>1, <2>2 DEF EstimateInv
<1>6. ASSUME NEW t \in Threads, Fire(t) PROVE EstimateInv'
  <2>1. /\ UNCHANGED <<balance, live, misreads>> /\ at[t] = "idle"
        /\ \A u \in Threads : u # t => at'[u] = at[u] /\ who'[u] = who[u]
        /\ at'[t] = "over" \/ (at'[t] = "charge" /\ who'[t] \in LiveSet)
    <3>1. /\ UNCHANGED <<balance, live, misreads>> /\ at[t] = "idle"
          /\ \A u \in Threads : u # t => at'[u] = at[u] /\ who'[u] = who[u]
          /\ \/ at'[t] = "over"
             \/ /\ at'[t] = "charge" /\ live # <<>> /\ rr' = (rr + 1) % Len(live)
                /\ who'[t] = live[rr' + 1]
      BY <1>1, <1>6 DEF Fire
    <3>2. ASSUME live # <<>>, rr' = (rr + 1) % Len(live) PROVE live[rr' + 1] \in LiveSet
      <4>1. Len(live) \in Nat \ {0} /\ rr \in Nat
        BY <3>2 DEF OnceInv, ActorInv
      <4>2. rr' + 1 \in 1 .. Len(live)
        BY <3>2, <4>1
      <4> QED
        BY <4>2, Members
    <3> QED
      BY <3>1, <3>2
  <2>2. ASSUME NEW i \in Senders PROVE EstimateOf(i)'
    <3>1. LiveSet' = LiveSet /\ balance'[i] = balance[i] /\ t \in Actors /\ t \notin Reading(i) /\ t \notin Reading(i)'
      BY <1>1, <2>1 DEF LiveSet, Reading
    <3>2. CASE i \notin LiveSet
      <4>1. t \notin ChargingOf(i)'
        BY <2>1, <3>2 DEF ChargingOf
      <4> QED
        BY <1>1, <2>1, <3>1, <4>1, EstimateApart
    <3>3. CASE i \in LiveSet
      <4>1. Reading(i)' = Reading(i)
        BY <2>1, <3>1 DEF Reading
      <4> QED
        BY <2>1, <3>1, <3>3, <4>1, <1>1 DEF EstimateOf
    <3> QED
      BY <3>2, <3>3
  <2> QED
    BY <1>1, <2>1, <2>2 DEF EstimateInv
<1> QED
  BY <1>1, <1>2, <1>3, <1>4, <1>5, <1>6 DEF Next, Loop, Task

-----------------------------------------------------------------------------
\* The bucket is no deeper than the burst, and the pool no larger than twice the
\* concurrency.
LimitInv == tokens \in 0 .. load.burst * Units /\ inflight <= MaxInflight

ShelfInv == AccountIInv /\ MoneyInv /\ ActorInv /\ OnceInv /\ EstimateInv /\ LimitInv

LEMMA ShelfInit == Init => ShelfInv
<1> SUFFICES ASSUME Init PROVE ShelfInv
  OBVIOUS
<1>1. /\ load \in Loads /\ load.floor \in Nat \ {0} /\ load.refunds \in Nat /\ load.misreads \in Nat
      /\ load.concurrency \in Nat \ {0} /\ load.funds \in [Senders -> Nat]
      /\ load.burst * Units \in Nat /\ MaxInflight \in Nat
  BY LoadMore, LoadFacts DEF Init
<1>2. AccountIInv
  BY IInvInit
<1>3. MoneyInv
  <2>1. funds \in [Senders -> Nat] /\ pooled \in [Senders -> Nat] /\ \A i \in Senders : pooled[i] = 0
    BY <1>1 DEF Init
  <2>2. \A i \in Senders : pooled[i] <= funds[i]
    BY <2>1
  <2> QED
    <3>1. refunds = 0 /\ misreads = 0
      BY DEF Init
    <3>2. refunds \in 0 .. load.refunds /\ misreads \in 0 .. load.misreads
      BY <1>1, <3>1
    <3>3. stop \in BOOLEAN
      BY DEF Init
    <3> QED
      BY <2>1, <2>2, <3>2, <3>3 DEF MoneyInv
<1>4. ActorInv
  BY <1>1, MainIsNoThread DEF Init, ActorInv
<1>5. balance \in [Senders -> Nat] /\ live \in Solvent
  BY <1>1 DEF Init
<1>6. OnceInv /\ \A i \in Senders : i \in LiveSet <=> balance[i] >= load.floor
  <2>1. balance \in [Senders -> Int]
    BY <1>5
  <2> QED
    BY <1>1, <1>5, <2>1, RotationInit
<1>7. ASSUME NEW i \in Senders PROVE EstimateOf(i)
  <2>1. Reading(i) = {} /\ ChargingOf(i) = {}
    BY MainIsNoThread DEF Init, Reading, ChargingOf
  <2>2. Cardinality(Reading(i)) = 0 /\ Cardinality(ChargingOf(i)) = 0
    BY <2>1, FS_EmptySet
  <2>3. misreads = 0 /\ balance[i] \in Nat
    BY <1>5 DEF Init
  <2> QED
    BY <1>1, <1>6, <2>2, <2>3 DEF EstimateOf
<1>8. EstimateInv
  BY <1>5, <1>7 DEF EstimateInv
<1>9. LimitInv
  BY <1>1 DEF Init, LimitInv
<1> QED
  BY <1>2, <1>3, <1>4, <1>6, <1>8, <1>9 DEF ShelfInv

LEMMA LimitStep ==
  ASSUME AccountIInv, AccountIInv', LimitInv, [Next]_vars, load' = load
  PROVE  LimitInv'
<1>1. /\ load.units \in Nat \ {0} /\ load.burst * Units \in Nat /\ MaxInflight \in Nat
      /\ Units' = Units /\ MaxInflight' = MaxInflight /\ inflight \in Int /\ tokens' \in Nat
  BY LoadFacts DEF AccountIInv, ShapeInv, BucketInv, Units, MaxInflight
<1>2. CASE UNCHANGED tokens /\ (inflight' = inflight \/ inflight' = inflight - 1)
  BY <1>1, <1>2 DEF LimitInv
<1>3. CASE MaxInflight - inflight > 0 /\ tokens' = Accrued - Takeable(MaxInflight - inflight) * Units
           /\ inflight' = inflight + Takeable(MaxInflight - inflight)
  <2> DEFINE n == Takeable(MaxInflight - inflight)
  <2>1. tokens \in Nat /\ since * rate \in Nat
    <3>1. tokens \in Nat /\ since \in Nat /\ rate \in Nat
      BY LoadFacts DEF AccountIInv, ShapeInv, BucketInv
    <3>2. \A x, y \in Nat : x * y \in Nat
      OBVIOUS
    <3> QED
      BY <3>1, <3>2
  <2>2. Accrued \in Nat /\ Accrued <= load.burst * Units
    BY <1>1, <2>1 DEF Accrued, SmallerOf
  <2>3. Units \in Nat \ {0}
    BY <1>1 DEF Units
  <2>4. Accrued \div Units \in Nat
    BY <2>2, <2>3
  <2>5. n \in Nat /\ n <= MaxInflight - inflight
    BY <1>1, <1>3, <2>4 DEF Takeable, SmallerOf
  <2>6. n * Units \in Nat
    <3>1. \A x, y \in Nat : x * y \in Nat
      OBVIOUS
    <3> QED
      BY <2>3, <2>5, <3>1
  <2> HIDE DEF n
  <2>7. tokens' = Accrued - n * Units /\ inflight' = inflight + n
    BY <1>3 DEF n
  <2>8. tokens' <= load.burst * Units /\ inflight' <= MaxInflight
    BY <1>1, <2>2, <2>5, <2>6, <2>7
  <2> QED
    BY <1>1, <2>8 DEF LimitInv
<1>4. \/ UNCHANGED tokens /\ (inflight' = inflight \/ inflight' = inflight - 1)
      \/ /\ MaxInflight - inflight > 0 /\ tokens' = Accrued - Takeable(MaxInflight - inflight) * Units
         /\ inflight' = inflight + Takeable(MaxInflight - inflight)
  <2>1. CASE Dispatch
    BY <2>1 DEF Dispatch
  <2>2. CASE ~Dispatch
    BY <2>2 DEF Next, Loop, Task, Mine, Refund, Stop, Done, vars, bucketVars, Pause, Metrics, NextDead,
       LeaveLoop, Leave, Fire, Charge, Read, Apply, Send, Finish
  <2> QED
    BY <2>1, <2>2
<1> QED
  BY <1>2, <1>3, <1>4

LEMMA ShelfStep == ShelfInv /\ [Next]_vars => ShelfInv'
<1> SUFFICES ASSUME ShelfInv, [Next]_vars PROVE ShelfInv'
  OBVIOUS
<1>1. AccountIInv /\ ShapeInv /\ MoneyInv /\ ActorInv /\ OnceInv /\ EstimateInv /\ LimitInv /\ load \in Loads
  BY DEF ShelfInv, AccountIInv, ShapeInv
<1>2. load' = load
  BY DEF Next, Loop, Task, Mine, Refund, Stop, Done, vars, chainVars, Dispatch, Pause, Metrics, NextDead,
       LeaveLoop, Leave, Fire, Charge, Read, Apply, Send, Finish
<1>3. AccountIInv'
  BY <1>1, AccountStep
<1>4. MoneyInv' /\ ActorInv' /\ OnceInv'
  BY <1>1, MoneyStep, ActorStep, OnceStep
<1>5. EstimateInv'
  BY <1>1, <1>2, <1>4, EstimateStep
<1>6. LimitInv'
  BY <1>1, <1>2, <1>3, LimitStep
<1> QED
  BY <1>3, <1>4, <1>5, <1>6 DEF ShelfInv

LEMMA ShelfKept == Spec => []ShelfInv
BY ShelfInit, ShelfStep, PTL DEF Spec

(***************************************************************************)
(* Ddos!TypeOK, among it: a sender stands in the rotation once at most,    *)
(* though two tasks may read it at the same time; never more tasks in      *)
(* flight than twice the concurrency; and an estimate is overdrawn by no   *)
(* more than the tasks that may debit it and the reads that fail.          *)
(***************************************************************************)
THEOREM TypeCorrect == Spec => []TypeOK
<1>1. ShelfInv => TypeOK
  <2> SUFFICES ASSUME ShelfInv PROVE TypeOK
    OBVIOUS
  <2>1. /\ AccountIInv /\ ShapeInv /\ BucketInv /\ SlotsExact /\ MoneyInv /\ ActorInv /\ OnceInv /\ EstimateInv
        /\ LimitInv /\ load \in Loads
    BY DEF ShelfInv, AccountIInv, ShapeInv
  <2>2. /\ load.concurrency \in Nat \ {0} /\ load.misreads \in Nat /\ load.floor \in Nat
        /\ MaxInflight \in Nat /\ MaxInflight = 2 * load.concurrency
    BY <2>1, LoadMore, LoadFacts DEF MaxInflight
  <2>3. /\ tokens \in 0 .. load.burst * Units /\ since \in Nat /\ rate \in 1 .. load.rateMax /\ level \in Nat
    BY <2>1 DEF BucketInv, LimitInv
  <2>4. inflight \in 0 .. MaxInflight /\ queued \in 0 .. MaxInflight /\ spent \in Nat
    <3>1. inflight = queued + Cardinality(Busy) /\ Cardinality(Busy) \in Nat /\ queued \in Nat /\ spent \in Nat
      BY <2>1, Finite DEF SlotsExact, Busy, ShapeInv
    <3>2. inflight <= MaxInflight
      BY <2>1 DEF LimitInv
    <3> QED
      BY <2>2, <3>1, <3>2
  <2>5. balance \in [Senders -> Int] /\ \A i \in Senders : balance[i] > Deepest
    <3>1. ASSUME NEW i \in Senders PROVE balance[i] > Deepest
      <4>1. /\ balance[i] \in Int /\ EstimateOf(i) /\ misreads \in 0 .. load.misreads
        BY <2>1 DEF EstimateInv, MoneyInv
      <4>2. /\ Cardinality(Reading(i)) \in Nat /\ Cardinality(ChargingOf(i)) \in Nat
            /\ Cardinality(Reading(i)) <= load.concurrency
        BY <2>1, FewThreads
      <4>3. CASE i \in LiveSet
        BY <2>2, <4>1, <4>2, <4>3 DEF EstimateOf, Deepest
      <4>4. CASE i \notin LiveSet
        BY <2>2, <4>1, <4>2, <4>4 DEF EstimateOf, Deepest
      <4> QED
        BY <4>3, <4>4
    <3> QED
      BY <2>1, <3>1 DEF EstimateInv
  <2>6. live \in Seq(Senders) /\ Len(live) = Cardinality(LiveSet) /\ rr \in Nat
    BY <2>1, LiveCount DEF OnceInv, ActorInv
  <2>7. at \in [Actors -> {"tick", "pace", "metrics", "charge", "read", "apply", "send", "over",
                          "idle", "drain", "done"}]
        /\ then \in [Actors -> {"tick", "send", "over"}]
    BY <2>1 DEF ShapeInv, Places
  <2>8. who \in [Actors -> Senders \union {NoOne}] /\ seen \in [Actors -> Nat] /\ todo \subseteq Senders
    BY <2>1 DEF ActorInv
  <2> QED
    BY <2>1, <2>3, <2>4, <2>5, <2>6, <2>7, <2>8 DEF TypeOK, MoneyInv
<1> QED
  BY <1>1, ShelfKept, PTL

(***************************************************************************)
(* "An account whose balance drops below a floor stops being allocated     *)
(* work" (ddos.py:15-18, 278-298), however debits and stale reads of one   *)
(* sender overlap: only a sender estimated below the floor is out of the   *)
(* rotation, and one that is in it all the same is being read by a task,   *)
(* unless a read has failed.                                               *)
(***************************************************************************)
RotationByEstimate == \A i \in Senders :
    /\ i \notin LiveSet => balance[i] < load.floor
    /\ i \in LiveSet /\ balance[i] < load.floor /\ misreads = 0 => Reading(i) # {}

THEOREM RotationCorrect == Spec => []RotationByEstimate
<1>1. ShelfInv => RotationByEstimate
  BY DEF ShelfInv, EstimateInv, EstimateOf, RotationByEstimate
<1> QED
  BY <1>1, ShelfKept, PTL
=============================================================================
