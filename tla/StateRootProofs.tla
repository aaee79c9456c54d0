--------------------------- MODULE StateRootProofs ---------------------------
(***************************************************************************)
(* The verdicts of StateRoot for every length of the attack and the        *)
(* cooldown, every threshold and every number of threads.  HealthyOnly is  *)
(* inductive once it says where the verdict is formed; SpanHonest and      *)
(* NoRecoveryReal rest on what the samples that failed can have hidden:    *)
(* a batch lands unseen only while misses are counted, so its age stays    *)
(* below their number, and below the threshold until the round is blind.   *)
(***************************************************************************)
EXTENDS StateRoot, TLAPS

Verdicts == {"confirmed", "partial", "no_recovery"}

\* The verdict is formed after the writes were seen to last.
HealthyInv ==
    /\ starved = flood_died
    /\ pc = "recover" \/ verdict \in Verdicts => ~flood_died
    /\ verdict # "none" => pc \in {"sleep", "end"}

\* Until the round is blind, few samples have failed since the last one read.
SeeingInv ==
    ~blind /\ pc \in {"sample", "join", "classify", "recover"} => misses <= Threshold

\* While a span is counted the chain has stalled for longer than it, unless a
\* batch has landed under the samples that failed last.
SpanInv == "skip" \notin trouble /\ ~blind =>
    /\ block_span <= over
    /\ pc \in {"prepare", "idle"} => span_start = None
    /\ span_start # None /\ pc = "sample" =>
         \/ age = MaxAge
         \/ age - Threshold > t - span_start
         \/ age < misses

\* A batch that has landed since the release is hidden by the samples that failed since.
RecoverInv == "skip" \notin trouble /\ ~blind /\ ~stop =>
    /\ pc = "classify" => ~landed
    /\ pc = "recover" => ~landed /\ (age < t => age <= misses \/ age = MaxAge)
    /\ verdict = "no_recovery" => ~landed
    /\ verdict # "none" => pc \in {"sleep", "end"}

LEMMA Numbers ==
  /\ Attack \in Nat /\ Cooldown \in Nat /\ Threshold \in Nat /\ MinBlock \in Nat
  /\ Lookback \in Nat /\ MaxRounds \in Nat /\ MaxAge \in Nat
BY StateRootAssumption

LEMMA AtLeastTransitive == \A x, y, z \in Int : x >= y /\ y >= z => x >= z
OBVIOUS

LEMMA MinusPositive == \A x, y \in Int : x > y => x - y > 0
OBVIOUS

LEMMA LargerFact ==
  ASSUME NEW x \in Int, NEW y \in Int
  PROVE  Larger(x, y) \in Int /\ Larger(x, y) >= x /\ Larger(x, y) >= y
         /\ (Larger(x, y) = x \/ Larger(x, y) = y)
BY DEF Larger

LEMMA ElapseType ==
  ASSUME age \in Ages, older \in Ages, Elapse
  PROVE  age' \in Ages /\ older' \in Ages
BY StateRootAssumption, WindowAssumption DEF Elapse, Ages, Smaller

LEMMA ReadingType ==
  ASSUME NEW x \in Ages, NEW y \in Ages, NEW a \in Readings(x, y)
  PROVE  /\ a \in Ages \cup {None}
         /\ a # None => a <= Lookback
         /\ a # None /\ "skip" \notin trouble => a = x
         /\ a = None /\ "skip" \notin trouble =>
              x > Lookback \/ "miss" \in trouble
BY StateRootAssumption, WindowAssumption DEF Readings, Ages, None

LEMMA ReadType ==
  ASSUME misses \in 0 .. Threshold + 1, NEW a, Read(a)
  PROVE  misses' \in 0 .. Threshold + 1
BY StateRootAssumption DEF Read, Smaller

LEMMA TypeInit == Init => TypeOK
<1> SUFFICES ASSUME Init PROVE TypeOK
  OBVIOUS
<1>1. age \in Ages /\ older \in Ages /\ 0 \in Ages
  BY Numbers, WindowAssumption DEF Init, Ages
<1>2. 0 \in 0 .. MaxRounds /\ 0 \in 0 .. Attack + Cooldown /\ 0 \in 0 .. Threshold + 1
      /\ 0 \in 0 .. Attack
  BY Numbers
<1> QED
  BY <1>1, <1>2 DEF Init, TypeOK

LEMMA TypeStep == TypeOK /\ [Next]_vars => TypeOK'
<1> SUFFICES ASSUME TypeOK, [Next]_vars PROVE TypeOK'
  OBVIOUS
<1> USE StateRootAssumption, WindowAssumption
<1>1. CASE Prepare
  BY <1>1 DEF Prepare, TypeOK, chainVars, measureVars, observerVars
<1>2. CASE SkipRound
  <2>1. PICK a \in Readings(age, older) : Read(a)
    BY <1>2 DEF SkipRound
  <2>2. misses' \in 0 .. Threshold + 1
    BY <2>1, ReadType DEF TypeOK
  <2> QED
    BY <1>2, <2>2 DEF SkipRound, TypeOK, Rest, chainVars, measureVars, observerVars
<1>3. CASE StartAttack
  <2>1. PICK a \in Readings(age, older) : a # None /\ Read(a) /\ max_age' = a
    BY <1>3 DEF StartAttack
  <2>2. misses' \in 0 .. Threshold + 1 /\ max_age' \in Ages
    BY <2>1, ReadType, ReadingType DEF TypeOK
  <2>3. round' \in 0 .. MaxRounds /\ alive' \subseteq (1 .. MaxRounds) \X Threads
    BY <1>3 DEF StartAttack, TypeOK
  <2> QED
    BY <1>3, <2>2, <2>3 DEF StartAttack, TypeOK, Rest, Goto, observerVars
<1>4. CASE Sample
  <2>1. age' \in Ages /\ older' \in Ages
    BY <1>4, ElapseType DEF Sample, TypeOK
  <2>2. t \in 0 .. Attack /\ t' = t + 1 /\ t' \in 0 .. Attack /\ t' \in 0 .. Attack + Cooldown
    BY <1>4 DEF Sample, TypeOK
  <2>3. sending' \in BOOLEAN /\ trouble' = trouble
    BY <1>4 DEF Sample, TypeOK, Rest
  <2>4. over' \in Ages /\ starved' \in BOOLEAN
    BY <1>4, <2>1, <2>3 DEF Sample, TypeOK, Ages, Larger
  <2>5. PICK a \in Readings(age', older') :
          /\ Read(a)
          /\ flood_died' = (flood_died \/ Dying(a, t'))
          /\ IF a = None THEN UNCHANGED <<max_age, span_start, block_span>> ELSE Measure(a, t')
          /\ pc' = (IF a # None /\ flood_died' /\ ~Blocked(a) THEN "join" ELSE pc)
    BY <1>4 DEF Sample
  <2>6. misses' \in 0 .. Threshold + 1 /\ (a # None => a \in Ages)
    BY <2>1, <2>5, ReadType, ReadingType DEF TypeOK
  <2>7. flood_died' \in BOOLEAN /\ pc' \in {"sample", "join"}
    BY <1>4, <2>5 DEF Sample, Dying, TypeOK
  <2>8. span_start' \in (0 .. Attack) \cup {None} /\ max_age' \in Ages
    BY <2>2, <2>5, <2>6 DEF Measure, Larger, TypeOK
  <2>9. block_span' \in 0 .. Attack
    <3>1. CASE a = None \/ ~Blocked(a)
      BY <2>5, <3>1 DEF Measure, TypeOK
    <3>2. CASE a # None /\ Blocked(a)
      <4>1. span_start' \in 0 .. Attack
        BY <2>2, <2>5, <3>2 DEF Measure, TypeOK, None
      <4>2. block_span' = Larger(block_span, t' - span_start')
        BY <2>5, <3>2 DEF Measure
      <4>3. block_span \in 0 .. Attack
        BY DEF TypeOK
      <4>4. /\ block_span' \in Int /\ block_span' >= block_span
            /\ (block_span' = block_span \/ block_span' = t' - span_start')
        BY <2>2, <4>1, <4>2, <4>3, LargerFact, Numbers
      <4> QED
        BY <2>2, <4>1, <4>2, <4>3, <4>4, Numbers
    <3> QED
      BY <3>1, <3>2
  <2>10. blind' \in BOOLEAN
    BY <1>4 DEF Sample, Blinded, TypeOK
  <2> QED
    BY <1>4, <2>1, <2>2, <2>3, <2>4, <2>6, <2>7, <2>8, <2>9, <2>10 DEF Sample, TypeOK, Rest
<1>5. CASE AttackOver
  BY <1>5 DEF AttackOver, TypeOK, Goto, Rest, chainVars, measureVars, observerVars
<1>6. CASE Release
  BY <1>6 DEF Release, TypeOK, Goto, Rest, chainVars, measureVars
<1>7. CASE Classify
  BY <1>7 DEF Classify, TypeOK, Rest, chainVars, measureVars, observerVars
<1>8. CASE Recover
  <2>1. PICK a \in Readings(age, older) :
          /\ Read(a)
          /\ IF NotYet(a)
             THEN t' = t + 1 /\ Elapse /\ UNCHANGED <<verdict, pc>>
             ELSE /\ verdict' \in {"confirmed", "partial"} /\ pc' = "sleep"
                  /\ UNCHANGED <<t, age, older>>
    BY <1>8 DEF Recover, TypeOK
  <2>2. misses' \in 0 .. Threshold + 1
    BY <2>1, ReadType DEF TypeOK
  <2>3. age' \in Ages /\ older' \in Ages
    BY <2>1, ElapseType DEF TypeOK
  <2>4. t' \in 0 .. Attack + Cooldown /\ pc' \in {"recover", "sleep"}
    BY <1>8, <2>1 DEF Recover, TypeOK
  <2>5. verdict' \in {"none", "ineffective", "unsustainable", "confirmed", "partial", "no_recovery"}
    BY <2>1 DEF TypeOK
  <2>6. blind' \in BOOLEAN /\ landed' \in BOOLEAN
    BY <1>8 DEF Recover, Blinded, TypeOK
  <2> QED
    BY <1>8, <2>2, <2>3, <2>4, <2>5, <2>6 DEF Recover, TypeOK, Rest, measureVars
<1>9. CASE GiveUp
  BY <1>9 DEF GiveUp, TypeOK, Goto, Rest, chainVars, measureVars, observerVars
<1>10. CASE Sleep
  <2>1. age' \in Ages /\ older' \in Ages
    BY <1>10, ElapseType DEF Sleep, TypeOK
  <2>2. 0 \in Ages /\ 0 \in 0 .. Attack + Cooldown /\ 0 \in 0 .. Attack
    BY Numbers DEF Ages
  <2> QED
    BY <1>10, <2>1, <2>2 DEF Sleep, TypeOK, Goto, Rest
<1>11. CASE Leave \/ Stop
  <2>1. CASE Leave
    BY <2>1 DEF Leave, TypeOK, chainVars, measureVars, observerVars
  <2>2. CASE Stop
    BY <2>2 DEF Stop, TypeOK, chainVars, measureVars, observerVars
  <2> QED
    BY <1>11, <2>1, <2>2
<1>12. CASE ThreadEnds
  BY <1>12 DEF ThreadEnds, TypeOK, chainVars, measureVars, observerVars
<1>13. CASE UNCHANGED vars
  BY <1>13 DEF vars, TypeOK, chainVars, measureVars, observerVars
<1> QED
  BY <1>1, <1>2, <1>3, <1>4, <1>5, <1>6, <1>7, <1>8, <1>9, <1>10, <1>11, <1>12, <1>13
  DEF Next, Worker, Finished

(***************************************************************************)
(* Every reachable state has the types StateRoot!TypeOK gives it.          *)
(***************************************************************************)
THEOREM TypeCorrect == Spec => []TypeOK
BY TypeInit, TypeStep, PTL DEF Spec

-----------------------------------------------------------------------------
\* Which actions touch what the three invariants speak of.
LEMMA HealthyStep == TypeOK /\ HealthyInv /\ [Next]_vars => HealthyInv'
<1> SUFFICES ASSUME TypeOK, HealthyInv, [Next]_vars PROVE HealthyInv'
  OBVIOUS
<1> USE DEF HealthyInv, Verdicts
<1>1. CASE Sample
  <2>1. /\ starved' = (starved \/ (~sending' /\ t' > 1)) /\ verdict' = verdict
        /\ flood_died' = (flood_died \/ Dying(0, t')) /\ pc' \in {"sample", "join"} /\ pc = "sample"
    BY <1>1 DEF Sample, Dying
  <2> QED
    BY <2>1 DEF Dying, TypeOK
<1>2. CASE Classify
  BY <1>2 DEF Classify, TypeOK, Rest, measureVars, observerVars
<1>3. CASE Recover
  <2>1. /\ pc = "recover" /\ starved' = starved /\ flood_died' = flood_died
        /\ \/ verdict' = verdict /\ pc' = pc
           \/ verdict' \in {"confirmed", "partial"} /\ pc' = "sleep"
    BY <1>3 DEF Recover, measureVars
  <2> QED
    BY <2>1
<1>4. CASE GiveUp \/ AttackOver \/ Release \/ SkipRound \/ StartAttack \/ Prepare
  <2>1. CASE GiveUp
    BY <2>1 DEF GiveUp, Goto, measureVars, observerVars
  <2>2. CASE AttackOver
    BY <2>2 DEF AttackOver, Goto, measureVars, observerVars
  <2>3. CASE Release
    BY <2>3 DEF Release, Goto, measureVars
  <2>4. CASE SkipRound
    BY <2>4 DEF SkipRound, measureVars, observerVars
  <2>5. CASE StartAttack
    BY <2>5 DEF StartAttack, Goto, observerVars
  <2>6. CASE Prepare
    BY <2>6 DEF Prepare, measureVars, observerVars
  <2> QED
    BY <1>4, <2>1, <2>2, <2>3, <2>4, <2>5, <2>6
<1>5. CASE Sleep
  BY <1>5 DEF Sleep, Goto
<1>6. CASE Leave
  BY <1>6 DEF Leave, measureVars, observerVars
<1>7. CASE Stop \/ ThreadEnds \/ UNCHANGED vars
  BY <1>7 DEF Stop, ThreadEnds, vars, measureVars, observerVars
<1> QED
  BY <1>1, <1>2, <1>3, <1>4, <1>5, <1>6, <1>7 DEF Next, Worker, Finished

(***************************************************************************)
(* StateRoot!HealthyOnly: no round in which the flood sent nothing for a   *)
(* whole interval is confirmed, partial or unrecovered                     *)
(* (stateroot_race.py:211-227, 280-308).                                   *)
(***************************************************************************)
THEOREM HealthyCorrect == Spec => []HealthyOnly
<1>1. Init => HealthyInv
  BY DEF Init, HealthyInv, Verdicts
<1>2. HealthyInv => HealthyOnly
  BY DEF HealthyInv, HealthyOnly, Verdicts
<1> QED
  BY <1>1, <1>2, HealthyStep, TypeCorrect, PTL DEF Spec

LEMMA SeeingStep == TypeOK /\ TypeOK' /\ SeeingInv /\ [Next]_vars => SeeingInv'
<1> SUFFICES ASSUME TypeOK, TypeOK', SeeingInv, [Next]_vars PROVE SeeingInv'
  OBVIOUS
<1> USE DEF SeeingInv
<1>1. CASE Sample \/ Recover
  <2>1. blind' = (blind \/ misses' > Threshold)
    BY <1>1 DEF Sample, Recover, Blinded
  <2>2. misses' \in Int /\ Threshold \in Int
    BY Numbers DEF TypeOK
  <2>3. ~blind' => ~(misses' > Threshold)
    BY <2>1
  <2>4. ~(misses' > Threshold) => misses' <= Threshold
    BY <2>2
  <2> QED
    BY <2>3, <2>4
<1>2. CASE StartAttack
  <2>1. misses' = 0
    BY <1>2 DEF StartAttack, Read
  <2> QED
    BY <2>1, Numbers
<1>3. CASE Prepare \/ SkipRound \/ GiveUp \/ Sleep \/ Leave
  <2>1. pc' \in {"prepare", "idle", "sleep", "end"}
    BY <1>3 DEF Prepare, SkipRound, GiveUp, Sleep, Leave, Goto
  <2> QED
    BY <2>1
<1>4. CASE AttackOver \/ Release \/ Classify \/ Stop \/ ThreadEnds \/ UNCHANGED vars
  <2>1. /\ misses' = misses /\ blind' = blind
        /\ pc' = pc \/ pc \in {"sample", "join", "classify"}
    BY <1>4 DEF AttackOver, Release, Classify, Stop, ThreadEnds, vars, Goto, observerVars
  <2> QED
    BY <2>1
<1> QED
  BY <1>1, <1>2, <1>3, <1>4 DEF Next, Worker, Finished

(***************************************************************************)
(* Until the round is blind the samples that failed in a row are no more   *)
(* than the threshold is long, while a round lasts                         *)
(* (stateroot_race.py:228-229, 407-412).                                   *)
(***************************************************************************)
THEOREM SeeingCorrect == Spec => []SeeingInv
<1>1. Init => SeeingInv
  BY DEF Init, SeeingInv
<1> QED
  BY <1>1, SeeingStep, TypeCorrect, PTL DEF Spec

LEMMA SpanSample == TypeOK /\ TypeOK' /\ SeeingInv /\ SeeingInv' /\ SpanInv /\ Sample => SpanInv'
<1> SUFFICES ASSUME TypeOK, TypeOK', SeeingInv, SeeingInv', SpanInv, Sample,
                    "skip" \notin trouble, ~blind'
             PROVE  SpanInv'
  BY DEF SpanInv, Sample, Rest
<1>0. ~blind /\ misses <= Threshold /\ misses' <= Threshold
  <2>1. blind' = (blind \/ misses' > Threshold) /\ pc = "sample"
    BY DEF Sample, Blinded
  <2>2. ~blind /\ ~(misses' > Threshold)
    BY <2>1
  <2>3. misses' \in Int /\ Threshold \in Int
    BY Numbers DEF TypeOK
  <2> QED
    BY <2>1, <2>2, <2>3 DEF SeeingInv
<1>1. /\ age \in Nat /\ age <= MaxAge /\ age' \in Nat /\ t \in Nat /\ misses \in 0 .. Threshold + 1
      /\ block_span \in Nat /\ over \in Nat /\ (span_start = None \/ span_start \in Nat)
  BY Numbers DEF TypeOK, Ages
<1>2. PICK a \in Readings(age', older') :
        /\ Read(a)
        /\ IF a = None THEN UNCHANGED <<max_age, span_start, block_span>> ELSE Measure(a, t')
  BY DEF Sample
<1>3. /\ t' = t + 1 /\ pc = "sample" /\ trouble' = trouble
      /\ over' = Larger(over, Larger(age' - Threshold, 0))
      /\ (age' = 0 \/ age' = Smaller(age + 1, MaxAge))
      /\ pc' \in {"sample", "join"}
  BY DEF Sample, Rest, Elapse
<1>4. over' >= over /\ over' >= age' - Threshold /\ over' \in Nat
  <2>1. /\ Larger(age' - Threshold, 0) \in Int /\ Larger(age' - Threshold, 0) >= 0
        /\ Larger(age' - Threshold, 0) >= age' - Threshold
    BY <1>1, LargerFact, Numbers
  <2>2. over' \in Int /\ over' >= over /\ over' >= Larger(age' - Threshold, 0)
    BY <1>1, <1>3, <2>1, LargerFact, Numbers
  <2>3. over' >= age' - Threshold /\ over' >= 0
    <3>1. over' \in Int /\ age' - Threshold \in Int /\ 0 \in Int
      BY <1>1, <2>2, Numbers
    <3> QED
      BY <2>1, <2>2, <3>1, AtLeastTransitive
  <2> QED
    BY <2>2, <2>3
<1>5. CASE a = None
  <2>1. age' > Lookback \/ misses' = misses + 1
    BY <1>0, <1>1, <1>2, <1>3, <1>5, ReadingType, Numbers DEF Read, Smaller, TypeOK
  <2>2. span_start' = span_start /\ block_span' = block_span
    BY <1>2, <1>5
  <2>3. ASSUME span_start # None
        PROVE  age' = MaxAge \/ age' - Threshold > t' - span_start \/ age' < misses'
    <3>1. CASE age' = 0
      BY <1>1, <2>1, <3>1, Numbers
    <3>2. CASE age' = Smaller(age + 1, MaxAge) /\ age < misses
      BY <1>0, <1>1, <2>1, <3>2, Numbers, WindowAssumption DEF Smaller
    <3>3. CASE age' = Smaller(age + 1, MaxAge) /\ ~(age < misses)
      <4>1. age = MaxAge \/ age - Threshold > t - span_start
        BY <1>0, <1>3, <2>3, <3>3 DEF SpanInv
      <4> QED
        BY <1>1, <1>3, <2>3, <3>3, <4>1, Numbers DEF Smaller
    <3> QED
      BY <1>3, <3>1, <3>2, <3>3
  <2> QED
    <3>1. block_span <= over
      BY <1>0 DEF SpanInv
    <3>2. block_span' <= over'
      BY <1>1, <1>4, <2>2, <3>1, Numbers
    <3> QED
      BY <1>3, <2>2, <2>3, <3>2 DEF SpanInv
<1>6. CASE a # None
  <2>1. a = age' /\ a <= Lookback
    BY <1>2, <1>6, ReadingType, <1>3 DEF TypeOK
  <2>2. Measure(age', t')
    BY <1>2, <1>6, <2>1
  <2>3. CASE ~Blocked(age')
    BY <1>0, <1>1, <1>3, <1>4, <2>2, <2>3, Numbers DEF Measure, SpanInv
  <2>4. CASE Blocked(age') /\ span_start = None
    <3>1. span_start' = t' /\ block_span' = Larger(block_span, t' - t')
      BY <2>2, <2>4 DEF Measure
    <3>2. block_span' = block_span
      BY <1>1, <1>3, <3>1, Numbers DEF Larger
    <3>3. age' - Threshold > t' - span_start'
      <4>1. age' - Threshold > 0
        <5>1. age' \in Int /\ Threshold \in Int /\ age' > Threshold
          BY <1>1, <2>4, Numbers DEF Blocked
        <5> QED
          BY <5>1, MinusPositive
      <4>2. t' - span_start' = 0
        BY <1>1, <1>3, <3>1
      <4> QED
        BY <4>1, <4>2
    <3>4. block_span <= over
      BY <1>0 DEF SpanInv
    <3>5. block_span' <= over'
      BY <1>1, <1>4, <3>2, <3>4, Numbers
    <3> QED
      BY <1>3, <3>3, <3>5 DEF SpanInv
  <2>5. CASE Blocked(age') /\ span_start # None
    <3>1. age' = age + 1 /\ age # MaxAge
      BY <1>1, <1>3, <2>1, <2>5, Numbers, WindowAssumption DEF Smaller, Blocked
    <3>2. ~(age < misses)
      BY <1>0, <1>1, <2>5, <3>1, Numbers, WindowAssumption DEF Blocked
    <3>3. age - Threshold > t - span_start
      BY <1>0, <1>3, <2>5, <3>1, <3>2 DEF SpanInv
    <3>4. age' - Threshold > t' - span_start
      BY <1>1, <1>3, <2>5, <3>1, <3>3, Numbers
    <3>5. span_start' = span_start /\ block_span' = Larger(block_span, t' - span_start)
      BY <2>2, <2>5 DEF Measure
    <3>6. block_span <= over
      BY <1>0 DEF SpanInv
    <3>7. block_span' <= over'
      <4>1. t' - span_start \in Int /\ t' - span_start < over'
        BY <1>1, <1>3, <1>4, <2>5, <3>4, Numbers
      <4>2. block_span' = block_span \/ block_span' = t' - span_start
        BY <1>1, <3>5, <4>1, LargerFact
      <4> QED
        BY <1>1, <1>4, <3>6, <4>1, <4>2
    <3> QED
      BY <1>3, <3>4, <3>5, <3>7 DEF SpanInv
  <2> QED
    BY <2>3, <2>4, <2>5
<1> QED
  BY <1>5, <1>6

LEMMA SpanStep ==
  TypeOK /\ TypeOK' /\ SeeingInv /\ SeeingInv' /\ SpanInv /\ [Next]_vars => SpanInv'
<1> SUFFICES ASSUME TypeOK, TypeOK', SeeingInv, SeeingInv', SpanInv, [Next]_vars PROVE SpanInv'
  OBVIOUS
<1> USE DEF SpanInv
<1>1. CASE Sample
  BY <1>1, SpanSample
<1>2. CASE Prepare
  BY <1>2 DEF Prepare, chainVars, measureVars, observerVars
<1>3. CASE SkipRound
  BY <1>3 DEF SkipRound, Rest, measureVars, observerVars
<1>4. CASE StartAttack
  BY <1>4 DEF StartAttack, Rest, Goto, observerVars
<1>5. CASE AttackOver
  BY <1>5 DEF AttackOver, Rest, Goto, measureVars, observerVars
<1>6. CASE Release
  BY <1>6 DEF Release, Rest, Goto, measureVars
<1>7. CASE Classify
  BY <1>7 DEF Classify, Rest, measureVars, observerVars
<1>8. CASE Recover
  <2>1. /\ trouble' = trouble /\ pc' \in {"recover", "sleep"}
        /\ block_span' = block_span /\ over' = over /\ blind' = (blind \/ misses' > Threshold)
    BY <1>8 DEF Recover, Rest, measureVars, Blinded
  <2> QED
    BY <2>1
<1>9. CASE GiveUp
  BY <1>9 DEF GiveUp, Rest, Goto, measureVars, observerVars
<1>10. CASE Sleep
  BY <1>10, Numbers DEF Sleep, Rest, Goto
<1>11. CASE Leave
  BY <1>11 DEF Leave, chainVars, measureVars, observerVars
<1>12. CASE Stop
  BY <1>12 DEF Stop, chainVars, measureVars, observerVars
<1>13. CASE ThreadEnds
  BY <1>13 DEF ThreadEnds, chainVars, measureVars, observerVars
<1>14. CASE UNCHANGED vars
  BY <1>14 DEF vars, chainVars, measureVars, observerVars
<1> QED
  BY <1>1, <1>2, <1>3, <1>4, <1>5, <1>6, <1>7, <1>8, <1>9, <1>10, <1>11, <1>12, <1>13, <1>14
  DEF Next, Worker, Finished

(***************************************************************************)
(* StateRoot!SpanHonest: the span reported is that of one true stall, for  *)
(* any samples that fail, but not when they fail for longer than the       *)
(* threshold (stateroot_race.py:228-238, 323-328).                         *)
(***************************************************************************)
THEOREM SpanCorrect == Spec => []SpanHonest
<1>1. Init => SpanInv
  BY DEF Init, SpanInv
<1>2. SpanInv => SpanHonest
  BY DEF SpanInv, SpanHonest, SpanOfOneStall
<1> QED
  BY <1>1, <1>2, SpanStep, SeeingCorrect, TypeCorrect, PTL DEF Spec

-----------------------------------------------------------------------------
LEMMA RecoverRecover ==
  TypeOK /\ TypeOK' /\ SeeingInv /\ RecoverInv /\ Recover => RecoverInv'
<1> SUFFICES ASSUME TypeOK, TypeOK', SeeingInv, RecoverInv, Recover,
                    "skip" \notin trouble, ~stop, ~blind'
             PROVE  RecoverInv'
  BY DEF RecoverInv, Recover, Rest
<1>1. /\ age \in Nat /\ age <= MaxAge /\ age' \in Nat /\ t \in Nat /\ t' \in Nat
      /\ misses \in 0 .. Threshold + 1 /\ misses' \in Nat
  BY Numbers DEF TypeOK, Ages
<1>2. PICK a \in Readings(age, older) :
        /\ Read(a)
        /\ landed' = (landed \/ (a # None /\ age < t))
        /\ IF NotYet(a)
           THEN t' = t + 1 /\ Elapse /\ UNCHANGED <<verdict, pc>>
           ELSE verdict' \in {"confirmed", "partial"} /\ pc' = "sleep"
  BY DEF Recover
<1>3. pc = "recover" /\ trouble' = trouble /\ stop' = stop
  BY DEF Recover, Rest
<1>4. ~blind /\ misses <= Threshold /\ misses' <= Threshold
  <2>1. blind' = (blind \/ misses' > Threshold)
    BY DEF Recover, Blinded
  <2>2. ~blind /\ ~(misses' > Threshold)
    BY <2>1
  <2> QED
    BY <1>1, <1>3, <2>2, Numbers DEF SeeingInv
<1>5. ~landed /\ (age < t => age <= misses \/ age = MaxAge)
  BY <1>3, <1>4 DEF RecoverInv
<1>6. CASE ~NotYet(a)
  BY <1>2, <1>3, <1>6 DEF RecoverInv
<1>7. CASE NotYet(a)
  <2>1. /\ t' = t + 1 /\ verdict' = verdict /\ pc' = pc
        /\ age' = 0 \/ age' = age + 1 \/ age' = MaxAge
    BY <1>1, <1>2, <1>7, Numbers DEF Elapse, Smaller
  <2>2. CASE a # None
    <3>1. a = age /\ a <= Lookback /\ age > Threshold
      BY <1>2, <1>7, <2>2, ReadingType DEF NotYet, Blocked, TypeOK
    <3>2. ~(age < t)
      BY <1>1, <1>4, <1>5, <3>1, Numbers, WindowAssumption
    <3>3. ~landed'
      BY <1>2, <1>5, <3>2
    <3>4. age' < t' => age' <= misses' \/ age' = MaxAge
      BY <1>1, <2>1, <3>2
    <3> QED
      BY <1>3, <1>4, <2>1, <3>3, <3>4 DEF RecoverInv
  <2>3. CASE a = None
    <3>1. ~landed'
      BY <1>2, <1>5, <2>3
    <3>2. age > Lookback \/ misses' = misses + 1
      BY <1>1, <1>2, <1>4, <2>3, ReadingType, Numbers DEF Read, Smaller, TypeOK
    <3>3. age' < t' => age' <= misses' \/ age' = MaxAge
      BY <1>1, <1>2, <1>4, <1>5, <1>7, <2>1, <3>2, Numbers, WindowAssumption DEF Elapse, Smaller
    <3> QED
      BY <1>3, <1>4, <2>1, <3>1, <3>3 DEF RecoverInv
  <2> QED
    BY <2>2, <2>3
<1> QED
  BY <1>6, <1>7

LEMMA RecoverStep ==
  TypeOK /\ TypeOK' /\ SeeingInv /\ RecoverInv /\ [Next]_vars => RecoverInv'
<1> SUFFICES ASSUME TypeOK, TypeOK', SeeingInv, RecoverInv, [Next]_vars PROVE RecoverInv'
  OBVIOUS
<1>1. CASE Recover
  BY <1>1, RecoverRecover
<1>2. CASE GiveUp
  BY <1>2 DEF RecoverInv, GiveUp, Goto, Rest, observerVars
<1> USE DEF RecoverInv
<1>3. CASE Sample
  <2>1. /\ trouble' = trouble /\ stop' = stop /\ verdict' = verdict /\ landed' = landed
        /\ pc = "sample" /\ pc' \in {"sample", "join"} /\ blind' = (blind \/ misses' > Threshold)
    BY <1>3 DEF Sample, Rest, Blinded
  <2> QED
    BY <2>1
<1>4. CASE Prepare
  BY <1>4 DEF Prepare, chainVars, measureVars, observerVars
<1>5. CASE SkipRound
  BY <1>5 DEF SkipRound, Rest, measureVars, observerVars
<1>6. CASE StartAttack
  BY <1>6 DEF StartAttack, Rest, Goto, observerVars
<1>7. CASE AttackOver
  BY <1>7 DEF AttackOver, Rest, Goto, measureVars, observerVars
<1>8. CASE Release
  BY <1>8 DEF Release, Rest, Goto, measureVars
<1>9. CASE Classify
  <2>1. /\ pc = "classify" /\ landed' = landed /\ trouble' = trouble /\ stop' = stop
        /\ verdict' \in {"none", "ineffective", "unsustainable"}
        /\ pc' = (IF verdict' = "none" THEN "recover" ELSE "sleep")
        /\ t' = 0 /\ UNCHANGED <<age, misses, blind>>
    BY <1>9 DEF Classify, Rest, chainVars, observerVars
  <2>2. ~(age' < t')
    BY <2>1, Numbers DEF TypeOK, Ages
  <2> QED
    BY <2>1, <2>2
<1>10. CASE Sleep
  BY <1>10 DEF Sleep, Rest, Goto
<1>11. CASE Leave
  BY <1>11 DEF Leave, chainVars, measureVars, observerVars
<1>12. CASE Stop
  BY <1>12 DEF Stop, chainVars, measureVars, observerVars
<1>13. CASE ThreadEnds
  BY <1>13 DEF ThreadEnds, chainVars, measureVars, observerVars
<1>14. CASE UNCHANGED vars
  BY <1>14 DEF vars, chainVars, measureVars, observerVars
<1> QED
  BY <1>1, <1>2, <1>3, <1>4, <1>5, <1>6, <1>7, <1>8, <1>9, <1>10, <1>11, <1>12, <1>13, <1>14
  DEF Next, Worker, Finished

(***************************************************************************)
(* StateRoot!NoRecoveryReal: unless the run is stopped or the samples fail *)
(* for longer than the threshold, a wait that reports no recovery has read *)
(* no sample after a batch had landed (stateroot_race.py:351-371).         *)
(***************************************************************************)
THEOREM NoRecoveryCorrect == Spec => []NoRecoveryReal
<1>1. Init => RecoverInv
  BY DEF Init, RecoverInv
<1>2. RecoverInv => NoRecoveryReal
  BY DEF RecoverInv, NoRecoveryReal
<1> QED
  BY <1>1, <1>2, RecoverStep, SeeingCorrect, TypeCorrect, PTL DEF Spec
=============================================================================
