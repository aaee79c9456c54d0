------------------------------ MODULE StateRoot ------------------------------
(***************************************************************************)
(* StateRootRaceWorker (eeztest/workers/stateroot_race.py): rounds that    *)
(* race L1 writes against the reads L2 has committed to, sample the age of *)
(* the newest state root while the writes last, release, and watch for it  *)
(* to recover.  What it reports rests on when the age rose, when the       *)
(* writes stopped and when the chain recovered.  Time is counted in        *)
(* samples; trouble names what may happen.                                 *)
(***************************************************************************)
EXTENDS Integers, FiniteSets

CONSTANTS
    Threads,     \* the threads of a flood
    Attack,      \* attack_seconds
    Cooldown,    \* cooldown_seconds
    Threshold,   \* block_threshold_seconds
    MinBlock,    \* min_block_seconds
    Lookback,    \* the age scan_lookback_blocks reaches
    MaxRounds,   \* bound on the rounds
    MaxAge,      \* bound on the ages
    Troubles     \* sets of what may happen, one per behaviour

ASSUME StateRootAssumption ==
    /\ {Attack, Cooldown, Threshold, MinBlock, Lookback, MaxRounds, MaxAge} \subseteq Nat
    /\ IsFiniteSet(Threads) /\ MaxAge >= Lookback
    /\ Troubles \subseteq SUBSET
                 {"miss",    \* samples may fail, any number in a row
                  "skip",    \* the block of the newest batch may be unreadable
                  "dry",     \* the flood may run out of funds or nonces
                  "stop"}    \* the run may be stopped

None == -1

\* "Must exceed a full attack's worth of blocks": an age that counts can be read.
ASSUME WindowAssumption == Threshold <= Lookback /\ Lookback < MaxAge

VARIABLES
    trouble, stop,
    age, older,     \* ages of the newest batch and of the one before
    sending,        \* the flood's writes are accepted
    alive,          \* threads that run, with their round
    pc, ready, round, t,
    misses,         \* samples missed in a row, up to one more than the threshold
    max_age, span_start, block_span, flood_died,
    verdict,
    over, starved, atRelease, landed, blind  \* observers: the longest true stall; an interval
                    \* without writes; the age at release; a sample was read after a batch landed
                    \* since then; more samples failed in a row than the threshold is long

chainVars == <<age, older, sending>>
measureVars == <<max_age, span_start, block_span, flood_died>>
observerVars == <<over, starved, atRelease, landed, blind>>
vars == <<trouble, stop, chainVars, alive, pc, ready, round, t, misses, measureVars,
          verdict, observerVars>>

Ages == 0 .. MaxAge

TypeOK ==
    /\ trouble \in Troubles /\ stop \in BOOLEAN
    /\ age \in Ages /\ older \in Ages /\ sending \in BOOLEAN
    /\ alive \subseteq (1 .. MaxRounds) \X Threads
    /\ pc \in {"prepare", "idle", "sleep", "sample", "join", "classify", "recover", "end"}
    /\ ready \in BOOLEAN /\ round \in 0 .. MaxRounds /\ t \in 0 .. Attack + Cooldown
    /\ misses \in 0 .. Threshold + 1
    /\ max_age \in Ages /\ span_start \in (0 .. Attack) \cup {None} /\ block_span \in 0 .. Attack
    /\ flood_died \in BOOLEAN
    /\ verdict \in {"none", "ineffective", "unsustainable", "confirmed", "partial", "no_recovery"}
    /\ over \in Ages /\ starved \in BOOLEAN /\ atRelease \in Ages
    /\ landed \in BOOLEAN /\ blind \in BOOLEAN

Init ==
    /\ trouble \in Troubles /\ stop = FALSE
    /\ age \in 0 .. Threshold + 1 /\ older = MaxAge /\ sending = TRUE
    /\ alive = {}
    /\ pc = "prepare" /\ ready = FALSE /\ round = 0 /\ t = 0
    /\ misses = 0
    /\ max_age = 0 /\ span_start = None /\ block_span = 0 /\ flood_died = FALSE
    /\ verdict = "none"
    /\ over = 0 /\ starved = FALSE /\ atRelease = 0 /\ landed = FALSE /\ blind = FALSE

-----------------------------------------------------------------------------
Smaller(a, b) == IF a < b THEN a ELSE b
Larger(a, b) == IF a < b THEN b ELSE a
Goto(from, to) == pc = from /\ pc' = to
Blocked(a) == a > Threshold

\* One sample's time: no batch lands, or one does.
Elapse ==
    \/ age' = Smaller(age + 1, MaxAge) /\ older' = Smaller(older + 1, MaxAge)
    \/ age' = 0 /\ older' = Smaller(age + 1, MaxAge)

\* _state_root_age: None beyond the lookback or if the head cannot be read; blocks
\* that cannot be read are passed over.
Readings(a, b) ==
    {IF x > Lookback THEN None ELSE x : x \in {a} \cup (IF "skip" \in trouble THEN {b} ELSE {})}
    \cup (IF "miss" \in trouble THEN {None} ELSE {})

Read(a) ==
    misses' = IF a = None /\ "miss" \in trouble THEN Smaller(misses + 1, Threshold + 1) ELSE 0

Blinded == blind' = (blind \/ misses' > Threshold)

Rest == UNCHANGED <<trouble, stop, ready>>

\* _prepare, until the Counter is deployed and a read from L2 has gone through.
Prepare == \E ok \in BOOLEAN :
    /\ pc = "prepare" /\ ready' = ok /\ pc' = (IF ok THEN "idle" ELSE pc)
    /\ UNCHANGED <<trouble, stop, chainVars, alive, round, t, misses, measureVars, verdict,
                   observerVars>>

\* A round that cannot read the age, or finds the chain stalled, waits.
SkipRound == \E a \in Readings(age, older) :
    /\ pc = "idle" /\ pc' = "sleep" /\ ~stop
    /\ a = None \/ Blocked(a)
    /\ Read(a) /\ t' = 0
    /\ Rest /\ UNCHANGED <<chainVars, alive, round, measureVars, verdict, observerVars>>

StartAttack == \E a \in Readings(age, older) :
    /\ Goto("idle", "sample") /\ ~stop /\ round < MaxRounds
    /\ a # None /\ ~Blocked(a)
    /\ Read(a) /\ t' = 0 /\ round' = round + 1
    /\ alive' = alive \cup {<<round + 1, h>> : h \in Threads}
    /\ sending' = TRUE
    /\ max_age' = a
    /\ Rest /\ UNCHANGED <<age, older, span_start, block_span, flood_died, verdict, observerVars>>

\* slip: a span goes on whatever is sampled
SpanNeverEnds(a, now) ==
    /\ max_age' = Larger(max_age, a)
    /\ span_start' = IF Blocked(a) /\ span_start = None THEN now ELSE span_start
    /\ block_span' = IF Blocked(a) THEN Larger(block_span, now - span_start') ELSE block_span

Measure(a, now) ==
    /\ max_age' = Larger(max_age, a)
    /\ span_start' = IF ~Blocked(a) THEN None ELSE IF span_start = None THEN now ELSE span_start
    /\ block_span' = IF Blocked(a) THEN Larger(block_span, now - span_start') ELSE block_span

\* slip: a sample that fails says nothing of the writes either
SeenDying(a, now) == ~sending' /\ now > 1 /\ a # None

\* rate < 0.2 after more than 30 s.
Dying(a, now) == ~sending' /\ now > 1

\* One pass of the measurement loop.
Sample ==
    /\ pc = "sample" /\ t < Attack /\ ~stop
    /\ t' = t + 1
    /\ Elapse
    /\ sending' \in {sending, sending /\ "dry" \notin trouble}
    /\ \E a \in Readings(age', older') :
         /\ Read(a) /\ Blinded
         /\ flood_died' = (flood_died \/ Dying(a, t'))
         /\ IF a = None THEN UNCHANGED <<max_age, span_start, block_span>> ELSE Measure(a, t')
         /\ pc' = (IF a # None /\ flood_died' /\ ~Blocked(a) THEN "join" ELSE pc)
    /\ over' = Larger(over, Larger(age' - Threshold, 0))
    /\ starved' = (starved \/ (~sending' /\ t' > 1))
    /\ Rest /\ UNCHANGED <<alive, round, verdict, atRelease, landed>>

AttackOver ==
    /\ Goto("sample", "join") /\ (t = Attack \/ stop)
    /\ Rest /\ UNCHANGED <<chainVars, alive, round, t, misses, measureVars, verdict, observerVars>>

\* slip: the threads are joined and not told
NotTold(h) == FALSE

\* A thread's loop ends when its flood, or the run, is stopped.
Told(h) == stop \/ h[1] # round \/ pc \notin {"sample"}

ThreadEnds == \E h \in alive :
    /\ Told(h)
    /\ alive' = alive \ {h}
    /\ UNCHANGED <<trouble, stop, chainVars, pc, ready, round, t, misses, measureVars, verdict,
                   observerVars>>

\* The release: every thread is told and joined, for five seconds each.
Release ==
    /\ Goto("join", IF stop THEN "end" ELSE "classify")
    /\ atRelease' = age /\ landed' = FALSE
    /\ Rest /\ UNCHANGED <<chainVars, alive, round, t, misses, measureVars, verdict, over, starved,
                           blind>>

Classify ==
    /\ pc = "classify"
    /\ verdict' = (IF ~Blocked(max_age) THEN "ineffective" ELSE
                   IF flood_died THEN "unsustainable" ELSE "none")
    /\ pc' = (IF verdict' = "none" THEN "recover" ELSE "sleep")
    /\ t' = 0
    /\ Rest /\ UNCHANGED <<chainVars, alive, round, misses, measureVars, observerVars>>

\* slip: the threshold itself counts as blocked
AtThreshold(a) == a = None \/ a >= Threshold

\* A reading that does not end the wait.
NotYet(a) == a = None \/ Blocked(a)

\* _await_recovery.
Recover == \E a \in Readings(age, older) :
    /\ pc = "recover" /\ t < Cooldown /\ ~stop
    /\ Read(a) /\ Blinded
    /\ landed' = (landed \/ (a # None /\ age < t))
    /\ IF NotYet(a)
       THEN t' = t + 1 /\ Elapse /\ UNCHANGED <<verdict, pc>>
       ELSE /\ verdict' = (IF block_span >= MinBlock THEN "confirmed" ELSE "partial")
            /\ pc' = "sleep" /\ UNCHANGED <<t, age, older>>
    /\ Rest /\ UNCHANGED <<sending, alive, round, measureVars, over, starved, atRelease>>

GiveUp ==
    /\ Goto("recover", "sleep") /\ (t = Cooldown \/ stop)
    /\ verdict' = "no_recovery"
    /\ Rest /\ UNCHANGED <<chainVars, alive, round, t, misses, measureVars, observerVars>>

\* The cooldown and the interval; what a round knew is gone.
Sleep ==
    /\ Goto("sleep", "idle")
    /\ Elapse
    /\ t' = 0 /\ max_age' = 0 /\ span_start' = None /\ block_span' = 0 /\ flood_died' = FALSE
    /\ verdict' = "none"
    /\ over' = 0 /\ starved' = FALSE /\ atRelease' = 0 /\ landed' = FALSE /\ blind' = FALSE
    /\ Rest /\ UNCHANGED <<sending, alive, round, misses>>

Stop ==
    /\ "stop" \in trouble /\ ~stop /\ stop' = TRUE
    /\ UNCHANGED <<trouble, chainVars, alive, pc, ready, round, t, misses, measureVars, verdict,
                   observerVars>>

Leave ==
    /\ stop /\ pc \in {"prepare", "idle", "sleep"} /\ pc' = "end"
    /\ UNCHANGED <<trouble, stop, chainVars, alive, ready, round, t, misses, measureVars, verdict,
                   observerVars>>

Worker ==
    \/ Prepare \/ SkipRound \/ StartAttack \/ Sample \/ AttackOver \/ Release \/ Classify
    \/ Recover \/ GiveUp \/ Sleep \/ Leave

Finished == (pc = "end" \/ (pc = "idle" /\ round = MaxRounds)) /\ UNCHANGED vars

Next == Worker \/ ThreadEnds \/ Stop \/ Finished

Spec == Init /\ [][Next]_vars

\* The worker's thread runs, and those of the flood.
FairSpec == Spec /\ WF_vars(Worker) /\ WF_vars(ThreadEnds)

-----------------------------------------------------------------------------
(***************************************************************************)
(* "Longest CONTINUOUS span above threshold" (stateroot_race.py:195): the  *)
(* span reported is never longer than one stall was.  Not so of the code   *)
(* when samples fail: a failed sample leaves the span open (line 228), so  *)
(* an outage longer than the threshold joins two stalls into one span.     *)
(***************************************************************************)
SpanOfOneStall == "skip" \notin trouble => block_span <= over

(***************************************************************************)
(* "Froze the L2's L1 attestation for a continuous block_span"             *)
(* (stateroot_race.py:228-238, 323-328): samples may fail, a stall may end *)
(* and another begin, yet the span reported is that of one stall, unless   *)
(* the samples failed for longer than the threshold.                       *)
(***************************************************************************)
SpanHonest == ~blind => SpanOfOneStall

(***************************************************************************)
(* "The chain then recovers on its own, which must not be mistaken for our *)
(* deliberate release" (stateroot_race.py:211-227, 280-308): a round in    *)
(* which the flood sent nothing for a whole interval confirms nothing.     *)
(***************************************************************************)
HealthyOnly == verdict \in {"confirmed", "partial", "no_recovery"} => ~starved

(***************************************************************************)
(* "Stalled under state-race but did not recover on release"               *)
(* (stateroot_race.py:351-371): unless the run is stopped, or the samples  *)
(* failed for longer than the threshold, no sample was read after a batch  *)
(* had landed since the release.                                           *)
(***************************************************************************)
NoRecoveryReal ==
    "skip" \notin trouble /\ ~blind /\ ~stop /\ verdict = "no_recovery" => ~landed

(***************************************************************************)
(* "A finding is only raised when the chain both stalled under attack AND  *)
(* recovered after release" (stateroot_race.py:38-41): a recovery that is  *)
(* confirmed comes after the release.                                      *)
(***************************************************************************)
RecoveryFollowsRelease == verdict \in {"confirmed", "partial"} => Blocked(atRelease)

(***************************************************************************)
(* "A leaked daemon thread would keep hammering L1 for the life of the     *)
(* process" (stateroot_race.py:204-206, 253-256): the threads of a round   *)
(* end after it, whatever ended the round.                                 *)
(***************************************************************************)
FloodsEnd ==
    \A r \in 1 .. MaxRounds, h \in Threads :
      (round = r /\ pc = "sample") ~> <<r, h>> \notin alive
=============================================================================
