-------------------------- MODULE CongestionProofs --------------------------
(***************************************************************************)
(* The two races of the congestion worker, for any number of rounds.       *)
(*                                                                         *)
(* WriteRace: everything rests on the values.  Those of later rounds are   *)
(* nowhere yet (GateInv), so what a round finds in the slot is what it     *)
(* found there before, or what one of its own legs wrote (StoryInv).       *)
(*                                                                         *)
(* BalanceRace: a verdict rests on how the balance has moved since b0.     *)
(* What the round's own deposit and spend contribute is known from their   *)
(* stages (LeastInv, ExactInv); that nothing else contributes is what      *)
(* remembering the debt is for (DebtInv).                                  *)
(***************************************************************************)
EXTENDS WriteRace, BalanceRace, TLAPS

Alarms == {"lost write", "partial apply", "inner ran"}

\* The values of later rounds, and of a leg that has not sent, are nowhere.
GateInv ==
    /\ pc # "idle" => round \in 1 .. MaxRounds
    /\ \A l \in Legs, r \in 1 .. MaxRounds :
         r > round => Val(l, r) \notin flight \cup okd \cup reverted /\ slot # Val(l, r)
    /\ pc = "race" => \A l \in Legs : leg[l] = "gate" => Mine(l) \notin flight \cup okd \cup reverted
    /\ okd \cap reverted = {}
    /\ pc # "idle" => \A l \in Legs, r \in 1 .. MaxRounds : r >= round => pre # Val(l, r)

\* A leg ends when its write has settled, and knows how.
WireInv ==
    /\ pc # "race" => flight = {}
    /\ pc = "race" => \A v \in flight : \E l \in Legs : v = Mine(l) /\ leg[l] = "wait"
    /\ pc = "race" => \A l \in Legs : /\ leg[l] = "ok" => Mine(l) \in okd
                                      /\ leg[l] = "reverted" => Mine(l) \in reverted

\* As long as the chain behaves, the slot is as before or written by a leg.
StoryInv == pc = "race" /\ faults = {} /\ pre # NoRead =>
    /\ \/ slot = pre /\ \A l \in Legs : Mine(l) \notin okd
       \/ \E l \in Legs : slot = Mine(l) /\ Mine(l) \in okd
    /\ Mine("x") \in observed => Mine("x") \in okd

\* What a judgement leaves behind.
JudgedInv ==
    /\ pc \in {"idle", "race"} => found = {}
    /\ faults = {} /\ pre # NoRead => found \cap Alarms = {}

ReportInv == pc = "judged" /\ final # NoRead /\ final = pre =>
    /\ leg["x"] = "ok" => "lost write" \in found
    /\ Mine("x") \in observed /\ Mine("y") \notin observed => "partial apply" \in found

IInv == TypeOK /\ GateInv
SettledIInv == IInv /\ WireInv /\ StoryInv /\ JudgedInv

-----------------------------------------------------------------------------
LEMMA ValFacts ==
  /\ \A k, l \in Legs, r, s \in 1 .. MaxRounds : Val(k, r) = Val(l, s) => k = l /\ r = s
  /\ \A l \in Legs, r \in 1 .. MaxRounds : Val(l, r) \in Values /\ Val(l, r) # 0 /\ Val(l, r) # NoRead
BY WriteRaceAssumption DEF Legs, Val, Values, NoRead

LEMMA ZeroValue == 0 \in Values
BY WriteRaceAssumption DEF Values

LEMMA IInvInit == Init => IInv
<1> SUFFICES ASSUME Init PROVE IInv
  OBVIOUS
<1>1. TypeOK
  BY ZeroValue, WriteRaceAssumption DEF Init, TypeOK, Verdicts
<1>2. GateInv
  BY ValFacts DEF Init, GateInv
<1> QED
  BY <1>1, <1>2 DEF IInv

\* What every action of the chain does to the invariant.
LEMMA IInvChain ==
  ASSUME IInv, UNCHANGED workerVars,
         flight' \subseteq flight, faults' \subseteq ChainFaults,
         \/ \E v \in flight :
              /\ flight' = flight \ {v}
              /\ \/ okd' = okd \cup {v} /\ reverted' = reverted
                 \/ reverted' = reverted \cup {v} /\ okd' = okd
                 \/ UNCHANGED <<okd, reverted>>
              /\ slot' \in {slot, v}
         \/ /\ UNCHANGED <<flight, okd, reverted>>
            /\ pc = "race" /\ slot' \in {0, pre} \ {NoRead}
  PROVE  IInv'
<1> USE DEF IInv
<1>1. CASE \E v \in flight :
             /\ flight' = flight \ {v}
             /\ \/ okd' = okd \cup {v} /\ reverted' = reverted
                \/ reverted' = reverted \cup {v} /\ okd' = okd
                \/ UNCHANGED <<okd, reverted>>
             /\ slot' \in {slot, v}
  <2>1. TypeOK'
    BY <1>1 DEF TypeOK, workerVars
  <2>2. GateInv'
    BY <1>1 DEF TypeOK, GateInv, workerVars, Mine
  <2> QED
    BY <2>1, <2>2
<1>2. CASE /\ UNCHANGED <<flight, okd, reverted>>
           /\ pc = "race" /\ slot' \in {0, pre} \ {NoRead}
  <2>1. TypeOK'
    BY <1>2, ZeroValue DEF TypeOK, workerVars
  <2>2. \A l \in Legs, r \in 1 .. MaxRounds : r > round => slot' # Val(l, r)
    <3> SUFFICES ASSUME NEW l \in Legs, NEW r \in 1 .. MaxRounds, r > round
                 PROVE  slot' # Val(l, r)
      OBVIOUS
    <3>1. Val(l, r) # 0
      BY ValFacts
    <3> QED
      BY <1>2, <3>1 DEF GateInv, TypeOK
  <2> QED
    BY <1>2, <2>1, <2>2 DEF GateInv, workerVars, Mine
<1> QED
  BY <1>1, <1>2

LEMMA IInvStep == IInv /\ [Next]_vars => IInv'
<1> SUFFICES ASSUME IInv, [Next]_vars PROVE IInv'
  OBVIOUS
<1>1. ASSUME NEW v \in flight, Land(v) \/ RevertTx(v) \/ DropTx(v) PROVE IInv'
  <2>1. /\ UNCHANGED workerVars /\ faults' = faults /\ flight' = flight \ {v}
        /\ \/ okd' = okd \cup {v} /\ reverted' = reverted
           \/ reverted' = reverted \cup {v} /\ okd' = okd
           \/ UNCHANGED <<okd, reverted>>
        /\ slot' \in {slot, v}
    BY <1>1 DEF Land, RevertTx, DropTx, ChainStep
  <2>2. faults' \subseteq ChainFaults /\ flight' \subseteq flight
    BY <2>1 DEF IInv, TypeOK
  <2> QED
    BY <2>1, <2>2, IInvChain
<1>2. CASE InnerRan
  <2>1. PICK v \in flight :
          /\ UNCHANGED workerVars /\ flight' = flight \ {v} /\ faults' = faults \cup {"innerRan"}
          /\ "innerRan" \in ChainFaults /\ slot' = v
          /\ reverted' = reverted \cup {v} /\ okd' = okd
    BY <1>2 DEF InnerRan, ChainStep
  <2>2. faults' \subseteq ChainFaults /\ flight' \subseteq flight
    BY <2>1 DEF IInv, TypeOK
  <2> QED
    BY <2>1, <2>2, IInvChain
<1>3. CASE Vanish
  <2>1. /\ UNCHANGED <<flight, okd, reverted>> /\ UNCHANGED workerVars
        /\ faults' = faults \cup {"vanish"} /\ "vanish" \in ChainFaults
        /\ pc = "race" /\ slot' = (IF pre = NoRead THEN 0 ELSE pre)
    BY <1>3 DEF Vanish
  <2>2. faults' \subseteq ChainFaults /\ flight' \subseteq flight
    BY <2>1 DEF IInv, TypeOK
  <2>3. slot' \in {0, pre} \ {NoRead}
    BY <2>1 DEF NoRead
  <2> QED
    BY <2>1, <2>2, <2>3, IInvChain
<1> USE DEF IInv
<1>4. CASE BeginRound
  <2>1. /\ UNCHANGED <<slot, flight, okd, reverted>> /\ pre' \in {slot, NoRead}
        /\ pc' = "race" /\ round' = round + 1 /\ round < MaxRounds /\ faults' = {}
        /\ leg' = [l \in Legs |-> "gate"]
        /\ observed' = {} /\ final' = NoRead /\ verdict' = "none" /\ found' = {}
    BY <1>4 DEF BeginRound
  <2>2. round' \in 1 .. MaxRounds /\ round' > round
    BY <2>1, WriteRaceAssumption DEF TypeOK
  <2>3. TypeOK'
    BY <2>1, <2>2 DEF TypeOK, Verdicts
  <2>4. ASSUME NEW l \in Legs, NEW r \in 1 .. MaxRounds, r >= round'
        PROVE  /\ Val(l, r) \notin flight \cup okd \cup reverted
               /\ slot # Val(l, r) /\ Val(l, r) # NoRead
    <3>1. r > round
      BY <2>1, <2>4 DEF TypeOK
    <3> QED
      BY <3>1, ValFacts DEF GateInv
  <2>5. \A l \in Legs : Mine(l)' = Val(l, round')
    BY DEF Mine
  <2>6. ASSUME NEW l \in Legs PROVE Val(l, round') \notin flight \cup okd \cup reverted
    BY <2>2, <2>4 DEF TypeOK
  <2>7. ASSUME NEW l \in Legs, NEW r \in 1 .. MaxRounds, r > round' PROVE r >= round'
    BY <2>2, <2>7
  <2> QED
    BY <2>1, <2>2, <2>3, <2>4, <2>5, <2>6, <2>7 DEF GateInv
<1>5. ASSUME NEW l \in Legs, LegSends(l) \/ LegSendFails(l) PROVE IInv'
  <2>1. /\ pc = "race" /\ leg[l] = "gate" /\ UNCHANGED <<slot, okd, reverted, faults>>
        /\ UNCHANGED <<pc, round, pre, observed, final, verdict, found>>
        /\ flight' \in {flight, flight \cup {Mine(l)}}
        /\ \E to \in {"wait", "error"} : leg' = [leg EXCEPT ![l] = to]
    BY <1>5 DEF LegSends, LegSendFails, LegStep
  <2>2. /\ round \in 1 .. MaxRounds /\ Mine(l) \in Values
        /\ Mine(l) \notin flight \cup okd \cup reverted
    BY <2>1, ValFacts DEF GateInv, Mine
  <2>3. TypeOK'
    BY <2>1, <2>2 DEF TypeOK, Over
  <2>4. ASSUME NEW k \in Legs, NEW r \in 1 .. MaxRounds, r > round
        PROVE  Val(k, r) # Mine(l)
    BY <2>2, <2>4, ValFacts DEF Mine
  <2>5. ASSUME NEW k \in Legs, leg'[k] = "gate"
        PROVE  leg[k] = "gate" /\ Mine(k) # Mine(l)
    <3>1. k # l /\ leg[k] = "gate"
      BY <2>1, <2>5 DEF TypeOK
    <3> QED
      BY <2>2, <3>1, ValFacts DEF Mine
  <2> QED
    BY <2>1, <2>2, <2>3, <2>4, <2>5 DEF GateInv, Mine
<1>6. ASSUME NEW l \in Legs, LegReceipt(l) \/ LegGivesUp(l) PROVE IInv'
  <2>1. /\ pc = "race" /\ UNCHANGED chainVars
        /\ UNCHANGED <<pc, round, pre, observed, final, verdict, found>>
        /\ \E to \in Over : leg' = [leg EXCEPT ![l] = to]
    BY <1>6 DEF LegReceipt, LegGivesUp, LegStep, Over
  <2>2. TypeOK'
    BY <2>1 DEF TypeOK, chainVars
  <2>3. \A k \in Legs : leg'[k] = "gate" => leg[k] = "gate"
    BY <2>1 DEF TypeOK, Over
  <2> QED
    BY <2>1, <2>2, <2>3 DEF GateInv, Mine, chainVars
<1>7. CASE Sample
  <2>1. TypeOK'
    BY <1>7 DEF Sample, TypeOK, chainVars
  <2> QED
    BY <1>7, <2>1 DEF Sample, GateInv, Mine, chainVars
<1>8. CASE Judge
  <2>1. /\ pc = "race" /\ pc' = "judged" /\ UNCHANGED <<chainVars, round, leg, pre, observed>>
        /\ final' \in {slot, NoRead}
        /\ verdict' \in Verdicts /\ found' \subseteq Findings
    BY <1>8 DEF Judge, Verdict, CrosschainFindings, Verdicts, Findings
  <2>2. TypeOK'
    BY <2>1 DEF TypeOK, chainVars
  <2> QED
    BY <2>1, <2>2 DEF GateInv, chainVars
<1>9. CASE UNCHANGED vars
  BY <1>9 DEF vars, chainVars, workerVars, TypeOK, GateInv, Mine
<1> QED
  BY <1>1, <1>2, <1>3, <1>4, <1>5, <1>6, <1>7, <1>8, <1>9 DEF Next, Chain, Finished

(***************************************************************************)
(* Every variable keeps its type, and a write is never in flight and       *)
(* settled at once.                                                        *)
(***************************************************************************)
THEOREM TypeCorrect == Spec => []TypeOK
<1>1. IInv => TypeOK
  BY DEF IInv
<1> QED
  BY <1>1, IInvInit, IInvStep, PTL DEF Spec

-----------------------------------------------------------------------------
LEMMA MineFacts ==
  ASSUME IInv, pc = "race"
  PROVE  /\ Mine("x") # Mine("y")
         /\ \A l \in Legs : Mine(l) # pre /\ Mine(l) \in Values
         /\ \A k, l \in Legs : Mine(k) = Mine(l) => k = l
<1>1. round \in 1 .. MaxRounds
  BY DEF IInv, GateInv
<1>2. \A l \in Legs : Mine(l) # pre
  BY <1>1 DEF IInv, GateInv, Mine
<1> QED
  BY <1>1, <1>2, ValFacts DEF Mine, Legs

\* A leg that is still waiting is untouched by what settles; one that is over
\* keeps what it knows.
LEMMA WireStep == ASSUME ~Late PROVE IInv /\ WireInv /\ [Next]_vars => WireInv'
<1> SUFFICES ASSUME ~Late, IInv, WireInv, [Next]_vars PROVE WireInv'
  OBVIOUS
<1> USE DEF WireInv
<1>1. CASE Chain
  <2>1. /\ UNCHANGED workerVars /\ flight' \subseteq flight
        /\ okd \subseteq okd' /\ reverted \subseteq reverted'
    BY <1>1 DEF Chain, Land, RevertTx, DropTx, InnerRan, Vanish, ChainStep
  <2> QED
    BY <2>1 DEF workerVars, Mine
<1>2. CASE BeginRound
  <2>1. pc # "race" /\ pc' = "race" /\ flight' = flight /\ leg' = [l \in Legs |-> "gate"]
    BY <1>2 DEF BeginRound
  <2> QED
    BY <2>1
<1>3. ASSUME NEW l \in Legs, LegSends(l) PROVE WireInv'
  <2>1. /\ pc = "race" /\ leg[l] = "gate" /\ UNCHANGED <<okd, reverted, pc, round>>
        /\ flight' = flight \cup {Mine(l)} /\ leg' = [leg EXCEPT ![l] = "wait"]
    BY <1>3 DEF LegSends, LegStep
  <2> QED
    BY <2>1 DEF IInv, TypeOK, Mine
<1>4. ASSUME NEW l \in Legs, LegSendFails(l) PROVE WireInv'
  <2>1. /\ pc = "race" /\ leg[l] = "gate" /\ UNCHANGED <<okd, reverted, pc, round>>
        /\ flight' = flight /\ leg' = [leg EXCEPT ![l] = "error"]
    BY <1>4 DEF LegSendFails, LegStep
  <2> QED
    BY <2>1 DEF IInv, TypeOK, Mine
<1>5. ASSUME NEW l \in Legs, LegReceipt(l) \/ LegGivesUp(l) PROVE WireInv'
  <2>1. /\ pc = "race" /\ leg[l] = "wait" /\ UNCHANGED <<chainVars, pc, round>>
        /\ \E to \in Over : /\ leg' = [leg EXCEPT ![l] = to]
                            /\ to = "ok" => Mine(l) \in okd
                            /\ to = "reverted" => Mine(l) \in reverted
        /\ Mine(l) \notin flight
    BY <1>5 DEF LegReceipt, LegGivesUp, LegStep, Over, IInv, TypeOK
  <2> QED
    BY <2>1, MineFacts DEF IInv, TypeOK, Mine, chainVars
<1>6. CASE Sample
  BY <1>6 DEF Sample, chainVars, Mine
<1>7. CASE Judge
  <2>1. pc = "race" /\ pc' = "judged" /\ flight' = flight /\ \A l \in Legs : leg[l] \in Over
    BY <1>7 DEF Judge, chainVars
  <2> QED
    BY <2>1 DEF Over
<1>8. CASE UNCHANGED vars
  BY <1>8 DEF vars, chainVars, workerVars, Mine
<1> QED
  BY <1>1, <1>2, <1>3, <1>4, <1>5, <1>6, <1>7, <1>8 DEF Next, Finished

LEMMA StoryStep == IInv /\ WireInv /\ StoryInv /\ [Next]_vars /\ ~Late => StoryInv'
<1> SUFFICES ASSUME IInv, WireInv, StoryInv, [Next]_vars, ~Late,
                    pc' = "race", faults' = {}, pre' # NoRead
             PROVE  StoryInv'
  BY DEF StoryInv
<1> USE DEF StoryInv
<1>1. ASSUME NEW v \in flight, Land(v) PROVE StoryInv'
  <2>1. /\ UNCHANGED workerVars /\ slot' = v /\ okd' = okd \cup {v} /\ faults' = faults
    BY <1>1 DEF Land, ChainStep
  <2>2. \E l \in Legs : v = Mine(l)
    BY <1>1, <2>1 DEF WireInv, workerVars
  <2> QED
    BY <2>1, <2>2 DEF workerVars, Mine
<1>2. ASSUME NEW v \in flight, RevertTx(v) \/ DropTx(v) PROVE StoryInv'
  BY <1>2 DEF RevertTx, DropTx, ChainStep, workerVars, Mine
<1>3. CASE InnerRan \/ Vanish
  BY <1>3 DEF InnerRan, Vanish
<1>4. CASE BeginRound
  <2>1. /\ pre' = slot /\ slot' = slot /\ okd' = okd /\ leg' = [l \in Legs |-> "gate"]
        /\ observed' = {}
    BY <1>4 DEF BeginRound
  <2>2. \A l \in Legs : Mine(l)' \notin okd'
    BY <1>4, <2>1, IInvStep DEF IInv, GateInv
  <2> QED
    BY <2>1, <2>2
<1>5. ASSUME NEW l \in Legs,
             LegSends(l) \/ LegSendFails(l) \/ LegReceipt(l) \/ LegGivesUp(l)
      PROVE  StoryInv'
  BY <1>5 DEF LegSends, LegSendFails, LegReceipt, LegGivesUp, LegStep, chainVars, Mine
<1>6. CASE Sample
  <2>1. /\ pc = "race" /\ UNCHANGED <<slot, okd, faults, pre, round>>
        /\ observed' = observed \cup {slot} /\ faults = {} /\ pre # NoRead
    BY <1>6 DEF Sample, chainVars
  <2>2. slot = Mine("x") => Mine("x") \in okd
    BY <2>1, MineFacts DEF Legs
  <2> QED
    BY <2>1, <2>2 DEF Mine
<1>7. CASE Judge
  BY <1>7 DEF Judge
<1>8. CASE UNCHANGED vars
  BY <1>8 DEF vars, chainVars, workerVars, Mine
<1> QED
  BY <1>1, <1>2, <1>3, <1>4, <1>5, <1>6, <1>7, <1>8 DEF Next, Chain, Finished

LEMMA JudgedStep == IInv /\ WireInv /\ StoryInv /\ JudgedInv /\ [Next]_vars /\ ~Late => JudgedInv'
<1> SUFFICES ASSUME IInv, WireInv, StoryInv, JudgedInv, [Next]_vars, ~Late PROVE JudgedInv'
  OBVIOUS
<1> USE DEF JudgedInv
<1>1. CASE Chain
  <2>1. UNCHANGED workerVars /\ faults \subseteq faults'
    BY <1>1 DEF Chain, Land, RevertTx, DropTx, InnerRan, Vanish, ChainStep
  <2> QED
    BY <2>1 DEF workerVars
<1>2. CASE BeginRound
  BY <1>2 DEF BeginRound
<1>3. ASSUME NEW l \in Legs,
             LegSends(l) \/ LegSendFails(l) \/ LegReceipt(l) \/ LegGivesUp(l)
      PROVE  JudgedInv'
  BY <1>3 DEF LegSends, LegSendFails, LegReceipt, LegGivesUp, LegStep, chainVars
<1>4. CASE Sample
  BY <1>4 DEF Sample, chainVars
<1>5. CASE Judge
  <2> SUFFICES ASSUME faults = {}, pre # NoRead PROVE found' \cap Alarms = {}
    BY <1>5 DEF Judge, chainVars
  <2>1. PICK f \in {slot, NoRead} :
          found' = CrosschainFindings \cup
            (IF f # NoRead /\ Verdict(f) = "lost_write" THEN {"lost write"} ELSE {}) \cup
            (IF f # NoRead /\ PartialApply(f) THEN {"partial apply"} ELSE {})
    BY <1>5 DEF Judge
  <2>2. pc = "race"
    BY <1>5 DEF Judge
  <2>3. "inner ran" \notin CrosschainFindings
    <3>1. CASE leg["x"] = "reverted" /\ Mine("x") \in observed
      <4>1. Mine("x") \in reverted /\ Mine("x") \in okd
        BY <2>2, <3>1 DEF WireInv, StoryInv, Legs
      <4> QED
        BY <4>1 DEF IInv, GateInv
    <3>2. CASE ~(leg["x"] = "reverted" /\ Mine("x") \in observed)
      BY <3>2 DEF CrosschainFindings
    <3> QED
      BY <3>1, <3>2
  <2>4. slot = pre \/ slot = Mine("x") \/ slot = Mine("y")
    BY <2>2 DEF StoryInv, Legs
  <2>5. ~(f # NoRead /\ Verdict(f) = "lost_write")
    <3>1. slot = pre => ~AnySuccess
      BY <2>2, MineFacts DEF StoryInv, WireInv, AnySuccess, Legs
    <3> QED
      BY <2>4, <3>1 DEF Verdict
  <2>6. ~(f # NoRead /\ PartialApply(f))
    <3>1. Mine("x") \in observed => slot # pre
      BY <2>2, MineFacts DEF StoryInv, Legs
    <3> QED
      BY <2>4, <3>1 DEF PartialApply, Landed
  <2>7. CrosschainFindings \subseteq {"never settled", "reverted", "inner ran"}
    BY DEF CrosschainFindings
  <2> QED
    BY <2>1, <2>3, <2>5, <2>6, <2>7 DEF Alarms
<1>6. CASE UNCHANGED vars
  BY <1>6 DEF vars, chainVars, workerVars
<1> QED
  BY <1>1, <1>2, <1>3, <1>4, <1>5, <1>6 DEF Next, Finished

(***************************************************************************)
(* WriteRace!NoFalseAlarm, for any number of rounds and whatever the       *)
(* watcher samples: where no write settles after its leg has given up, a   *)
(* chain that executes every write at most once is never accused           *)
(* (congestion.py:256-258).                                                *)
(***************************************************************************)
THEOREM NoFalseAlarmCorrect == ASSUME ~Late PROVE Spec => []NoFalseAlarm
<1>1. Init => SettledIInv
  BY IInvInit DEF Init, SettledIInv, WireInv, StoryInv, JudgedInv
<1>2. SettledIInv /\ [Next]_vars => SettledIInv'
  BY IInvStep, WireStep, StoryStep, JudgedStep DEF SettledIInv
<1>3. SettledIInv => NoFalseAlarm
  BY DEF SettledIInv, JudgedInv, NoFalseAlarm, Alarms
<1> QED
  BY <1>1, <1>2, <1>3, PTL DEF Spec

-----------------------------------------------------------------------------
LEMMA ReportStep == IInv /\ ReportInv /\ [Next]_vars => ReportInv'
<1> SUFFICES ASSUME IInv, ReportInv, [Next]_vars, pc' = "judged" PROVE ReportInv'
  BY DEF ReportInv
<1> USE DEF ReportInv
<1>1. CASE Chain
  <2>1. UNCHANGED workerVars
    BY <1>1 DEF Chain, Land, RevertTx, DropTx, InnerRan, Vanish, ChainStep
  <2> QED
    BY <2>1 DEF workerVars, Mine
<1>2. CASE Judge
  <2>1. PICK f \in {slot, NoRead} :
          /\ pc = "race" /\ final' = f /\ UNCHANGED <<round, leg, pre, observed>>
          /\ found' = CrosschainFindings \cup
               (IF f # NoRead /\ Verdict(f) = "lost_write" THEN {"lost write"} ELSE {}) \cup
               (IF f # NoRead /\ PartialApply(f) THEN {"partial apply"} ELSE {})
    BY <1>2 DEF Judge
  <2> SUFFICES ASSUME f # NoRead, f = pre
               PROVE  /\ leg["x"] = "ok" => "lost write" \in found'
                      /\ Mine("x") \in observed /\ Mine("y") \notin observed
                           => "partial apply" \in found'
    BY <2>1 DEF Mine
  <2>2. f # Mine("x") /\ f # Mine("y")
    BY <2>1, MineFacts DEF Legs
  <2>3. leg["x"] = "ok" => Verdict(f) = "lost_write"
    BY <2>2 DEF Verdict, AnySuccess
  <2>4. Mine("x") \in observed /\ Mine("y") \notin observed => PartialApply(f)
    BY <2>2 DEF PartialApply, Landed
  <2> QED
    BY <2>1, <2>3, <2>4
<1>3. CASE BeginRound \/ Sample
  BY <1>3 DEF BeginRound, Sample
<1>4. ASSUME NEW l \in Legs,
             LegSends(l) \/ LegSendFails(l) \/ LegReceipt(l) \/ LegGivesUp(l)
      PROVE  ReportInv'
  BY <1>4 DEF LegSends, LegSendFails, LegReceipt, LegGivesUp, LegStep
<1>5. CASE UNCHANGED vars
  BY <1>5 DEF vars, workerVars, Mine
<1> QED
  BY <1>1, <1>2, <1>3, <1>4, <1>5 DEF Next, Finished

(***************************************************************************)
(* WriteRace!VanishReported: an X rolled back to the value before it is    *)
(* found, late writes and failing reads or not, if its receipt was good or *)
(* the watcher saw it without Y (congestion.py:34-35, 297-299).            *)
(***************************************************************************)
THEOREM VanishCorrect == Spec => []VanishReported
<1>1. Init => ReportInv
  BY DEF Init, ReportInv
<1>2. ReportInv => VanishReported
  BY DEF ReportInv, VanishReported
<1> QED
  BY <1>1, <1>2, IInvInit, IInvStep, ReportStep, PTL DEF Spec

-----------------------------------------------------------------------------
\* The balance race.

\* Where the worker is says what has been sent and what is settled.
PlaceInv ==
    /\ \A r \in Rounds : deposit[r] # "none" <=> r <= sent
    /\ place \in {"owed", "seed", "start"} => sent < MaxDeposits
    /\ place = "race" /\ depLeg = "gate" => sent < MaxDeposits
    /\ place \in {"seedReceipt", "seedCredit"} => sent > 0 /\ amount[sent] = Seed
    /\ place \in {"race", "await"} /\ depLeg # "gate" => sent > 0 /\ amount[sent] = Deposit
    /\ place = "seedCredit" => OnL1(deposit[sent])
    /\ place \notin {"idle", "owed"} => owed = NotOwed
    /\ place = "owed" => owed # NotOwed

\* A leg ends when what it sent has settled, and knows how, or it gives up.
LegInv ==
    /\ place = "await" => depLeg \in {"ok", "no"} /\ spendLeg \in {"ok", "no"}
    /\ "spendLate" \notin trouble => unpaid = 0 /\ (place # "race" => spend # "sent")
    /\ place \in {"race", "await"} =>
         /\ depLeg = "ok" => OnL1(deposit[sent])
         /\ depLeg = "no" => deposit[sent] = "failed" \/ GivenUp
         /\ spendLeg = "gate" <=> spend = "none"
         /\ spendLeg = "ok" => spend \in {"charged", "free"}
         /\ spendLeg = "no" => spend = "dropped" \/ "spendLate" \in trouble

ShapeInv == BalanceTypeOK /\ PlaceInv /\ LegInv

\* What the round's deposit has added to the balance.
Gain(stage) == CASE stage = "credited" -> Deposit [] stage = "twice" -> 2 * Deposit [] OTHER -> 0
Gained == IF depLeg = "gate" THEN 0 ELSE Gain(deposit[sent])

\* What its spend has taken away, at most.
Cost == CASE spend = "charged" -> Spend + Fee [] spend = "free" -> Fee [] OTHER -> 0

\* Credits of earlier deposits can only add to that, if no spend is overdue.
LeastInv == "spendLate" \notin trouble =>
    /\ place \in {"seed", "seedReceipt", "seedCredit", "start"} => balance >= b0
    /\ place \in {"race", "await"} => balance >= b0 + Gained - Cost

AnomalyIInv == ShapeInv /\ LeastInv /\ AnomalyReported

-----------------------------------------------------------------------------
LEMMA SentRound ==
  ASSUME BalanceTypeOK, PlaceInv
  PROVE  /\ sent \in Nat /\ MaxDeposits \in Nat
         /\ sent > 0 => sent \in Rounds
         /\ sent < MaxDeposits => sent + 1 \in Rounds /\ sent + 1 \in 0 .. MaxDeposits /\ deposit[sent + 1] = "none"
BY BalanceRaceAssumption DEF BalanceTypeOK, PlaceInv, Rounds

\* What the chain does to a deposit.
Settles(r, to, gain) ==
    /\ UNCHANGED <<trouble, amount, spend, unpaid, raceVars>>
    /\ deposit' = [deposit EXCEPT ![r] = to]
    /\ balance' = balance + gain
    /\ \/ deposit[r] = "sent" /\ to \in {"mined", "failed"} /\ gain = 0
       \/ deposit[r] = "mined" /\ to = "lost" /\ gain = 0
       \/ deposit[r] = "mined" /\ to = "credited" /\ gain = amount[r]
       \/ deposit[r] = "credited" /\ to = "twice" /\ gain = amount[r]

\* ... and to a spend.
Spends(to, cost) ==
    /\ UNCHANGED <<trouble, deposit, amount, unpaid, raceVars>>
    /\ spend = "sent" /\ spend' = to
    /\ balance >= Spend + Fee /\ balance' = balance - cost
    /\ \/ to = "charged" /\ cost = Spend + Fee
       \/ to = "free" /\ cost \in {0, Fee}
       \/ to = "dropped" /\ cost = 0

LEMMA ChainMoves ==
  ASSUME ChainSettles
  PROVE  \/ \E r \in Rounds, to \in DepositStages : \E gain \in {0, amount[r]} : Settles(r, to, gain)
         \/ \E to \in {"charged", "free", "dropped"}, cost \in {0, Fee, Spend + Fee} : Spends(to, cost)
         \/ ChargeLate
<1>1. ASSUME NEW r \in Rounds,
             MineDeposit(r) \/ Credit(r) \/ CreditTwice(r) \/ DepositFails(r) \/ LoseCredit(r)
      PROVE  \E to \in DepositStages : \E gain \in {0, amount[r]} : Settles(r, to, gain)
  <2>1. /\ MineDeposit(r) => Settles(r, "mined", 0)
        /\ DepositFails(r) => Settles(r, "failed", 0)
    BY DEF MineDeposit, DepositFails, Advance, Settles
  <2>2. /\ Credit(r) => Settles(r, "credited", amount[r])
        /\ LoseCredit(r) => Settles(r, "lost", 0)
    BY DEF Credit, LoseCredit, Advance, Settles
  <2>3. CreditTwice(r) => Settles(r, "twice", amount[r])
    BY DEF CreditTwice, Advance, Settles
  <2> QED BY <1>1, <2>1, <2>2, <2>3 DEF DepositStages
<1>2. ASSUME Charge \/ SpendFree \/ SpendDropped
      PROVE  \E to \in {"charged", "free", "dropped"}, cost \in {0, Fee, Spend + Fee} : Spends(to, cost)
  BY <1>2 DEF Charge, SpendFree, SpendDropped, SpendBecomes, Spends
<1> QED BY <1>1, <1>2 DEF ChainSettles

LEMMA ShapeInit == BalanceInit => ShapeInv
BY BalanceRaceAssumption
DEF BalanceInit, ShapeInv, BalanceTypeOK, PlaceInv, LegInv, Rounds, DepositStages, SpendStages,
    Outcomes, NotOwed

LEMMA ShapeChain ==
  ASSUME ShapeInv, ChainSettles
  PROVE  ShapeInv'
<1> USE DEF ShapeInv
<1>1. ASSUME NEW r \in Rounds, NEW to \in DepositStages, NEW gain \in {0, amount[r]},
             Settles(r, to, gain)
      PROVE  ShapeInv'
  <2>1. gain \in Nat /\ balance' \in Nat
    BY <1>1, BalanceRaceAssumption DEF BalanceTypeOK, Settles
  <2>2. /\ deposit' \in [Rounds -> DepositStages] /\ deposit'[r] = to
        /\ \A q \in Rounds \ {r} : deposit'[q] = deposit[q]
    BY <1>1 DEF BalanceTypeOK, Settles
  <2>3. BalanceTypeOK'
    BY <1>1, <2>1, <2>2 DEF BalanceTypeOK, Settles, raceVars
  <2>4. \A q \in Rounds : /\ deposit'[q] # "none" <=> deposit[q] # "none"
                          /\ OnL1(deposit[q]) => OnL1(deposit'[q])
                          /\ deposit[q] = "failed" => deposit'[q] = "failed"
    BY <1>1, <2>2 DEF Settles, OnL1
  <2>5. PlaceInv' /\ LegInv'
    BY <1>1, <2>4, SentRound DEF PlaceInv, LegInv, Settles, raceVars, GivenUp
  <2> QED BY <2>3, <2>5
<1>2. ASSUME NEW to \in {"charged", "free", "dropped"}, NEW cost \in {0, Fee, Spend + Fee},
             Spends(to, cost)
      PROVE  ShapeInv'
  <2>1. cost \in Nat /\ balance' \in Nat
    BY <1>2, BalanceRaceAssumption DEF BalanceTypeOK, Spends
  <2>2. BalanceTypeOK'
    BY <1>2, <2>1 DEF BalanceTypeOK, Spends, raceVars, SpendStages
  <2>3. PlaceInv' /\ LegInv'
    BY <1>2 DEF PlaceInv, LegInv, Spends, raceVars, OnL1, GivenUp
  <2> QED BY <2>2, <2>3
<1>3. CASE ChargeLate
  <2>1. balance' \in Nat /\ unpaid' \in Nat
    BY <1>3, BalanceRaceAssumption DEF BalanceTypeOK, ChargeLate
  <2>2. BalanceTypeOK'
    BY <1>3, <2>1 DEF BalanceTypeOK, ChargeLate, raceVars
  <2>3. "spendLate" \in trouble
    BY <1>3 DEF LegInv, ChargeLate
  <2>4. PlaceInv' /\ LegInv'
    BY <1>3, <2>3 DEF PlaceInv, LegInv, ChargeLate, raceVars, OnL1, GivenUp
  <2> QED BY <2>2, <2>4
<1> QED BY <1>1, <1>2, <1>3, ChainMoves

\* What sending a deposit does.
LEMMA Broadcasts ==
  ASSUME ShapeInv, sent < MaxDeposits, NEW value \in {Deposit, Seed}, NEW answered \in BOOLEAN,
         Broadcast(value, answered)
  PROVE  /\ UNCHANGED <<trouble, balance, spend, unpaid>>
         /\ sent' = sent + 1 /\ sent' \in Rounds /\ sent' \in 0 .. MaxDeposits /\ sent' > 0
         /\ deposit' \in [Rounds -> DepositStages] /\ amount' \in [Rounds -> {0, Deposit, Seed}]
         /\ deposit'[sent'] \in {"sent", "failed"} /\ amount'[sent'] = value
         /\ answered => deposit'[sent'] = "sent"
         /\ ~answered => deposit'[sent'] = "failed" \/ GivenUp
         /\ \A q \in Rounds : q # sent' => deposit'[q] = deposit[q] /\ amount'[q] = amount[q]
         /\ \A q \in Rounds : deposit'[q] # "none" <=> q <= sent'
<1>1. sent \in Nat /\ sent + 1 \in Rounds /\ sent + 1 \in 0 .. MaxDeposits
  BY SentRound DEF ShapeInv
<1>2. \A q \in Rounds : q \in Nat
  BY DEF Rounds
<1> QED BY <1>1, <1>2 DEF Broadcast, ShapeInv, BalanceTypeOK, PlaceInv, DepositStages, GivenUp

LEMMA ShapeWorker ==
  ASSUME ShapeInv, Worker \/ ReadFails
  PROVE  ShapeInv'
<1> USE BalanceRaceAssumption DEF ShapeInv, GivenUp
<1>1. CASE BeginBalanceRound \/ OwedArrives \/ Hold
  <2>1. CASE BeginBalanceRound
    <3>1. place' \in {"owed", "seed", "start"} /\ (place' = "owed" <=> owed' # NotOwed)
      BY <2>1 DEF BeginBalanceRound, AfterRead, BalanceTypeOK, NotOwed
    <3>2. BalanceTypeOK'
      BY <2>1, <3>1 DEF BeginBalanceRound, actorVars, BalanceTypeOK, Outcomes, NotOwed
    <3> QED BY <2>1, <3>1, <3>2 DEF BeginBalanceRound, actorVars, PlaceInv, LegInv, GivenUp
  <2>2. CASE OwedArrives
    BY <2>2 DEF OwedArrives, AfterRead, Goto, actorVars, BalanceTypeOK, PlaceInv, LegInv, NotOwed
  <2>3. CASE Hold
    BY <2>3 DEF Hold, Goto, actorVars, BalanceTypeOK, PlaceInv, LegInv, NotOwed
  <2> QED BY <1>1, <2>1, <2>2, <2>3
<1>2. ASSUME NEW answered \in BOOLEAN, Goto("seed", IF answered THEN "seedReceipt" ELSE "idle"),
             Broadcast(Seed, answered),
             UNCHANGED <<depLeg, spendLeg, b0, owed, waits, outcome, truth>>
      PROVE  ShapeInv'
  <2>1. sent < MaxDeposits
    BY <1>2 DEF Goto, PlaceInv
  <2> QED BY <1>2, <2>1, Broadcasts DEF Goto, BalanceTypeOK, PlaceInv, LegInv
<1>3. CASE SeedReceipt \/ SeedArrives \/ SeedLate
  BY <1>3, SentRound DEF SeedReceipt, SeedArrives, SeedLate, Goto, actorVars, BalanceTypeOK, PlaceInv, LegInv
<1>4. CASE StartRace
  BY <1>4 DEF StartRace, Goto, BalanceTypeOK, PlaceInv, LegInv, SpendStages
<1>5. ASSUME NEW answered \in BOOLEAN, Race(depLeg = "gate" /\ Broadcast(Deposit, answered)),
             depLeg' = (IF answered THEN "wait" ELSE "no"), UNCHANGED spendLeg
      PROVE  ShapeInv'
  <2>1. sent < MaxDeposits
    BY <1>5 DEF Race, PlaceInv
  <2> QED BY <1>5, <2>1, Broadcasts DEF Race, BalanceTypeOK, PlaceInv, LegInv
<1>6. CASE DepositReceipt \/ LegSpend \/ SpendReceipt
  BY <1>6 DEF DepositReceipt, LegSpend, SpendReceipt, Race, actorVars, BalanceTypeOK, PlaceInv, LegInv, SpendStages
<1>7. CASE LegsSettled \/ ReadFails
  BY <1>7 DEF LegsSettled, ReadFails, Goto, actorVars, BalanceTypeOK, PlaceInv, LegInv
<1>8. CASE Measure
  <2>1. Judgement(balance - b0) \in Outcomes
    BY DEF Judgement, Outcomes
  <2>2. balance + Deposit \in Nat
    BY DEF BalanceTypeOK
  <2>3. deposit[sent] \in DepositStages
    BY <1>8, SentRound DEF Measure, Goto, PlaceInv, LegInv, BalanceTypeOK
  <2> QED BY <1>8, <2>1, <2>2, <2>3 DEF Measure, Goto, actorVars, BalanceTypeOK, PlaceInv, LegInv
<1> QED BY <1>1, <1>2, <1>3, <1>4, <1>5, <1>6, <1>7, <1>8 DEF Worker, SendSeed, LegDeposit

LEMMA ShapeStep == ShapeInv /\ [BalanceNext]_balanceVars => ShapeInv'
<1>1. ASSUME ShapeInv, UNCHANGED balanceVars PROVE ShapeInv'
  BY <1>1 DEF ShapeInv, BalanceTypeOK, PlaceInv, LegInv, balanceVars, actorVars, raceVars, GivenUp
<1> QED BY <1>1, ShapeChain, ShapeWorker DEF BalanceNext, RacesOver

-----------------------------------------------------------------------------
\* Only a double credit makes a deposit one.
LEMMA StageMoves ==
  ASSUME ShapeInv, [BalanceNext]_balanceVars
  PROVE  /\ trouble' = trouble
         /\ \A r \in Rounds : deposit[r] = "twice" => deposit'[r] = "twice"
         /\ \A r \in Rounds : deposit'[r] = "twice" => deposit[r] = "twice" \/ "double" \in trouble
<1>1. CASE \E r \in Rounds : CreditTwice(r)
  BY <1>1 DEF CreditTwice, Advance, ShapeInv, BalanceTypeOK
<1>2. ASSUME ChainSettles, ~\E r \in Rounds : CreditTwice(r)
      PROVE  /\ trouble' = trouble
             /\ \A r \in Rounds : deposit[r] = "twice" <=> deposit'[r] = "twice"
  BY <1>2 DEF ChainSettles, MineDeposit, Credit, DepositFails, LoseCredit, Charge, SpendFree,
     SpendDropped, SpendBecomes, ChargeLate, Advance, ShapeInv, BalanceTypeOK
<1>3. CASE SendSeed \/ LegDeposit
  <2>1. PICK value \in {Deposit, Seed}, answered \in BOOLEAN : Broadcast(value, answered)
    BY <1>3 DEF SendSeed, LegDeposit, Race
  <2>2. sent < MaxDeposits
    BY <1>3 DEF SendSeed, LegDeposit, Race, Goto, ShapeInv, PlaceInv
  <2>3. deposit'[sent'] # "twice" /\ deposit[sent'] # "twice"
    BY <2>1, <2>2, Broadcasts, SentRound DEF ShapeInv
  <2> QED BY <2>1, <2>2, <2>3, Broadcasts
<1>4. CASE (Worker /\ ~(SendSeed \/ LegDeposit)) \/ ReadFails \/ UNCHANGED balanceVars
  BY <1>4 DEF Worker, ReadFails, BeginBalanceRound, OwedArrives, Hold, SeedReceipt, SeedArrives,
     SeedLate, StartRace, DepositReceipt, LegSpend, SpendReceipt, LegsSettled, Measure, Race,
     actorVars, balanceVars
<1> QED BY <1>1, <1>2, <1>3, <1>4 DEF BalanceNext, RacesOver

\* A credit adds what is gained, a charge takes what is spent.
LEMMA More ==
  \A b, z, g, g1, c, x \in Nat : b >= z + g - c /\ g1 <= g + x => b + x >= z + g1 - c
OBVIOUS

LEMMA Less ==
  \A b, z, g, c, c1, x \in Nat : b >= z + g - c /\ c = 0 /\ c1 >= x => b - x >= z + g - c1
OBVIOUS

LEMMA LeastStep ==
  ASSUME Deposit > 0, AnomalyIInv, [BalanceNext]_balanceVars
  PROVE  AnomalyIInv'
<1> USE BalanceRaceAssumption DEF AnomalyIInv
<1>1. ShapeInv' /\ trouble' = trouble
  BY ShapeStep, StageMoves
<1>0. CASE "spendLate" \in trouble
  BY <1>0, <1>1 DEF LeastInv, AnomalyReported
<1> SUFFICES ASSUME "spendLate" \notin trouble PROVE LeastInv' /\ AnomalyReported'
  BY <1>0, <1>1
<1>2. /\ balance \in Nat /\ b0 \in Nat /\ amount \in [Rounds -> {0, Deposit, Seed}]
      /\ deposit \in [Rounds -> DepositStages] /\ Cost \in Nat
  BY DEF ShapeInv, BalanceTypeOK, Cost
<1>3. Deposit \in Nat /\ 2 * Deposit = Deposit + Deposit
  OBVIOUS
<1>4. ASSUME NEW r \in Rounds, NEW to \in DepositStages, NEW gain \in {0, amount[r]},
             Settles(r, to, gain)
      PROVE  LeastInv' /\ AnomalyReported'
  <2>1. gain \in Nat /\ balance' = balance + gain /\ UNCHANGED <<place, b0, depLeg, sent, spend, outcome, truth>>
    BY <1>2, <1>4 DEF Settles, raceVars
  <2>2. AnomalyReported'
    BY <2>1 DEF AnomalyReported
  <2>3. Cost' = Cost
    BY <2>1 DEF Cost
  <2>4. CASE place \in {"race", "await"} /\ depLeg # "gate"
    <3>1. amount[sent] = Deposit /\ sent \in Rounds
      BY <2>4, SentRound DEF ShapeInv, PlaceInv
    <3>2. Gained' <= Gained + gain /\ Gained \in Nat /\ Gained' \in Nat
      <4>1. CASE r = sent
        BY <1>2, <1>3, <1>4, <2>1, <3>1, <4>1 DEF Gained, Gain, Settles
      <4>2. CASE r # sent
        BY <1>2, <1>3, <1>4, <2>1, <3>1, <4>2 DEF Gained, Gain, Settles
      <4> QED BY <4>1, <4>2
    <3>3. balance >= b0 + Gained - Cost
      BY <2>4 DEF LeastInv
    <3>4. balance' >= b0' + Gained' - Cost'
      <4>1. b0' = b0 /\ Cost' = Cost /\ balance' = balance + gain /\ gain \in Nat
        BY <2>1, <2>3
      <4>2. /\ balance \in Nat /\ b0 \in Nat /\ Cost \in Nat /\ Gained \in Nat /\ Gained' \in Nat
            /\ Gained' <= Gained + gain
        BY <1>2, <3>2
      <4>3. balance + gain >= b0 + Gained' - Cost
        BY <3>3, <4>1, <4>2, More, Zenon
      <4> QED BY <4>1, <4>3
    <3> QED BY <2>1, <2>2, <2>4, <3>4 DEF LeastInv
  <2>5. CASE ~(place \in {"race", "await"} /\ depLeg # "gate")
    BY <1>2, <2>1, <2>2, <2>3, <2>5 DEF LeastInv, Gained
  <2> QED BY <2>4, <2>5
<1>5. ASSUME NEW to \in {"charged", "free", "dropped"}, NEW cost \in {0, Fee, Spend + Fee},
             Spends(to, cost)
      PROVE  LeastInv' /\ AnomalyReported'
  <2>1. /\ place = "race" /\ balance' = balance - cost /\ spend = "sent" /\ spend' = to
        /\ UNCHANGED <<place, b0, depLeg, sent, deposit, outcome, truth>>
    BY <1>5 DEF Spends, raceVars, ShapeInv, LegInv
  <2>2. Cost = 0 /\ Cost' >= cost /\ Cost' \in Nat /\ cost \in Nat
    BY <1>5, <2>1 DEF Cost, Spends
  <2>3. Gained' = Gained /\ Gained \in Nat
    BY <1>2, <1>3, <2>1 DEF Gained, Gain
  <2>4. balance >= b0 + Gained - Cost
    BY <2>1 DEF LeastInv
  <2>5. balance' >= b0' + Gained' - Cost'
    <3>1. balance - cost >= b0 + Gained - Cost'
      BY <1>2, <2>2, <2>3, <2>4, Less, Zenon
    <3> QED BY <2>1, <2>3, <3>1
  <2> QED BY <2>1, <2>5 DEF LeastInv, AnomalyReported
<1>6. ASSUME Worker \/ ReadFails PROVE LeastInv' /\ AnomalyReported'
  <2>1. CASE BeginBalanceRound \/ OwedArrives \/ Hold \/ SeedReceipt \/ SeedArrives \/ SeedLate
             \/ ReadFails
    BY <1>2, <1>6, <2>1
    DEF BeginBalanceRound, OwedArrives, Hold, SeedReceipt, SeedArrives, SeedLate, ReadFails, AfterRead,
        Goto, actorVars, LeastInv, AnomalyReported
  <2>2. CASE SendSeed
    BY <1>2, <1>6, <2>2 DEF SendSeed, Goto, Broadcast, LeastInv, AnomalyReported
  <2>3. CASE StartRace
    BY <1>2, <2>3 DEF StartRace, Goto, LeastInv, AnomalyReported, Gained, Cost
  <2>4. ASSUME NEW answered \in BOOLEAN, Race(depLeg = "gate" /\ Broadcast(Deposit, answered)),
               depLeg' = (IF answered THEN "wait" ELSE "no"), UNCHANGED spendLeg
        PROVE  LeastInv' /\ AnomalyReported'
    <3>1. sent < MaxDeposits
      BY <2>4 DEF Race, ShapeInv, PlaceInv
    <3>2. Gained' = 0 /\ Gained = 0 /\ Cost' = Cost
      BY <2>4, <3>1, Broadcasts DEF Race, Gained, Gain, Cost
    <3> QED BY <2>4, <3>2 DEF Race, Broadcast, LeastInv, AnomalyReported
  <2>5. CASE DepositReceipt \/ SpendReceipt \/ LegsSettled
    BY <1>2, <2>5 DEF DepositReceipt, SpendReceipt, LegsSettled, Race, Goto, actorVars, LeastInv,
                      AnomalyReported, Gained, Cost
  <2>6. CASE LegSpend
    BY <1>2, <2>6 DEF LegSpend, Race, LeastInv, AnomalyReported, Gained, Cost, ShapeInv, LegInv
  <2>7. CASE Measure
    <3> DEFINE delta == balance - b0
    <3>1. place' = "idle" /\ outcome' = Judgement(delta) /\ truth' = [deposit |-> deposit[sent], spend |-> spend]
      BY <2>7 DEF Measure, Goto
    <3>2. /\ depLeg \in {"ok", "no"} /\ spendLeg \in {"ok", "no"} /\ place = "await"
          /\ spendLeg = "no" => spend = "dropped"
      BY <2>7 DEF Measure, Goto, ShapeInv, LegInv
    <3>3. delta \in Int /\ delta >= Gain(deposit[sent]) - Cost /\ Gain(deposit[sent]) \in Nat
      <4>1. Gained = Gain(deposit[sent]) /\ Gain(deposit[sent]) \in Nat
        BY <1>3, <3>2 DEF Gained, Gain
      <4>2. balance >= b0 + Gained - Cost
        BY <3>2 DEF LeastInv
      <4> QED BY <1>2, <4>1, <4>2
    <3>4. CASE deposit[sent] = "twice"
      <4>1. Gain(deposit[sent]) = 2 * Deposit
        BY <3>4 DEF Gain
      <4>2. CASE spendLeg = "ok"
        <5>1. delta > Deposit - Spend - Charged
          BY <1>3, <3>3, <4>1, <4>2 DEF Charged, Cost
        <5> QED BY <3>1, <4>2, <5>1 DEF LeastInv, AnomalyReported, Judgement
      <4>3. CASE spendLeg = "no"
        <5>1. Cost = 0
          BY <3>2, <4>3 DEF Cost
        <5>2. delta > Deposit
          BY <1>3, <3>3, <4>1, <5>1
        <5> QED BY <3>1, <5>2 DEF LeastInv, AnomalyReported, Judgement
      <4> QED BY <3>2, <4>2, <4>3
    <3>5. CASE deposit[sent] = "credited" /\ spend = "free"
      <4>1. Gain(deposit[sent]) = Deposit /\ Cost = Fee /\ spendLeg = "ok"
        BY <3>2, <3>5 DEF Gain, Cost
      <4>2. delta > Deposit - Spend - Charged
        BY <1>3, <3>3, <4>1 DEF Charged
      <4> QED BY <3>1, <4>1, <4>2 DEF LeastInv, AnomalyReported, Judgement
    <3> QED BY <3>1, <3>4, <3>5 DEF LeastInv, AnomalyReported
  <2> QED BY <1>6, <2>1, <2>2, <2>3, <2>4, <2>5, <2>6, <2>7 DEF Worker, LegDeposit
<1>7. CASE UNCHANGED balanceVars
  <2>1. /\ UNCHANGED <<balance, deposit, spend, place, sent, depLeg, b0, outcome, truth>>
        /\ Gained' = Gained /\ Cost' = Cost
    BY <1>7 DEF balanceVars, actorVars, raceVars, Gained, Gain, Cost
  <2> QED BY <1>1, <2>1 DEF LeastInv, AnomalyReported
<1>8. ~ChargeLate
  BY DEF ChargeLate, ShapeInv, LegInv
<1> QED BY <1>1, <1>4, <1>5, <1>6, <1>7, <1>8, ChainMoves DEF BalanceNext, RacesOver

(***************************************************************************)
(* A double credit, or a spend paid out beside a credited deposit, is      *)
(* always reported (congestion.py:39, 563-577), whatever else the chain    *)
(* does, if the spends' receipts are waited out; a deposit of nothing      *)
(* could be credited twice unseen.                                         *)
(***************************************************************************)
THEOREM AnomalyCorrect == ASSUME Deposit > 0 PROVE BalanceSpec => []AnomalyReported
<1>1. BalanceInit => AnomalyIInv
  BY ShapeInit DEF BalanceInit, AnomalyIInv, LeastInv, AnomalyReported
<1>2. AnomalyIInv /\ [BalanceNext]_balanceVars => AnomalyIInv'
  BY LeastStep
<1>3. AnomalyIInv => AnomalyReported
  BY DEF AnomalyIInv
<1> QED BY <1>1, <1>2, <1>3, PTL DEF BalanceSpec

(***************************************************************************)
(* Every variable of the balance race keeps its type.                      *)
(***************************************************************************)
THEOREM BalanceTypeCorrect == BalanceSpec => []BalanceTypeOK
<1>1. ShapeInv => BalanceTypeOK
  BY DEF ShapeInv
<1> QED BY <1>1, ShapeInit, ShapeStep, PTL DEF BalanceSpec

-----------------------------------------------------------------------------
\* A deposit that may still be credited, with something.
Open(r) == deposit[r] \in {"sent", "mined"} /\ amount[r] > 0

Remembered == DebtRemembered /\ ~CreditedTwice

\* Every spend goes through and is charged.
ChargedInv == spend \in {"none", "sent", "charged"} /\ truth.spend \in {"none", "charged"}

\* At most the last deposit is open, and between races the worker owes it.
DebtInv == \A r \in Rounds : Open(r) =>
    /\ r = sent
    /\ place \in {"idle", "owed"} => deposit[r] = "mined" /\ owed = balance + amount[r]
    /\ place \notin {"seed", "start"}
    /\ place = "race" => depLeg # "gate"
    /\ place = "seedCredit" => deposit[r] = "mined"

\* So the balance moves by this round's deposit and spend and nothing else.
Seeded == IF deposit[sent] = "credited" THEN Seed ELSE 0
Paid == IF spend = "charged" THEN Spend + Fee ELSE 0
ExactInv ==
    /\ place \in {"seed", "start"} => balance = b0
    /\ place \in {"seedReceipt", "seedCredit"} => balance = b0 + Seeded
    /\ place \in {"race", "await"} => balance = b0 + Gained - Paid

QuietInv ==
    /\ outcome \notin {"double_credit", "spend_not_charged"}
    /\ outcome # "none" => place = "idle" /\ truth.spend = "charged"

\* The deposit outweighs the gas of the spend, so its absence shows.
LossInv ==
    outcome # "none" /\ depLeg = "ok" =>
        (outcome = "deposit_lost" <=> truth.deposit \in {"mined", "lost"})

TwiceInv == CreditedTwice => "double" \in trouble

DebtInvs == ChargedInv /\ DebtInv /\ ExactInv /\ QuietInv
DebtIInv == ShapeInv /\ TwiceInv /\ (Remembered => DebtInvs)
LossIInv == DebtIInv /\ (Remembered => LossInv)

LEMMA RememberedBefore ==
  ASSUME ShapeInv, [BalanceNext]_balanceVars
  PROVE  /\ TwiceInv => TwiceInv'
         /\ Remembered' => Remembered
BY StageMoves DEF TwiceInv, Remembered, DebtRemembered, CreditedTwice

LEMMA DebtInit == BalanceInit => LossIInv
<1>1. BalanceInit => TwiceInv /\ LossInv
  BY DEF BalanceInit, TwiceInv, CreditedTwice, LossInv
<1>2. BalanceInit => DebtInvs
  BY DEF BalanceInit, DebtInvs, ChargedInv, DebtInv, Open, ExactInv, QuietInv
<1> QED BY <1>1, <1>2, ShapeInit DEF LossIInv, DebtIInv

LEMMA DebtSettles ==
  ASSUME ShapeInv, DebtInvs, DebtRemembered, ~CreditedTwice',
         NEW r \in Rounds, NEW to \in DepositStages, NEW gain \in {0, amount[r]},
         Settles(r, to, gain)
  PROVE  DebtInvs'
<1>1. /\ deposit \in [Rounds -> DepositStages] /\ amount \in [Rounds -> {0, Deposit, Seed}]
      /\ Deposit \in Nat /\ Seed \in Nat /\ balance \in Nat /\ b0 \in Nat /\ gain \in Nat
      /\ Gained \in Nat /\ Paid \in Nat /\ sent \in Nat
  <2>1. 2 * Deposit \in Nat /\ Spend + Fee \in Nat /\ Deposit \in Nat /\ Seed \in Nat
    BY BalanceRaceAssumption
  <2> QED BY <2>1, SentRound DEF ShapeInv, BalanceTypeOK, Gained, Gain, Paid
<1>2. /\ UNCHANGED <<place, sent, depLeg, b0, owed, outcome, truth, spend, amount>>
      /\ deposit' = [deposit EXCEPT ![r] = to] /\ balance' = balance + gain /\ Paid' = Paid
  BY DEF Settles, raceVars, Paid
<1>3. to # "twice"
  BY <1>1, <1>2 DEF CreditedTwice
<1>4. ChargedInv' /\ QuietInv'
  BY <1>2 DEF DebtInvs, ChargedInv, QuietInv
<1>5. \A q \in Rounds : Open(q)' => Open(q) /\ (deposit[q] = "mined" => deposit'[q] = "mined")
  BY <1>1, <1>2 DEF Open, Settles
<1>6. CASE gain = 0 /\ (to = "credited" => amount[r] = 0)
  <2>1. balance' = balance
    BY <1>1, <1>2, <1>6
  <2>2. DebtInv'
    <3> SUFFICES ASSUME NEW q \in Rounds, Open(q)' PROVE Open(q) /\ (deposit[q] = "mined" => deposit'[q] = "mined")
      BY <1>2, <2>1 DEF DebtInvs, DebtInv
    <3> QED BY <1>5
  <2>3. ASSUME sent \in Rounds, amount[sent] = Deposit PROVE Gain(deposit'[sent]) = Gain(deposit[sent])
    BY <1>1, <1>2, <1>3, <1>6, <2>3 DEF Gain, Settles
  <2>4. ASSUME sent \in Rounds, amount[sent] = Seed PROVE Seeded' = Seeded
    BY <1>1, <1>2, <1>3, <1>6, <2>4 DEF Seeded, Settles
  <2>5. ExactInv'
    BY <1>2, <2>1, <2>3, <2>4, SentRound DEF ExactInv, DebtInvs, Gained, ShapeInv, PlaceInv
  <2> QED BY <1>4, <2>2, <2>5 DEF DebtInvs
<1>7. CASE gain = amount[r] /\ amount[r] > 0 /\ to = "credited"
  <2>1. Open(r) /\ ~Open(r)' /\ r = sent
    BY <1>1, <1>2, <1>7 DEF Open, Settles, DebtInvs, DebtInv
  <2>2. DebtInv'
    BY <1>5, <2>1, <1>2 DEF DebtInv, DebtInvs
  <2>3. place \notin {"seed", "start"} /\ (place = "race" => depLeg # "gate")
    BY <2>1 DEF DebtInvs, DebtInv
  <2>4. deposit[sent] \in {"sent", "mined"} /\ deposit'[sent] = "credited"
    BY <1>1, <1>2, <1>7, <2>1 DEF Open
  <2>5. ASSUME place \in {"seedReceipt", "seedCredit"} PROVE balance' = b0' + Seeded'
    <3>1. gain = Seed /\ Seeded = 0 /\ Seeded' = Seed
      BY <1>2, <1>7, <2>1, <2>4, <2>5 DEF ShapeInv, PlaceInv, Seeded
    <3>2. balance = b0 + 0
      BY <2>5, <3>1 DEF DebtInvs, ExactInv
    <3> QED BY <1>1, <1>2, <3>1, <3>2
  <2>6. ASSUME place \in {"race", "await"} PROVE balance' = b0' + Gained' - Paid'
    <3>1. depLeg # "gate"
      BY <2>3, <2>6 DEF ShapeInv, LegInv
    <3>2. gain = Deposit /\ Gained = 0 /\ Gained' = Deposit
      BY <1>2, <1>7, <2>1, <2>4, <2>6, <3>1 DEF ShapeInv, PlaceInv, Gained, Gain
    <3>3. balance = b0 + 0 - Paid
      BY <2>6, <3>2 DEF DebtInvs, ExactInv
    <3>4. balance + gain = b0 + Deposit - Paid
      BY <1>1, <3>2, <3>3
    <3> QED BY <1>2, <3>2, <3>4
  <2>7. ExactInv'
    BY <1>2, <2>3, <2>5, <2>6 DEF ExactInv
  <2> QED BY <1>4, <2>2, <2>7 DEF DebtInvs
<1>8. \/ gain = 0 /\ (to = "credited" => amount[r] = 0)
      \/ gain = amount[r] /\ amount[r] > 0 /\ to = "credited"
  BY <1>1, <1>3 DEF Settles
<1> QED BY <1>6, <1>7, <1>8

LEMMA DebtSpends ==
  ASSUME ShapeInv, DebtInvs, DebtRemembered,
         NEW to \in {"charged", "free", "dropped"}, NEW cost \in {0, Fee, Spend + Fee},
         Spends(to, cost), to = "charged"
  PROVE  DebtInvs'
<1>1. /\ place = "race" /\ spend = "sent" /\ spend' = "charged" /\ balance' = balance - cost
      /\ cost = Spend + Fee
      /\ UNCHANGED <<deposit, amount, place, sent, depLeg, b0, owed, outcome, truth>>
  BY DEF Spends, raceVars, ShapeInv, LegInv, DebtRemembered
<1>2. ChargedInv' /\ QuietInv'
  BY <1>1 DEF DebtInvs, ChargedInv, QuietInv
<1>3. DebtInv'
  BY <1>1 DEF DebtInvs, DebtInv, Open
<1>4. ExactInv'
  <2>1. Paid = 0 /\ Paid' = cost /\ Gained' = Gained
    BY <1>1 DEF Paid, Gained, Gain
  <2>2. balance = b0 + Gained - 0
    BY <1>1, <2>1 DEF DebtInvs, ExactInv
  <2>3. Gained \in Nat /\ b0 \in Nat /\ cost \in Nat /\ balance \in Nat
    <3>1. 2 * Deposit \in Nat /\ Spend + Fee \in Nat /\ Deposit \in Nat
      BY BalanceRaceAssumption
    <3> QED BY <1>1, <3>1 DEF ShapeInv, BalanceTypeOK, Gained, Gain
  <2>4. balance - cost = b0 + Gained - cost
    BY <2>2, <2>3
  <2> QED BY <1>1, <2>1, <2>4 DEF ExactInv
<1> QED BY <1>2, <1>3, <1>4 DEF DebtInvs

LEMMA DebtChain ==
  ASSUME ShapeInv, DebtInvs, DebtRemembered, ~CreditedTwice', ChainSettles
  PROVE  DebtInvs'
<1>1. ~SpendFree /\ ~SpendDropped /\ ~ChargeLate
  BY DEF SpendFree, SpendDropped, ChargeLate, DebtRemembered, ShapeInv, LegInv
<1>2. CASE \E r \in Rounds :
             MineDeposit(r) \/ Credit(r) \/ CreditTwice(r) \/ DepositFails(r) \/ LoseCredit(r)
  <2>1. spend' = spend
    BY <1>2 DEF MineDeposit, Credit, CreditTwice, DepositFails, LoseCredit, Advance
  <2>2. ~\E to \in {"charged", "free", "dropped"}, cost \in {0, Fee, Spend + Fee} : Spends(to, cost)
    BY <2>1 DEF Spends
  <2> QED BY <1>1, <2>2, ChainMoves, DebtSettles
<1>3. CASE Charge
  <2>1. Spends("charged", Spend + Fee)
    BY <1>3 DEF Charge, SpendBecomes, Spends
  <2> QED BY <2>1, DebtSpends
<1> QED BY <1>1, <1>2, <1>3 DEF ChainSettles

LEMMA DebtWorker ==
  ASSUME ShapeInv, DebtInvs, DebtRemembered, ~CreditedTwice, Worker
  PROVE  DebtInvs'
<1> USE DEF DebtInvs
<1>1. /\ balance \in Nat /\ b0 \in Nat /\ Deposit \in Nat /\ Seed \in Nat /\ Spend \in Nat \ {0} /\ Fee \in Nat
      /\ amount \in [Rounds -> {0, Deposit, Seed}] /\ deposit \in [Rounds -> DepositStages]
      /\ owed \in Nat /\ sent \in Nat /\ \A r \in Rounds : amount[r] \in Nat
  BY BalanceRaceAssumption, SentRound DEF ShapeInv, BalanceTypeOK
<1>2. CASE BeginBalanceRound
  <2>1. /\ place = "idle" /\ b0' = balance /\ outcome' = "none"
        /\ UNCHANGED <<balance, deposit, amount, spend, sent, truth>>
        /\ place' = (IF owed # NotOwed /\ balance < owed THEN "owed" ELSE AfterRead(balance))
        /\ owed' = (IF balance < owed THEN owed ELSE NotOwed)
    BY <1>2 DEF BeginBalanceRound, actorVars
  <2>2. ASSUME NEW r \in Rounds, Open(r)
        PROVE  r = sent /\ deposit[r] = "mined" /\ owed = balance + amount[r] /\ place' = "owed" /\ owed' = owed
    <3>1. r = sent /\ deposit[r] = "mined" /\ owed = balance + amount[r] /\ amount[r] > 0
      BY <2>1, <2>2 DEF DebtInv, Open
    <3>2. owed # NotOwed /\ balance < owed
      BY <1>1, <3>1 DEF NotOwed
    <3> QED BY <2>1, <3>1, <3>2
  <2>3. DebtInv'
    BY <2>1, <2>2 DEF DebtInv, Open
  <2>4. place' \in {"owed", "seed", "start"}
    BY <2>1 DEF AfterRead
  <2> QED BY <2>1, <2>3, <2>4 DEF ChargedInv, ExactInv, QuietInv
<1>3. CASE OwedArrives
  <2>1. /\ place = "owed" /\ b0' = balance /\ balance >= owed
        /\ UNCHANGED <<balance, deposit, amount, spend, sent, outcome, truth>> /\ place' = AfterRead(balance)
    BY <1>3 DEF OwedArrives, actorVars, Goto
  <2>2. ASSUME NEW r \in Rounds, Open(r) PROVE FALSE
    BY <1>1, <2>1, <2>2 DEF DebtInv, Open
  <2>3. DebtInv'
    BY <2>1, <2>2 DEF DebtInv, Open
  <2> QED BY <2>1, <2>3 DEF ChargedInv, ExactInv, QuietInv, AfterRead
<1>4. CASE Hold
  <2>1. /\ place = "owed" /\ place' = "idle"
        /\ UNCHANGED <<balance, deposit, amount, spend, sent, outcome, truth>>
    BY <1>4 DEF Hold, actorVars, Goto
  <2>2. ASSUME NEW r \in Rounds, Open(r) PROVE owed' = owed
    <3>1. deposit[r] = "mined"
      BY <2>1, <2>2 DEF DebtInv
    <3>2. waits < 2
      BY <1>4, <3>1 DEF Hold, DebtRemembered
    <3> QED BY <1>4, <3>2 DEF Hold, ShapeInv, BalanceTypeOK
  <2>3. DebtInv'
    BY <2>1, <2>2 DEF DebtInv, Open
  <2> QED BY <2>1, <2>3 DEF ChargedInv, ExactInv, QuietInv
<1>5. ASSUME NEW answered \in BOOLEAN, Goto("seed", IF answered THEN "seedReceipt" ELSE "idle"),
             Broadcast(Seed, answered),
             UNCHANGED <<depLeg, spendLeg, b0, owed, waits, outcome, truth>>
      PROVE  DebtInvs'
  <2>1. sent < MaxDeposits /\ place = "seed" /\ place' = (IF answered THEN "seedReceipt" ELSE "idle")
    BY <1>5 DEF Goto, ShapeInv, PlaceInv
  <2>2. /\ UNCHANGED <<balance, spend>> /\ sent' \in Rounds
        /\ deposit'[sent'] = (IF answered THEN "sent" ELSE "failed")
        /\ \A q \in Rounds : q # sent' => deposit'[q] = deposit[q] /\ amount'[q] = amount[q]
    BY <1>5, <2>1, Broadcasts DEF DebtRemembered, GivenUp
  <2>3. \A r \in Rounds : ~Open(r)
    BY <2>1 DEF DebtInv
  <2>4. DebtInv'
    BY <2>1, <2>2, <2>3 DEF DebtInv, Open
  <2>5. ExactInv'
    <3>1. balance = b0 /\ Seeded' = 0
      BY <2>1, <2>2 DEF ExactInv, Seeded
    <3>2. balance = b0 + 0
      BY <1>1, <3>1
    <3> QED BY <1>5, <2>1, <2>2, <3>1, <3>2 DEF ExactInv
  <2> QED BY <1>5, <2>1, <2>2, <2>4, <2>5 DEF ChargedInv, QuietInv
<1>6. CASE SeedReceipt
  <2>1. /\ place = "seedReceipt"
        /\ \/ place' = "seedCredit" /\ OnL1(deposit[sent])
           \/ place' = "idle" /\ deposit[sent] = "failed"
        /\ UNCHANGED <<balance, deposit, amount, spend, sent, b0, owed, outcome, truth>>
    BY <1>6 DEF SeedReceipt, actorVars, Goto, GivenUp, DebtRemembered
  <2>2. DebtInv'
    BY <2>1 DEF DebtInv, Open, OnL1
  <2> QED BY <2>1, <2>2 DEF ChargedInv, ExactInv, QuietInv, Seeded
<1>7. CASE SeedArrives
  <2>1. /\ place = "seedCredit" /\ place' \in {"idle", "start"} /\ balance >= b0 + Seed /\ b0' = balance
        /\ UNCHANGED <<balance, deposit, amount, spend, sent, owed, outcome, truth>>
    BY <1>7 DEF SeedArrives, actorVars, Goto
  <2>2. ASSUME NEW r \in Rounds, Open(r) PROVE FALSE
    <3>1. deposit[sent] = "mined" /\ amount[sent] = Seed /\ Seed > 0
      BY <2>1, <2>2 DEF DebtInv, Open, ShapeInv, PlaceInv
    <3>2. balance = b0 + 0
      BY <2>1, <3>1 DEF ExactInv, Seeded
    <3> QED BY <1>1, <2>1, <3>1, <3>2
  <2>3. DebtInv'
    BY <2>1, <2>2 DEF DebtInv, Open
  <2> QED BY <2>1, <2>3 DEF ChargedInv, ExactInv, QuietInv
<1>8. CASE SeedLate
  <2>1. /\ place = "seedCredit" /\ place' = "idle" /\ owed' = b0 + Seed
        /\ UNCHANGED <<balance, deposit, amount, spend, sent, b0, outcome, truth>>
    BY <1>8 DEF SeedLate, actorVars, Goto
  <2>2. ASSUME NEW r \in Rounds, Open(r) PROVE r = sent /\ deposit[r] = "mined" /\ owed' = balance + amount[r]
    <3>1. r = sent /\ deposit[sent] = "mined" /\ amount[sent] = Seed
      BY <2>1, <2>2 DEF DebtInv, ShapeInv, PlaceInv
    <3>2. balance = b0 + 0
      BY <2>1, <3>1 DEF ExactInv, Seeded
    <3> QED BY <1>1, <2>1, <3>1, <3>2
  <2>3. DebtInv'
    BY <2>1, <2>2 DEF DebtInv, Open
  <2> QED BY <2>1, <2>3 DEF ChargedInv, ExactInv, QuietInv
<1>9. CASE StartRace
  <2>1. /\ place = "start" /\ place' = "race" /\ depLeg' = "gate" /\ spend' = "none"
        /\ UNCHANGED <<balance, deposit, amount, sent, b0, owed, outcome, truth>>
    BY <1>9 DEF StartRace, Goto
  <2>2. \A r \in Rounds : ~Open(r)
    BY <2>1 DEF DebtInv
  <2>3. DebtInv'
    BY <2>1, <2>2 DEF DebtInv, Open
  <2>4. balance = b0 + 0 - 0 /\ Gained' = 0 /\ Paid' = 0
    BY <1>1, <2>1 DEF ExactInv, Gained, Paid
  <2> QED BY <2>1, <2>3, <2>4 DEF ChargedInv, ExactInv, QuietInv
<1>10. ASSUME NEW answered \in BOOLEAN, Race(depLeg = "gate" /\ Broadcast(Deposit, answered)),
              depLeg' = (IF answered THEN "wait" ELSE "no"), UNCHANGED spendLeg
       PROVE  DebtInvs'
  <2>1. /\ sent < MaxDeposits /\ place = "race" /\ depLeg = "gate" /\ depLeg' # "gate"
        /\ UNCHANGED <<place, b0, owed, outcome, truth>>
    BY <1>10 DEF Race, ShapeInv, PlaceInv
  <2>2. /\ UNCHANGED <<balance, spend>> /\ sent' \in Rounds
        /\ deposit'[sent'] = (IF answered THEN "sent" ELSE "failed")
        /\ \A q \in Rounds : q # sent' => deposit'[q] = deposit[q] /\ amount'[q] = amount[q]
    BY <1>10, <2>1, Broadcasts DEF Race, DebtRemembered, GivenUp
  <2>3. \A r \in Rounds : ~Open(r)
    BY <2>1 DEF DebtInv
  <2>4. DebtInv'
    BY <2>1, <2>2, <2>3 DEF DebtInv, Open
  <2>5. Gained = 0 /\ Gained' = 0 /\ Paid' = Paid
    BY <2>1, <2>2 DEF Gained, Gain, Paid
  <2> QED BY <2>1, <2>2, <2>4, <2>5 DEF ChargedInv, ExactInv, QuietInv
<1>11. CASE DepositReceipt \/ SpendReceipt \/ LegsSettled
  <2>1. /\ UNCHANGED <<balance, deposit, amount, spend, sent, b0, owed, outcome, truth>>
        /\ place = "race" /\ place' \in {"race", "await"}
        /\ depLeg' = "gate" <=> depLeg = "gate"
    BY <1>11 DEF DepositReceipt, SpendReceipt, LegsSettled, Race, Goto, actorVars
  <2>2. Gained' = Gained /\ Paid' = Paid
    BY <2>1 DEF Gained, Gain, Paid
  <2>3. DebtInv'
    BY <2>1 DEF DebtInv, Open
  <2> QED BY <2>1, <2>2, <2>3 DEF ChargedInv, ExactInv, QuietInv
<1>12. CASE LegSpend
  <2>1. /\ place = "race" /\ spend = "none" /\ spend' = "sent"
        /\ UNCHANGED <<place, balance, deposit, amount, sent, depLeg, b0, owed, outcome, truth>>
    BY <1>12 DEF LegSpend, Race, DebtRemembered, ShapeInv, LegInv
  <2>2. Gained' = Gained /\ Paid' = Paid
    BY <2>1 DEF Gained, Gain, Paid
  <2>3. DebtInv'
    BY <2>1 DEF DebtInv, Open
  <2> QED BY <2>1, <2>2, <2>3 DEF ChargedInv, ExactInv, QuietInv
<1>13. CASE Measure
  <2> DEFINE delta == balance - b0
  <2>1. /\ place = "await" /\ place' = "idle" /\ outcome' = Judgement(delta)
        /\ owed' = (IF Judgement(delta) = "deposit_lost" THEN balance + Deposit ELSE owed)
        /\ truth' = [deposit |-> deposit[sent], spend |-> spend]
        /\ UNCHANGED <<balance, deposit, amount, spend, sent, depLeg, spendLeg, b0>>
    BY <1>13 DEF Measure, Goto, actorVars
  <2>2. /\ depLeg \in {"ok", "no"} /\ spendLeg = "ok" /\ spend = "charged"
        /\ sent \in Rounds /\ amount[sent] = Deposit
    BY <2>1, SentRound DEF ShapeInv, PlaceInv, LegInv, ChargedInv, DebtRemembered
  <2>3. /\ delta = Gain(deposit[sent]) - (Spend + Fee) /\ delta \in Int
        /\ Gain(deposit[sent]) \in {0, Deposit}
    <3>1. Gained = Gain(deposit[sent]) /\ Paid = Spend + Fee /\ Gain(deposit[sent]) \in {0, Deposit}
      BY <2>2 DEF Gained, Paid, Gain, CreditedTwice
    <3>2. balance = b0 + Gain(deposit[sent]) - (Spend + Fee)
      BY <2>1, <3>1 DEF ExactInv
    <3> QED BY <1>1, <3>1, <3>2
  <2>4. Judgement(delta) = (IF depLeg = "ok" /\ delta <= -Spend THEN "deposit_lost" ELSE "consistent")
    BY <1>1, <2>2, <2>3 DEF Judgement, Charged
  <2>5. ASSUME NEW r \in Rounds, Open(r)
        PROVE  r = sent /\ deposit[r] = "mined" /\ owed' = balance + amount[r]
    <3>1. r = sent /\ deposit[sent] = "mined" /\ depLeg = "ok"
      BY <2>1, <2>2, <2>5 DEF DebtInv, Open, ShapeInv, LegInv, OnL1, GivenUp, DebtRemembered
    <3>2. delta <= -Spend
      BY <1>1, <2>3, <3>1 DEF Gain
    <3> QED BY <2>1, <2>2, <2>4, <3>1, <3>2
  <2>6. DebtInv'
    BY <2>1, <2>5 DEF DebtInv, Open
  <2> QED BY <2>1, <2>2, <2>4, <2>6 DEF ChargedInv, ExactInv, QuietInv
<1> QED BY <1>2, <1>3, <1>4, <1>5, <1>6, <1>7, <1>8, <1>9, <1>10, <1>11, <1>12, <1>13
        DEF Worker, SendSeed, LegDeposit

LEMMA DebtStep == DebtIInv /\ [BalanceNext]_balanceVars => DebtIInv'
<1> SUFFICES ASSUME DebtIInv, [BalanceNext]_balanceVars PROVE DebtIInv'
  OBVIOUS
<1>1. ShapeInv' /\ TwiceInv' /\ (Remembered' => Remembered)
  BY ShapeStep, RememberedBefore DEF DebtIInv
<1>2. ASSUME Remembered' PROVE DebtInvs'
  <2>1. /\ ShapeInv /\ DebtInvs /\ DebtRemembered /\ ~CreditedTwice /\ ~CreditedTwice'
    BY <1>1, <1>2 DEF DebtIInv, Remembered
  <2>2. ~ReadFails
    BY <2>1 DEF ReadFails, DebtRemembered
  <2>3. ASSUME UNCHANGED balanceVars PROVE DebtInvs'
    <3>1. UNCHANGED <<balance, deposit, amount, spend, place, sent, depLeg, b0, owed, outcome, truth>>
      BY <2>3 DEF balanceVars, actorVars, raceVars
    <3>2. Gained' = Gained /\ Paid' = Paid /\ Seeded' = Seeded
      BY <3>1 DEF Gained, Gain, Paid, Seeded
    <3> QED BY <2>1, <3>1, <3>2 DEF DebtInvs, ChargedInv, DebtInv, Open, ExactInv, QuietInv
  <2> QED BY <2>1, <2>2, <2>3, DebtChain, DebtWorker DEF BalanceNext, RacesOver
<1> QED BY <1>1, <1>2 DEF DebtIInv

(***************************************************************************)
(* While debts are remembered, no round accuses another round's credit     *)
(* (congestion.py:445-490, 538-597): the remembered balance is the one the *)
(* single deposit still open would bring, so the race waits for exactly    *)
(* that and every movement it measures is its own.                         *)
(***************************************************************************)
THEOREM DebtCorrect == BalanceSpec => []NoFalseAlarmIfRemembered
<1>1. DebtIInv => NoFalseAlarmIfRemembered
  BY DEF DebtIInv, Remembered, DebtInvs, QuietInv, NoFalseAlarmIfRemembered, NobodyAccused
<1>2. BalanceInit => DebtIInv
  BY DebtInit DEF LossIInv
<1> QED BY <1>1, <1>2, DebtStep, PTL DEF BalanceSpec

LEMMA LossMeasure ==
  ASSUME Fee < Deposit, ShapeInv, DebtInvs, DebtRemembered, ~CreditedTwice, Measure
  PROVE  LossInv'
<1> DEFINE delta == balance - b0
<1>1. /\ balance \in Nat /\ b0 \in Nat /\ Deposit \in Nat /\ Spend \in Nat \ {0} /\ Fee \in Nat
      /\ deposit \in [Rounds -> DepositStages]
  BY BalanceRaceAssumption DEF ShapeInv, BalanceTypeOK
<1>2. /\ place = "await" /\ outcome' = Judgement(delta) /\ depLeg' = depLeg
      /\ truth' = [deposit |-> deposit[sent], spend |-> spend]
  BY DEF Measure, Goto
<1>3. CASE depLeg = "ok"
  <2>1. spendLeg = "ok" /\ spend = "charged" /\ deposit[sent] \in {"mined", "credited", "lost"}
    BY <1>2, <1>3, SentRound
    DEF DebtInvs, ChargedInv, ShapeInv, PlaceInv, LegInv, OnL1, CreditedTwice, DebtRemembered
  <2>2. Gained = (IF deposit[sent] = "credited" THEN Deposit ELSE 0) /\ Paid = Spend + Fee
    BY <1>3, <2>1 DEF Gained, Gain, Paid
  <2>3. delta = (IF deposit[sent] = "credited" THEN Deposit ELSE 0) - (Spend + Fee)
    <3>1. balance = b0 + Gained - Paid
      BY <1>2 DEF DebtInvs, ExactInv
    <3> QED BY <1>1, <2>2, <3>1
  <2>4. Judgement(delta) = "deposit_lost" <=> deposit[sent] # "credited"
    BY <1>1, <1>3, <2>1, <2>3 DEF Judgement, Charged
  <2> QED BY <1>2, <2>1, <2>4 DEF LossInv
<1> QED BY <1>2, <1>3 DEF LossInv

LEMMA LossStep ==
  ASSUME Fee < Deposit, LossIInv, [BalanceNext]_balanceVars
  PROVE  LossIInv'
<1>1. DebtIInv' /\ (Remembered' => Remembered)
  BY DebtStep, RememberedBefore DEF LossIInv, DebtIInv
<1>2. ASSUME Remembered' PROVE LossInv'
  <2>1. /\ ShapeInv /\ DebtInvs /\ DebtRemembered /\ ~CreditedTwice /\ LossInv
    BY <1>1, <1>2 DEF LossIInv, DebtIInv, Remembered
  <2>2. CASE Measure
    BY <2>1, <2>2, LossMeasure
  <2>3. CASE LegDeposit \/ DepositReceipt \/ StartRace
    <3>1. outcome = "none" /\ outcome' = "none"
      BY <2>1, <2>3 DEF LegDeposit, DepositReceipt, StartRace, Race, Goto, DebtInvs, QuietInv
    <3> QED BY <3>1 DEF LossInv
  <2>4. CASE ~Measure /\ ~(LegDeposit \/ DepositReceipt \/ StartRace)
    <3>1. outcome' \in {"none", outcome} /\ depLeg' = depLeg /\ truth' = truth
      <4>1. CASE ChainSettles
        BY <4>1 DEF ChainSettles, MineDeposit, Credit, CreditTwice, DepositFails, LoseCredit, Advance,
           Charge, SpendFree, SpendDropped, SpendBecomes, ChargeLate, raceVars
      <4>2. CASE Worker \/ ReadFails
        BY <2>4, <4>2 DEF Worker, ReadFails, BeginBalanceRound, OwedArrives, Hold, SendSeed, SeedReceipt,
           SeedArrives, SeedLate, LegSpend, SpendReceipt, LegsSettled, Race, actorVars
      <4>3. CASE UNCHANGED balanceVars
        BY <4>3 DEF balanceVars, raceVars
      <4> QED BY <4>1, <4>2, <4>3 DEF BalanceNext, RacesOver
    <3> QED BY <2>1, <3>1 DEF LossInv
  <2> QED BY <2>2, <2>3, <2>4
<1> QED BY <1>1, <1>2 DEF LossIInv

(***************************************************************************)
(* The loss finding is made exactly when the round's deposit is on L1 and  *)
(* not on L2 (congestion.py:40, 578-580), as long as debts are remembered  *)
(* and a deposit is worth more than the gas of a spend: with less, a       *)
(* credited deposit would leave the balance as low as a lost one does.     *)
(***************************************************************************)
THEOREM LossCorrect == ASSUME Fee < Deposit PROVE BalanceSpec => []LossExact
<1>1. LossIInv => LossExact
  BY DEF LossIInv, DebtIInv, TwiceInv, Remembered, LossInv, LossExact
<1>2. LossIInv /\ [BalanceNext]_balanceVars => LossIInv'
  BY LossStep
<1> QED BY <1>1, <1>2, DebtInit, PTL DEF BalanceSpec
=============================================================================
