------------------------------ MODULE WriteRace ------------------------------
(***************************************************************************)
(* CongestionWorker._race_write (eeztest/workers/congestion.py): each      *)
(* round a cross-chain leg stores X and a direct L1 leg stores Y in the    *)
(* same slot, a watcher samples the slot, and the value found at the end   *)
(* decides the verdict.  The chain executes each write it has accepted at  *)
(* most once, some time later, or drops or reverts it; ChainFaults adds    *)
(* the misbehaviour the worker looks for.                                  *)
(* A wait may end at any time, by its window or by the stop event.         *)
(***************************************************************************)
EXTENDS Integers

CONSTANTS
    MaxRounds,    \* bound on the rounds
    Late,         \* a write may settle after its leg has stopped waiting
    ChainFaults   \* subset of {"vanish", "innerRan"}

ASSUME WriteRaceAssumption ==
    /\ MaxRounds \in Nat \ {0}
    /\ Late \in BOOLEAN
    /\ ChainFaults \subseteq {"vanish", "innerRan"}

Legs == {"x", "y"}

\* _next_values: two monotonic, disjoint streams.
Val(l, r) == IF l = "x" THEN r ELSE MaxRounds + r

NoRead == -1   \* _read_value returned None

VARIABLES
    slot,      \* SimpleStorage.value on L1
    flight,    \* writes accepted by an endpoint and not settled
    okd,       \* writes with a successful receipt
    reverted,  \* writes with a failed receipt
    faults,    \* the misbehaviour of this round
    pc, round,
    leg,       \* where each leg is; in the end its result
    pre,       \* the slot before the race
    observed,  \* the values the watcher has sampled
    final,     \* the slot after the race
    verdict,   \* the counter that is incremented
    found      \* the findings of this round

chainVars == <<slot, flight, okd, reverted, faults>>
workerVars == <<pc, round, leg, pre, observed, final, verdict, found>>
vars == <<chainVars, workerVars>>

Values == 0 .. 2 * MaxRounds
Verdicts == {"none", "final_read_failed", "crosschain_won", "l1_won", "no_writer_landed",
             "lost_write"}
Findings == {"never settled", "reverted", "inner ran", "lost write", "partial apply"}
Over == {"ok", "reverted", "unmined", "error"}

TypeOK ==
    /\ slot \in Values
    /\ flight \subseteq Values /\ okd \subseteq Values /\ reverted \subseteq Values
    /\ flight \cap (okd \cup reverted) = {} /\ faults \subseteq ChainFaults
    /\ pc \in {"idle", "race", "judged"} /\ round \in 0 .. MaxRounds
    /\ leg \in [Legs -> {"gate", "wait"} \cup Over]
    /\ pre \in Values \cup {NoRead} /\ final \in Values \cup {NoRead}
    /\ observed \subseteq Values
    /\ verdict \in Verdicts /\ found \subseteq Findings

Init ==
    /\ slot = 0 /\ flight = {} /\ okd = {} /\ reverted = {} /\ faults = {}
    /\ pc = "idle" /\ round = 0
    /\ leg = [l \in Legs |-> "gate"]
    /\ pre = NoRead /\ observed = {} /\ final = NoRead
    /\ verdict = "none" /\ found = {}

-----------------------------------------------------------------------------
\* The chain.

ChainStep(v) == v \in flight /\ flight' = flight \ {v} /\ UNCHANGED workerVars

Land(v) ==
    /\ ChainStep(v)
    /\ slot' = v /\ okd' = okd \cup {v}
    /\ UNCHANGED <<reverted, faults>>

RevertTx(v) ==
    /\ ChainStep(v)
    /\ reverted' = reverted \cup {v}
    /\ UNCHANGED <<slot, okd, faults>>

DropTx(v) == ChainStep(v) /\ UNCHANGED <<slot, okd, reverted, faults>>

\* Fault: the inner call ran on L1, yet the L2 transaction reverted.
InnerRan ==
    LET v == Val("x", round) IN
    /\ "innerRan" \in ChainFaults
    /\ ChainStep(v)
    /\ slot' = v /\ reverted' = reverted \cup {v}
    /\ faults' = faults \cup {"innerRan"}
    /\ UNCHANGED okd

\* Fault: this round's X is rolled out of L1's state again.
Vanish ==
    /\ "vanish" \in ChainFaults
    /\ pc = "race" /\ slot = Val("x", round)
    /\ slot' = (IF pre = NoRead THEN 0 ELSE pre)
    /\ faults' = faults \cup {"vanish"}
    /\ UNCHANGED <<flight, okd, reverted, workerVars>>

Chain == (\E v \in flight : Land(v) \/ RevertTx(v) \/ DropTx(v)) \/ InnerRan \/ Vanish

-----------------------------------------------------------------------------
\* The worker.

\* One round: the values are drawn, the slot is read, which may fail, and both
\* legs start.
BeginRound == \E p \in {slot, NoRead} :
    /\ pc \in {"idle", "judged"} /\ round < MaxRounds
    /\ pc' = "race" /\ round' = round + 1
    /\ leg' = [l \in Legs |-> "gate"]
    /\ pre' = p
    /\ observed' = {} /\ final' = NoRead /\ verdict' = "none" /\ found' = {}
    /\ faults' = {}
    /\ UNCHANGED <<slot, flight, okd, reverted>>

LegStep(l, from, to) ==
    /\ pc = "race" /\ leg[l] = from
    /\ leg' = [leg EXCEPT ![l] = to]
    /\ UNCHANGED <<pc, round, pre, observed, final, verdict, found>>

Mine(l) == Val(l, round)

\* The leg passes the gate and its endpoint takes the transaction.
LegSends(l) ==
    /\ LegStep(l, "gate", "wait")
    /\ flight' = flight \cup {Mine(l)}
    /\ UNCHANGED <<slot, okd, reverted, faults>>

\* The send raises; the transaction may be on its way all the same.
LegSendFails(l) ==
    /\ LegStep(l, "gate", "error")
    /\ flight' \in {flight} \cup (IF Late THEN {flight \cup {Mine(l)}} ELSE {})
    /\ UNCHANGED <<slot, okd, reverted, faults>>

LegReceipt(l) ==
    /\ \/ Mine(l) \in okd /\ LegStep(l, "wait", "ok")
       \/ Mine(l) \in reverted /\ LegStep(l, "wait", "reverted")
    /\ UNCHANGED chainVars

\* The wait ends without a receipt, or a read of the receipt raises.
LegGivesUp(l) ==
    /\ LegStep(l, "wait", "unmined") \/ LegStep(l, "wait", "error")
    /\ Late \/ Mine(l) \notin flight
    /\ UNCHANGED chainVars

\* The watcher reads the slot.
Sample ==
    /\ pc = "race"
    /\ observed' = observed \cup {slot}
    /\ UNCHANGED <<chainVars, pc, round, leg, pre, final, verdict, found>>

AnySuccess == leg["x"] = "ok" \/ leg["y"] = "ok"

Landed(l, f) == f = Mine(l) \/ Mine(l) \in observed

\* slip: an unchanged slot means that nobody wrote
UnchangedIsFine(f) ==
    IF f = Mine("x") THEN "crosschain_won" ELSE
    IF f = Mine("y") THEN "l1_won" ELSE
    IF f = pre THEN "no_writer_landed" ELSE "lost_write"

\* The decoded slot decides.
Verdict(f) ==
    IF f = Mine("x") THEN "crosschain_won" ELSE
    IF f = Mine("y") THEN "l1_won" ELSE
    IF f = pre /\ ~AnySuccess THEN "no_writer_landed" ELSE "lost_write"

\* slip: a Y that won the race is no excuse
AnyFlicker(f) == Mine("x") \in observed /\ f # Mine("x")

PartialApply(f) == Mine("x") \in observed /\ f # Mine("x") /\ ~Landed("y", f)

\* _judge_crosschain_leg: a leg that raised is only logged.
CrosschainFindings ==
    (IF leg["x"] = "unmined" THEN {"never settled"} ELSE {})
        \cup (IF leg["x"] = "reverted"
              THEN {IF Mine("x") \in observed THEN "inner ran" ELSE "reverted"} ELSE {})

\* The last read and the judgement; the read may fail.
Judge == \E f \in {slot, NoRead} :
    /\ pc = "race" /\ \A l \in Legs : leg[l] \in Over
    /\ pc' = "judged"
    /\ final' = f
    /\ verdict' = IF f = NoRead THEN "final_read_failed" ELSE Verdict(f)
    /\ found' = CrosschainFindings \cup
         (IF f # NoRead /\ Verdict(f) = "lost_write" THEN {"lost write"} ELSE {}) \cup
         (IF f # NoRead /\ PartialApply(f) THEN {"partial apply"} ELSE {})
    /\ UNCHANGED <<chainVars, round, leg, pre, observed>>

-----------------------------------------------------------------------------
Finished == pc = "judged" /\ round = MaxRounds /\ flight = {} /\ UNCHANGED vars

Next ==
    \/ Chain \/ BeginRound \/ Sample \/ Judge \/ Finished
    \/ \E l \in Legs : LegSends(l) \/ LegSendFails(l) \/ LegReceipt(l) \/ LegGivesUp(l)

Spec == Init /\ [][Next]_vars

-----------------------------------------------------------------------------
(***************************************************************************)
(* "X and Y are unique to this round, so this classification ... stays     *)
(* sound no matter who else is transacting" (congestion.py:256-258): a     *)
(* chain that in this round executes every write once, or not at all, is   *)
(* not accused of a lost or partially applied write, if the slot could be  *)
(* read before the race.                                                   *)
(***************************************************************************)
NoFalseAlarm ==
    faults = {} /\ pre # NoRead => found \cap {"lost write", "partial apply", "inner ran"} = {}

(***************************************************************************)
(* "Partial apply - X was observed on L1 and then vanished without Y       *)
(* winning" (congestion.py:35, 297-299), and a write whose leg reported    *)
(* success (line 34): an X rolled out of the slot again, with the slot     *)
(* back at its old value, is reported if the watcher saw it or its receipt *)
(* was good.                                                               *)
(***************************************************************************)
VanishReported ==
    pc = "judged" /\ "vanish" \in faults /\ final # NoRead /\ final = pre
        /\ (leg["x"] = "ok" \/ (Mine("x") \in observed /\ Mine("y") \notin observed))
        => found \cap {"lost write", "partial apply"} # {}
=============================================================================
