--------------------------- MODULE ContractCaller ---------------------------
(***************************************************************************)
(* ContractCallerWorker (eeztest/workers/contract_caller.py): Counter and  *)
(* Logger are deployed on both chains; in each round combination "a" calls *)
(* on L1, "b" from L1 to L2 and "c" from L2 to L1, the latter two through  *)
(* the Logger and then directly.  A call is judged by its receipt and by   *)
(* the entry it leaves at its destination, told from older ones by the     *)
(* number of entries before it.  trouble names what may happen.            *)
(***************************************************************************)
EXTENDS Integers, Sequences, FiniteSets

CONSTANTS
    Rounds,      \* rounds
    MaxPasses,   \* bound on the deploy stages; the last one succeeds
    MaxDue,      \* bound on the effects on their way when another call may be given up
    Troubles     \* sets of what may happen, one per behaviour

ASSUME ContractCallerAssumption ==
    /\ Rounds \in Nat \ {0} /\ MaxPasses \in Nat \ {0} /\ MaxDue \in Nat \ {0}
    /\ Troubles \subseteq SUBSET
                 {"late",            \* receipts and effects may outlast their windows
                  "readFails",       \* a read may raise
                  "blackout",        \* all the reads of a window may raise
                  "sendFails", "deployFails",
                  "pollRaises",      \* a poll of wait_receipt may raise
                  "stop",            \* the run may be stopped
                  "drop", "revert",  \* a transaction is dropped, or reverts
                  "lost",            \* fault: good receipt, no effect
                  "partial",         \* fault: failed receipt, and its effect
                  "empty", "wrong",  \* fault: the recorded returnData
                  "stranger"}        \* fault: the derived sender

Combos == <<"a", "b", "c">>
Sides == {"l1", "l2"}
Both == {"Counter", "Logger"}
Plan == <<<<"l1", "Counter">>, <<"l1", "Logger">>, <<"l2", "Counter">>, <<"l2", "Logger">>>>

Empty == -1          \* no returnData
Unknown == -2        \* a read that failed
NoEntry == [who |-> "nobody", ret |-> 0]
NoEntries == [len |-> 0, last |-> NoEntry]

VARIABLES
    trouble, stopped,
    calls, incs,       \* per side: number and last of Logger.calls and Counter.increments
    due,               \* effects on their way
    receipt, landed,   \* what became of the last transaction, and its effect
    deployed, pass, k, \* self.deployed, deploy stages begun, place in the plan
    pc, round, next,   \* next: place in Combos
    mode, base, pre,   \* of the hop: its probe, the entries and the counter before it
    expected,          \* the proxy address could be computed
    rc, got, readable, \* the receipt seen, the new entry, whether reads went through
    observed, seen,    \* senders of this combination, and of each direction
    book, found,       \* verdicts and findings of this combination
    sent, done,        \* transactions sent; combinations run
    truth, clean, strange  \* observers: what happened to this combination's transactions;
                           \* nothing older was on its way; a strange sender was possible

chainVars == <<calls, incs, due, receipt, landed>>
deployVars == <<deployed, pass, k>>
placeVars == <<round, next>>
hopVars == <<mode, base, pre, expected, rc, got, readable>>
verdictVars == <<observed, seen, book, found>>
callerVars == <<trouble, stopped, chainVars, deployVars, pc, placeVars, hopVars, verdictVars,
          sent, done, truth, clean, strange>>

Combo == Combos[next]
Here == IF Combo = "b" THEN "l2" ELSE "l1"
Caller == IF Combo = "a" THEN "eoa" ELSE "proxy"
Senders == {"eoa", "proxy", "logger", "stranger"}
Entry == [who : Senders \cup {"nobody"}, ret : Int]

CallerTypeOK ==
    /\ trouble \in Troubles /\ stopped \in BOOLEAN
    /\ calls \in [Sides -> [len : Nat, last : Entry]] /\ incs \in [Sides -> [len : Nat, last : Entry]]
    /\ due \subseteq [by : 1 .. sent, side : Sides, mode : {"logger", "direct"},
                      who : {"eoa", "proxy"}, on : SUBSET Both]
    /\ receipt \in {"none", "ok", "reverted", "dropped"} /\ landed \in BOOLEAN
    /\ deployed \subseteq Sides \X Both /\ pass \in 1 .. MaxPasses /\ k \in 1 .. 4
    /\ pc \in {"deploy", "combo", "pre", "send", "receipt", "await", "judge", "settle", "idle",
               "end", "dead"}
    /\ round \in 0 .. Rounds /\ next \in 1 .. 3
    /\ mode \in {"logger", "direct"} /\ base \in Nat /\ pre \in Nat /\ expected \in BOOLEAN
    /\ rc \in {"none", "ok", "reverted"} /\ got \in Entry /\ readable \in BOOLEAN
    /\ observed \in Seq(Senders) /\ Len(observed) <= 2 /\ seen \in [{"b", "c"} -> SUBSET Senders]
    /\ book \in [pass : 0 .. 2, fail : 0 .. 2, inc : 0 .. 3]
    /\ sent \in Nat /\ done \subseteq {"a", "b", "c"} /\ clean \in BOOLEAN /\ strange \in BOOLEAN

NoVerdict == [pass |-> 0, fail |-> 0, inc |-> 0]

CallerInit ==
    /\ trouble \in Troubles /\ stopped = FALSE
    /\ calls = [s \in Sides |-> NoEntries] /\ incs = [s \in Sides |-> NoEntries]
    /\ due = {} /\ receipt = "none" /\ landed = FALSE
    /\ deployed = {} /\ pass = 1 /\ k = 1
    /\ pc = "deploy" /\ round = 0 /\ next = 1
    /\ mode = "logger" /\ base = 0 /\ pre = 0 /\ expected = TRUE
    /\ rc = "none" /\ got = NoEntry /\ readable = TRUE
    /\ observed = <<>> /\ seen = [d \in {"b", "c"} |-> {}]
    /\ book = NoVerdict /\ found = {}
    /\ sent = 0 /\ done = {} /\ truth = {} /\ clean = TRUE /\ strange = FALSE

-----------------------------------------------------------------------------
\* The chains.

Add(e, entry) == [len |-> e.len + 1, last |-> entry]

\* Counter.increment: the sender and the new value are kept.
Increment(s, who) == [incs EXCEPT ![s] = Add(@, [who |-> who, ret |-> incs[s].len + 1])]

\* Logger.execute: the caller and what the inner call returned are kept.
Execute(s, who, ret) == [calls EXCEPT ![s] = Add(@, [who |-> who, ret |-> ret])]

\* e.on: those of the two contracts that are still the ones deployed.
Land(e, who, ret) ==
    /\ incs' = IF "Counter" \in e.on
               THEN Increment(e.side, IF e.mode = "logger" THEN "logger" ELSE who) ELSE incs
    /\ calls' = IF e.mode = "logger" /\ "Logger" \in e.on THEN Execute(e.side, who, ret) ELSE calls
    /\ due' = due \ {e}

ChainStep ==
    UNCHANGED <<trouble, stopped, deployVars, pc, placeVars, hopVars, verdictVars, sent, done, clean>>

Latest == {e \in due : e.by = sent}
Flaws(e) == trouble \intersect ((IF e.mode = "logger" THEN {"empty", "wrong"} ELSE {})
                                \cup (IF e.who = "proxy" THEN {"stranger"} ELSE {}))

\* The effect of the last transaction; on one chain it comes with the receipt.
Apply == \E e \in Latest : \E flaw \in {"none"} \cup Flaws(e) :
    /\ receipt \in {"none", "ok"}
    /\ Land(e, IF flaw = "stranger" THEN "stranger" ELSE e.who,
            CASE flaw = "empty" -> Empty [] flaw = "wrong" -> 0 [] OTHER -> incs[e.side].len + 1)
    /\ landed' = TRUE
    /\ receipt' = (IF e.who = "eoa" THEN "ok" ELSE receipt)
    /\ truth' = truth \cup ({flaw} \ {"none"})
    /\ strange' = (strange \/ flaw = "stranger")
    /\ ChainStep

ApplyOlder == \E e \in due \ Latest :
    /\ Land(e, e.who, incs[e.side].len + 1)
    /\ ChainStep /\ UNCHANGED <<receipt, landed, truth, strange>>

Pending == receipt = "none" /\ Latest # {}

\* L1 and L2: the receipt, before or after the effect.
Confirm ==
    /\ receipt = "none" /\ sent > 0 /\ (landed \/ \E e \in Latest : e.who = "proxy")
    /\ receipt' = "ok"
    /\ ChainStep /\ UNCHANGED <<calls, incs, due, landed, truth, strange>>

Fails(what, result) ==
    /\ what \in trouble /\ Pending
    /\ receipt' = result /\ due' = due \ Latest /\ truth' = truth \cup {what}
    /\ ChainStep /\ UNCHANGED <<calls, incs, landed, strange>>

Revert == Fails("revert", "reverted")
DropTx == Fails("drop", "dropped")
\* Fault: the receipt is good and nothing happens.
LoseEffect == (\E e \in Latest : e.who = "proxy") /\ Fails("lost", "ok")

\* Fault: the transaction reverts after its call took effect.
RevertApplied ==
    /\ "partial" \in trouble /\ receipt = "none" /\ landed
    /\ receipt' = "reverted" /\ truth' = truth \cup {"revert", "partial"}
    /\ ChainStep /\ UNCHANGED <<calls, incs, due, landed, strange>>

Chain ==
    \/ Apply \/ ApplyOlder \/ Confirm
    \/ Revert \/ DropTx \/ LoseEffect \/ RevertApplied

-----------------------------------------------------------------------------
\* Stage 1: the deployments.

Goto(from, to) == pc = from /\ pc' = to
DeployStep ==
    UNCHANGED <<trouble, stopped, receipt, landed, placeVars, hopVars, verdictVars, sent, done,
                truth, clean, strange>>

Missing == {Plan[i] : i \in 1 .. 4} \ deployed

AfterDeploy == IF pass = 1 \/ Missing' = {} THEN "combo" ELSE "idle"

PlanNext ==
    /\ pc = "deploy" /\ ~stopped
    /\ IF k < 4 THEN k' = k + 1 /\ pc' = pc ELSE k' = 1 /\ pc' = AfterDeploy
    /\ pass' = pass

\* A fresh contract, in the place of one that may be there already.
Deploy ==
    LET s == Plan[k][1]  name == Plan[k][2] IN
    /\ deployed' = deployed \cup {Plan[k]}
    /\ incs' = IF name = "Counter" THEN [incs EXCEPT ![s] = NoEntries] ELSE incs
    /\ calls' = IF name = "Logger" THEN [calls EXCEPT ![s] = NoEntries] ELSE calls
    /\ due' = {IF e.side = s THEN [e EXCEPT !.on = @ \ {name}] ELSE e : e \in due}
    /\ PlanNext /\ DeployStep

\* Not sent, not mined in time, reverted, or no code where it should be.
DeployFails ==
    /\ "deployFails" \in trouble /\ pass < MaxPasses
    /\ deployed' = deployed
    /\ PlanNext /\ DeployStep /\ UNCHANGED <<calls, incs, due>>

\* wait_receipt raises, and nothing catches it: the thread is gone.
DeployRaises ==
    /\ "pollRaises" \in trouble
    /\ Goto("deploy", "dead")
    /\ DeployStep /\ UNCHANGED <<deployVars, calls, incs, due>>

\* slip: only L1 is looked at
RetryL1 ==
    /\ Goto("idle", "deploy") /\ ~stopped /\ pass < MaxPasses
    /\ \E c \in Missing : c[1] = "l1"
    /\ pass' = pass + 1 /\ round' = 0
    /\ UNCHANGED <<trouble, stopped, chainVars, deployed, k, next, hopVars, verdictVars, sent, done,
                   truth, clean, strange>>

\* While idling the worker deploys again, everything, until nothing is missing.
Retry ==
    /\ Goto("idle", "deploy") /\ ~stopped /\ pass < MaxPasses
    /\ Missing # {}
    /\ pass' = pass + 1 /\ round' = 0
    /\ UNCHANGED <<trouble, stopped, chainVars, deployed, k, next, hopVars, verdictVars, sent, done,
                   truth, clean, strange>>

-----------------------------------------------------------------------------
\* Stage 3: the combinations.

CallStep == UNCHANGED <<trouble, stopped, deployVars>>

\* The next place in the rounds, after a combination or instead of one.
AfterCombo ==
    IF next < 3 THEN next' = next + 1 /\ round' = round /\ pc' = "combo"
    ELSE next' = 1 /\ round' = round + 1 /\ pc' = (IF round + 1 < Rounds THEN "combo" ELSE "idle")

AfterHop == IF Combo = "a" THEN AfterCombo ELSE pc' = "settle" /\ UNCHANGED placeVars

Booked(p, f, i) ==
    book' = [pass |-> book.pass + p, fail |-> book.fail + f, inc |-> book.inc + i]

Fail(what) == Booked(0, 1, 0) /\ found' = found \cup what
Inconclusive == Booked(0, 0, 1) /\ found' = found

Ready == {Here} \X Both \subseteq deployed

SkipCombo ==
    /\ pc = "combo" /\ ~stopped /\ ~Ready
    /\ AfterCombo
    /\ CallStep
    /\ UNCHANGED <<chainVars, hopVars, verdictVars, sent, done, truth, clean, strange>>

StartCombo == \E known \in {TRUE, Combo = "a" \/ "readFails" \notin trouble} :
    /\ Goto("combo", "pre") /\ ~stopped /\ Ready
    /\ expected' = known
    /\ mode' = "logger"
    /\ observed' = <<>> /\ book' = NoVerdict /\ found' = {}
    /\ done' = done \cup {Combo}
    /\ truth' = {} /\ clean' = (due = {} /\ (sent = 0 \/ receipt # "none"))
    /\ CallStep
    /\ UNCHANGED <<chainVars, placeVars, base, pre, rc, got, readable, seen, sent, strange>>

\* The entries of the contract a hop calls: what _read_calls and _read_increments return.
Entries == IF mode = "logger" THEN calls[Here] ELSE incs[Here]

Reads(v) == {v} \cup (IF "readFails" \in trouble THEN {Unknown} ELSE {})

\* slip: a read that failed is an empty list
FailedReadIsEmpty == \E n \in Reads(Entries.len) :
    /\ Goto("pre", "send")
    /\ base' = (IF n = Unknown THEN 0 ELSE n) /\ pre' = incs[Here].len
    /\ clean' = (clean /\ due = {}) /\ strange' = (strange \/ due # {})
    /\ CallStep
    /\ UNCHANGED <<chainVars, placeVars, mode, expected, rc, got, readable, verdictVars, sent,
                   done, truth>>

PreRead == \E n \in Reads(Entries.len) :
    /\ pc = "pre"
    /\ IF n = Unknown THEN AfterHop /\ Inconclusive /\ UNCHANGED <<base, pre>>
       ELSE /\ pc' = "send" /\ base' = n /\ pre' = incs[Here].len
            /\ UNCHANGED <<placeVars, book, found>>
    /\ clean' = (clean /\ due = {}) /\ strange' = (strange \/ due # {})
    /\ CallStep
    /\ UNCHANGED <<chainVars, mode, expected, rc, got, readable, observed, seen, sent, done, truth>>

Broadcast ==
    /\ sent' = sent + 1
    /\ due' = due \cup {[by |-> sent + 1, side |-> Here, mode |-> mode, who |-> Caller, on |-> Both]}
    /\ receipt' = "none" /\ landed' = FALSE

Send ==
    /\ Goto("send", "receipt")
    /\ Broadcast
    /\ got' = NoEntry /\ rc' = "none"
    /\ CallStep
    /\ UNCHANGED <<calls, incs, placeVars, mode, base, pre, expected, readable, verdictVars, done,
                   truth, clean, strange>>

\* The call raises, whether or not the transaction has gone out.
SendRaises == \E out \in {FALSE, Cardinality(due) < MaxDue} :
    /\ "sendFails" \in trouble /\ pc = "send"
    /\ IF out THEN Broadcast ELSE UNCHANGED <<sent, due, receipt, landed>>
    /\ AfterHop
    /\ Fail({"unsent"})
    /\ CallStep
    /\ UNCHANGED <<calls, incs, hopVars, observed, seen, done, truth, clean, strange>>

WindowOver == "late" \in trouble /\ Cardinality(due) <= MaxDue

Receipt ==
    /\ pc = "receipt"
    /\ \/ receipt \in {"ok", "reverted"} /\ rc' = receipt
       \/ /\ receipt = "dropped" \/ (receipt = "none" /\ WindowOver) \/ stopped
          /\ rc' = "none"
    /\ pc' = (IF Combo = "c" \/ (Combo = "b" /\ rc' = "ok") THEN "await" ELSE "judge")
    /\ truth' = truth \cup (IF rc' = "none" THEN {"unmined"} ELSE {})
    /\ CallStep
    /\ UNCHANGED <<chainVars, placeVars, mode, base, pre, expected, got, readable, verdictVars,
                   sent, done, clean, strange>>

\* A poll raises: _stage_combinations books the failure and goes on.
ComboRaises ==
    /\ "pollRaises" \in trouble /\ pc = "receipt" /\ Cardinality(due) <= MaxDue
    /\ AfterCombo
    /\ Fail({"exception"})
    /\ CallStep
    /\ UNCHANGED <<chainVars, hopVars, observed, seen, sent, done, truth, clean, strange>>

\* slip: a list that has not shrunk shows the entry
NotShorter == Entries.len >= base

Longer == Entries.len > base

\* _wait_entries, and the read after a window that showed nothing.
AwaitEntry ==
    /\ Goto("await", "judge")
    /\ \/ Longer /\ got' = Entries.last /\ readable' = TRUE /\ truth' = truth
       \/ /\ (~Longer /\ (WindowOver \/ Latest = {})) \/ stopped \/ "blackout" \in trouble
          /\ got' = NoEntry
          /\ readable' \in {TRUE, trouble \intersect {"readFails", "blackout"} = {}}
          /\ truth' = truth \cup (IF landed THEN {} ELSE {"unapplied"})
    /\ CallStep
    /\ UNCHANGED <<chainVars, placeVars, mode, base, pre, expected, rc, verdictVars, sent, done,
                   clean, strange>>

-----------------------------------------------------------------------------
\* The verdict on a call.

NextHop ==
    IF mode = "direct" \/ stopped THEN pc' = "settle" /\ mode' = mode
    ELSE pc' = "pre" /\ mode' = "direct"

JudgeStep ==
    /\ CallStep
    /\ UNCHANGED <<chainVars, base, pre, expected, rc, got, readable, sent, done, truth, clean, strange>>

\* slip: a failed receipt is enough
NoPartial ==
    /\ pc = "judge" /\ rc # "ok"
    /\ AfterHop
    /\ Fail({IF rc = "none" THEN "never_mined" ELSE "reverted"})
    /\ JudgeStep /\ UNCHANGED <<mode, observed, seen>>

JudgeReceipt ==
    /\ pc = "judge" /\ rc # "ok"
    /\ AfterHop
    /\ Fail(IF rc = "none" THEN {"never_mined"}
            ELSE {"reverted"} \cup (IF got # NoEntry THEN {"partial"} ELSE {}))
    /\ JudgeStep /\ UNCHANGED <<mode, observed, seen>>

\* slip: a counter that could not be read is a counter that disagrees
ReadOrDisagree(ret, expect) ==
    IF ret = Empty THEN {"empty"} ELSE IF expect # ret THEN {"disagrees"} ELSE {}

\* _assert_return_data.
BadReturn(ret, expect) ==
    IF ret = Empty THEN {"empty"} ELSE IF expect \notin {ret, Unknown} THEN {"disagrees"} ELSE {}

\* The same-chain baseline: the counter, the record, what it holds and who called.
JudgeBaseline == \E post \in Reads(incs[Here].len), n \in Reads(calls[Here].len) :
    LET last == calls[Here].last  bad == BadReturn(last.ret, post) IN
    /\ pc = "judge" /\ rc = "ok" /\ Combo = "a"
    /\ AfterCombo
    /\ IF post = Unknown THEN Inconclusive
       ELSE IF post # pre + 1 THEN Fail({"not_applied"})
       ELSE IF n = Unknown THEN Inconclusive
       ELSE IF n <= base THEN Fail({"no_call"})
       ELSE IF bad # {} THEN Fail(bad)
       ELSE Booked(1, 0, 0) /\ found' = found \cup (IF last.who = "eoa" THEN {} ELSE {"sender"})
    /\ JudgeStep /\ UNCHANGED <<mode, observed, seen>>

JudgeUnapplied ==
    /\ pc = "judge" /\ rc = "ok" /\ Combo # "a" /\ got = NoEntry
    /\ AfterHop
    /\ IF readable THEN Fail({"not_applied"}) ELSE Inconclusive
    /\ JudgeStep /\ UNCHANGED <<mode, observed, seen>>

\* _note_identity.
Drift == IF seen[Combo] = {} \/ got.who \in seen[Combo] THEN {} ELSE {"drift"}

\* A new entry: its sender is kept, and through the Logger what was returned.
JudgeEntry == \E expect \in Reads(incs[Here].len) :
    LET bad == IF mode = "logger" THEN BadReturn(got.ret, expect) ELSE {}
        blind == IF mode = "logger" /\ expect = Unknown THEN 1 ELSE 0 IN
    /\ pc = "judge" /\ rc = "ok" /\ Combo # "a" /\ got # NoEntry
    /\ seen' = [seen EXCEPT ![Combo] = @ \cup {got.who}]
    /\ found' = found \cup Drift \cup bad
    /\ Booked(0, IF bad = {} THEN 0 ELSE 1, blind)
    /\ IF bad = {} THEN NextHop /\ observed' = Append(observed, got.who)
       ELSE pc' = "settle" /\ UNCHANGED <<mode, observed>>
    /\ JudgeStep /\ UNCHANGED placeVars

Stable == \A i \in 1 .. Len(observed) : observed[i] = observed[1]
Mismatch == observed # <<>> /\ expected /\ observed[1] # "proxy"

\* A pass needs two senders, equal, and the one computed.
Settlement ==
    IF Mismatch \/ ~Stable THEN Booked(0, Len(observed), IF Len(observed) = 1 THEN 1 ELSE 0)
    ELSE IF Len(observed) = 1 THEN Booked(0, 0, 1) ELSE Booked(Len(observed), 0, 0)

\* _settle_identity.
Settle ==
    /\ pc = "settle"
    /\ AfterCombo
    /\ Settlement
    /\ found' = found \cup (IF Mismatch THEN {"mismatch"} ELSE {})
                      \cup (IF Stable THEN {} ELSE {"unstable"})
    /\ JudgeStep /\ UNCHANGED <<mode, observed, seen>>

Stop ==
    /\ "stop" \in trouble /\ ~stopped /\ stopped' = TRUE
    /\ UNCHANGED <<trouble, chainVars, deployVars, pc, placeVars, hopVars, verdictVars, sent, done,
                   truth, clean, strange>>

LeaveSuite ==
    /\ stopped /\ pc \in {"deploy", "combo", "idle"} /\ pc' = "end"
    /\ UNCHANGED <<trouble, stopped, chainVars, deployVars, placeVars, hopVars, verdictVars, sent, done,
                   truth, clean, strange>>

Worker ==
    \/ Deploy \/ DeployFails \/ DeployRaises \/ Retry \/ LeaveSuite
    \/ SkipCombo \/ StartCombo \/ PreRead \/ Send \/ SendRaises \/ Receipt \/ ComboRaises
    \/ AwaitEntry \/ JudgeReceipt \/ JudgeBaseline \/ JudgeUnapplied \/ JudgeEntry \/ Settle

Finished ==
    /\ pc \in {"end", "dead"} \/ (pc = "idle" /\ ~stopped /\ (Missing = {} \/ pass = MaxPasses))
    /\ UNCHANGED callerVars

CallerNext == Chain \/ Worker \/ Stop \/ Finished

CallerSpec == CallerInit /\ [][CallerNext]_callerVars

\* The worker's thread runs, and the chains settle what they were given.
FairCallerSpec == CallerSpec /\ WF_callerVars(Worker) /\ WF_callerVars(Chain)

-----------------------------------------------------------------------------
\* What each finding says of the chain.
Says(f) ==
    CASE f = "never_mined" -> {"unmined", "drop"} [] f = "reverted" -> {"revert"}
      [] f = "partial" -> {"partial"} [] f = "not_applied" -> {"unapplied", "lost"}
      [] f = "no_call" -> {"lost"} [] f = "empty" -> {"empty"} [] f = "disagrees" -> {"wrong"}
      [] f \in {"sender", "mismatch", "unstable"} -> {"stranger"}
      [] f = "drift" -> IF strange THEN {"stranger", "earlier"} ELSE {"stranger"}

(***************************************************************************)
(* "A read hiccup is never used as a trusted 'empty' baseline"             *)
(* (contract_caller.py:28-30) and the reads of 938-943: in a combination   *)
(* that starts with nothing older on its way and is not cut short, each    *)
(* finding states what the chain did to one of its own transactions.       *)
(***************************************************************************)
NoFalseAlarm ==
    clean /\ ~stopped =>
      \A f \in found \ {"unsent", "exception"} :
        (truth \cup (IF strange THEN {"earlier"} ELSE {})) \intersect Says(f) # {}

(***************************************************************************)
(* "An unknown is not a pass" (contract_caller.py:106-107, 843-855):       *)
(* a combination that passes had its calls mined, applied, answered and    *)
(* from the computed sender, save what its inconclusive reads leave open.  *)
(***************************************************************************)
PassMeansDelivered ==
    book.pass > 0 /\ clean =>
      truth \subseteq (IF expected THEN {} ELSE {"stranger"}) \cup (IF book.inc > 0 THEN {"wrong"} ELSE {})

(***************************************************************************)
(* Bugs A and B, the "partial apply" and the "silent no-op" of the list of *)
(* findings (contract_caller.py:32-44): when nothing is late and the reads *)
(* and sends succeed, all the chain did wrong to a hop is found, but for a *)
(* partial apply from L1 to L2, which is found as a revert only, and what  *)
(* a call that reverted had returned, which is not looked at.              *)
(***************************************************************************)
FaultsReported ==
    (pc = "settle" \/ (pc = "combo" /\ Combo = "b")) /\ clean /\ ~stopped
      /\ trouble \intersect {"late", "readFails", "blackout", "sendFails", "pollRaises"} = {} =>
        \A t \in truth \intersect ({"drop", "revert", "lost"}
                                  \cup (IF "revert" \in truth THEN {} ELSE {"empty", "wrong"})
                                  \cup (IF Combo = "c" THEN {"partial"} ELSE {})) :
          \E f \in found : t \in Says(f)

(***************************************************************************)
(* "A one-shot deploy would leave the correctness suite permanently dead"  *)
(* (contract_caller.py:140-143): if deployments fail for a while, every    *)
(* combination is run all the same, unless the run is stopped or dies.     *)
(***************************************************************************)
SuiteRuns == <>(done = {"a", "b", "c"} \/ pc \in {"end", "dead"})
=============================================================================
