---------------------------- MODULE ProxyBuilder ----------------------------
(***************************************************************************)
(* ProxyBuilderWorker (eeztest/workers/proxy_builder.py): what becomes of  *)
(* a deposit whose proxy does not exist yet.  V1 creates the proxy first   *)
(* (the control), V2 does not, and the matrix repeats V2 at every L1       *)
(* endpoint from senders of their own.  V1, V2 and the funding of those    *)
(* senders share the nonces of the master key, where a transaction that    *)
(* never comes holds up all behind it.  trouble names what may happen.     *)
(***************************************************************************)
EXTENDS Integers, Sequences, FiniteSets

CONSTANTS
    Endpoints,      \* sequence of the L1 endpoints, the cross-chain front first
    Policies,       \* what an endpoint may do with a deposit to a missing proxy
    MaxIterations,  \* bound on the iterations
    Troubles        \* sets of what may happen, one per behaviour

ASSUME ProxyBuilderAssumption ==
    /\ Len(Endpoints) \in Nat \ {0} /\ \A i, j \in 1 .. Len(Endpoints) : i # j => Endpoints[i] # Endpoints[j]
    /\ Policies \subseteq {"create", "keep", "revert", "drop", "reject"}
    /\ MaxIterations \in Nat
    /\ Troubles \subseteq SUBSET
                 {"late",       \* the master key's transactions and credits may outlast their windows
                  "probesLate", \* those of the matrix may
                  "blackout",   \* all the reads of a window may raise
                  "refused",    \* an endpoint may refuse for a fee, funds or a nonce
                  "sendFails",  \* a send may raise otherwise, a sender may stay unfunded
                  "clearFails", \* the replacement of a stuck transaction may fail
                  "unknown",    \* the plain RPC may not know what the front has dropped
                  "sick",       \* fault: the control path may fail in any way
                  "readFails",  \* a proxy may not be computed, a gas price not read
                  "stop"}       \* the run may be stopped

N == Len(Endpoints)
Eps == {Endpoints[i] : i \in 1 .. N}
Front == Endpoints[1]

VARIABLES
    trouble, stop,
    policy,      \* what each endpoint does
    master,      \* the master key's transactions, by nonce, without earlier settled ones
    probe,       \* per endpoint, its trial of this matrix
    pc, j,       \* j: place in the endpoints
    iterations,
    found,       \* findings of V1 and V2 in this iteration
    diverged,    \* the last matrix found a divergence
    stats        \* what the iteration adds to ep_stats

chainVars == <<trouble, policy>>
vars == <<chainVars, stop, master, probe, pc, j, iterations, found, diverged, stats>>

TxStages == {"sent", "ok", "reverted", "lost", "credited"}
Tx == [kind : {"plain", "create", "deposit", "implicit", "again"}, stage : TxStages]
Untested == {"inconclusive_unfunded", "transport_error", "unknown", "none"}
Verdicts == Untested \cup {"auto_created", "mined_no_credit", "reverted", "accepted_never_mined",
                           "rejected_by_rpc"}
NoProbe == [verdict |-> "none", fund |-> 0, funded |-> FALSE, stage |-> "none", seen |-> "none"]
Counts == {"probes", "accepted", "rejected", "mined", "credited", "dropped", "reverted",
           "no_credit", "inconclusive", "transport"}   \* transport: matrix_sign_errors

TypeOK ==
    /\ trouble \in Troubles /\ stop \in BOOLEAN
    /\ policy \in [Eps -> Policies]
    /\ master \in Seq(Tx)
    /\ probe \in [Eps -> [verdict : Verdicts, fund : 0 .. Len(master), funded : BOOLEAN,
                          stage : TxStages \cup {"none"},
                          seen : {"none", "unmined", "ok", "reverted", "credited", "uncredited"}]]
    /\ pc \in {"idle", "create", "created", "deposit", "deposited", "credit", "v2", "v2sent",
               "v2clear", "v2credit", "prepare", "fund", "funding", "broadcast", "await", "end"}
    /\ j \in 1 .. N + 1 /\ iterations \in 0 .. MaxIterations
    /\ diverged \in BOOLEAN /\ stats \in [Eps -> [Counts -> Nat]]

Init ==
    /\ trouble \in Troubles /\ stop = FALSE
    /\ policy \in [Eps -> Policies]
    /\ master = <<>>
    /\ probe = [e \in Eps |-> NoProbe]
    /\ pc = "idle" /\ j = 1 /\ iterations = 0
    /\ found = {} /\ diverged = FALSE
    /\ stats = [e \in Eps |-> [c \in Counts |-> 0]]

-----------------------------------------------------------------------------
\* The chains.  A transaction is mined after all with smaller nonces.

Settled == {"ok", "reverted", "credited"}
Outcomes(p) ==
    CASE p \in {"create", "keep"} -> {"ok"} [] p = "revert" -> {"reverted"} [] OTHER -> {"lost"}

MasterOutcomes(kind) ==
    CASE kind = "plain" -> {"ok"}
      [] kind = "implicit" -> Outcomes(policy[Front])
      [] OTHER -> {"ok"} \cup (IF "sick" \in trouble THEN {"reverted", "lost"} ELSE {})

ChainStep == UNCHANGED <<chainVars, stop, pc, j, iterations, found, diverged, stats>>

MineMaster(i) == \E s \in MasterOutcomes(master[i].kind) :
    /\ master[i].stage = "sent" /\ \A h \in 1 .. i - 1 : master[h].stage \in Settled
    /\ master' = [master EXCEPT ![i].stage = s]
    /\ ChainStep /\ UNCHANGED probe

\* The end of a deposit that is not credited on L2.
Uncredited(kind) == (kind = "implicit" /\ policy[Front] = "keep") \/ (kind = "deposit" /\ "sick" \in trouble)

CreditMaster(i) ==
    /\ master[i].stage = "ok" /\ master[i].kind \in {"deposit", "implicit"}
    /\ master[i].kind = "implicit" => policy[Front] = "create"
    /\ master' = [master EXCEPT ![i].stage = "credited"]
    /\ ChainStep /\ UNCHANGED probe

\* slip: one sender for all the trials
SharedSender(e) == \A f \in Eps : probe[f].stage # "lost"

OwnSender(e) == TRUE

MineProbe(e) == \E s \in Outcomes(policy[e]) :
    /\ probe[e].stage = "sent" /\ OwnSender(e)
    /\ probe' = [probe EXCEPT ![e].stage = s]
    /\ ChainStep /\ UNCHANGED master

CreditProbe(e) ==
    /\ probe[e].stage = "ok" /\ policy[e] = "create"
    /\ probe' = [probe EXCEPT ![e].stage = "credited"]
    /\ ChainStep /\ UNCHANGED master

Chain ==
    \/ \E i \in 1 .. Len(master) : MineMaster(i) \/ CreditMaster(i)
    \/ \E e \in Eps : MineProbe(e) \/ CreditProbe(e)

-----------------------------------------------------------------------------
\* V1 and V2: the last transaction of the master key is the one looked at.

Last == master[Len(master)]
Goto(from, to) == pc = from /\ pc' = to
MasterSend(kind) == master' = Append(master, [kind |-> kind, stage |-> "sent"])
Report(f) == found' = found \cup {f}
VariantStep == UNCHANGED <<chainVars, stop, probe, j, iterations, diverged, stats>>

\* A wait ends without an answer.
CutShort == stop \/ "blackout" \in trouble
Hopeless(i) == \E h \in 1 .. i : master[h].stage = "lost"

\* slip: no deadline
NoDeadline(i) == stop

NoReceipt(i) == Hopeless(i) \/ CutShort \/ ("late" \in trouble /\ master[i].stage = "sent")

\* After a variant: the next one, unless the run is stopping.
After(to) == IF stop THEN "end" ELSE to

\* What concerns the last iteration only is forgotten.
BeginIteration ==
    /\ Goto("idle", "create") /\ ~stop /\ iterations < MaxIterations
    /\ iterations' = iterations + 1
    /\ probe' = [e \in Eps |-> NoProbe] /\ diverged' = FALSE /\ found' = {}
    /\ stats' = [e \in Eps |-> [c \in Counts |-> 0]]
    /\ \E h \in 0 .. Len(master) :
         /\ \A i \in 1 .. Len(master) : master[i].stage \in Settled <=> i <= h
         /\ master' = SubSeq(master, h + 1, Len(master))
    /\ UNCHANGED <<chainVars, stop, j>>

\* What the front has dropped, once or again: its next unreserved nonce.
Dropped(i) == master[i].kind \in {"implicit", "again"} /\ master[i].stage = "lost"
Gap == \E i \in 1 .. Len(master) : Dropped(i)
ImplicitAt == IF Gap THEN CHOOSE i \in 1 .. Len(master) : Dropped(i) ELSE Len(master)

\* The front has taken the client's cursor back to what it has dropped; the nonces
\* behind are queued at the plain RPC already and refused there.
NonceTaken == \E i \in 1 .. Len(master) - 1 : master[i].kind = "again"

SendCreate ==
    /\ pc = "create"
    /\ \/ pc' = "created" /\ MasterSend("create")
       \/ /\ trouble \intersect {"sendFails", "readFails"} # {} \/ NonceTaken
          /\ pc' = After("v2") /\ master' = master
    /\ VariantStep /\ UNCHANGED found

\* The receipt of the creation, and the code that should be there.
Created ==
    /\ pc = "created"
    /\ \/ Last.stage = "ok" /\ pc' = "deposit" /\ found' = found
       \/ /\ Last.stage = "ok" /\ ("sick" \in trouble \/ CutShort)
          /\ pc' = After("v2") /\ Report("explicit_create_no_code")
       \/ Last.stage = "reverted" /\ pc' = After("v2") /\ Report("explicit_create_reverted")
       \/ NoReceipt(Len(master)) /\ pc' = After("v2") /\ Report("explicit_create_never_mined")
    /\ VariantStep /\ UNCHANGED master

SendDeposit ==
    /\ pc = "deposit"
    /\ \/ pc' = "deposited" /\ MasterSend("deposit")
       \/ "sendFails" \in trouble /\ pc' = After("v2") /\ master' = master
    /\ VariantStep /\ UNCHANGED found

Deposited ==
    /\ pc = "deposited"
    /\ \/ Last.stage \in {"ok", "credited"} /\ pc' = "credit" /\ found' = found
       \/ Last.stage = "reverted" /\ pc' = After("v2") /\ Report("explicit_deposit_reverted")
       \/ NoReceipt(Len(master)) /\ pc' = After("v2") /\ Report("explicit_deposit_never_mined")
    /\ VariantStep /\ UNCHANGED master

NoCredit == CutShort \/ (Last.stage = "ok" /\ ("late" \in trouble \/ Uncredited(Last.kind)))

Credit ==
    /\ Goto("credit", After("v2"))
    /\ \/ Last.stage = "credited" /\ found' = found
       \/ NoCredit /\ Report("explicit_no_credit")
    /\ VariantStep /\ UNCHANGED master

\* The deposit at the empty address; a refusal about fee, funds or nonce is no finding.
\* Where the front has dropped one it names that nonce, takes the deposit and drops it too.
SendImplicit ==
    /\ pc = "v2"
    /\ \/ /\ policy[Front] # "reject" /\ pc' = "v2sent" /\ found' = found
          /\ IF Gap THEN master' = [master EXCEPT ![ImplicitAt].kind = "again"]
             ELSE MasterSend("implicit")
       \/ /\ policy[Front] = "reject" /\ pc' = After("prepare") /\ master' = master
          /\ Report("implicit_rejected_by_rpc")
       \/ /\ trouble \intersect {"sendFails", "readFails", "refused"} # {}
          /\ pc' = After("prepare") /\ UNCHANGED <<master, found>>
    /\ VariantStep

ImplicitReceipt ==
    /\ pc = "v2sent"
    /\ \/ Last.stage \in {"ok", "credited"} /\ pc' = "v2credit" /\ found' = found
       \/ Last.stage = "reverted" /\ pc' = After("prepare") /\ Report("implicit_reverted")
       \/ NoReceipt(Len(master)) /\ pc' = "v2clear" /\ Report("implicit_dropped")
    /\ VariantStep /\ UNCHANGED master

\* slip: the transaction of the next nonce is replaced
ReplacesNext(i) == UNCHANGED master

\* The same nonce again, at twice the price and the plain RPC.
Replace(i) ==
    master' = IF master[i].stage \in {"sent", "lost"}
              THEN [master EXCEPT ![i] = [kind |-> "plain", stage |-> "sent"]] ELSE master

\* _clear_nonce_gap: best effort, and nothing if the plain RPC does not know the hash.
ClearGap ==
    /\ Goto("v2clear", After("prepare"))
    /\ \/ Replace(ImplicitAt)
       \/ trouble \intersect {"clearFails", "unknown"} # {} /\ master' = master
    /\ VariantStep /\ UNCHANGED found

ImplicitCredit ==
    /\ Goto("v2credit", After("prepare"))
    /\ \/ Last.stage = "credited" /\ Report("implicit_auto_created")
       \/ NoCredit /\ Report("implicit_no_credit")
    /\ VariantStep /\ UNCHANGED master

-----------------------------------------------------------------------------
\* The matrix.

Ep == Endpoints[j]
Plus(counts, cs) == [c \in Counts |-> counts[c] + (IF c \in cs THEN 1 ELSE 0)]
Count(e, cs) == stats' = [stats EXCEPT ![e] = Plus(@, cs)]
MatrixStep == UNCHANGED <<chainVars, stop, iterations, found>>
Walk(from, to) == pc = from /\ IF j < N THEN j' = j + 1 /\ pc' = pc ELSE j' = 1 /\ pc' = to
Trials == {e \in Eps : probe[e].verdict # "none"}

\* _prepare_probe for each endpoint; some or all may fail.
Prepare == \E ready \in SUBSET Eps :
    /\ ready = Eps \/ "readFails" \in trouble \/ stop
    /\ Goto("prepare", IF ready = {} THEN "idle" ELSE "fund") /\ j' = 1
    /\ probe' = [e \in Eps |-> IF e \in ready THEN [NoProbe EXCEPT !.verdict = "unknown"] ELSE NoProbe]
    /\ stats' = [e \in Eps |-> IF e \in ready THEN [stats[e] EXCEPT !.probes = @ + 1] ELSE stats[e]]
    /\ MatrixStep /\ UNCHANGED <<master, diverged>>

Unfunded(e) ==
    /\ probe' = [probe EXCEPT ![e].verdict = "inconclusive_unfunded"]
    /\ Count(e, {"inconclusive"})

FundSender ==
    /\ Walk("fund", "funding")
    /\ \/ /\ Ep \in Trials /\ ~stop
          /\ MasterSend("plain") /\ probe' = [probe EXCEPT ![Ep].fund = Len(master')] /\ stats' = stats
       \/ /\ Ep \in Trials /\ ~stop /\ ("sendFails" \in trouble \/ NonceTaken)
          /\ Unfunded(Ep) /\ UNCHANGED master
       \/ (Ep \notin Trials \/ stop) /\ UNCHANGED <<master, probe, stats>>
    /\ MatrixStep /\ UNCHANGED diverged

Fundings == {e \in Trials : probe[e].fund > 0 /\ ~probe[e].funded /\ probe[e].verdict = "unknown"}

\* _await_funding, one endpoint at a time in any order.
AwaitFunding(e) ==
    /\ pc = "funding" /\ e \in Fundings
    /\ \/ /\ master[probe[e].fund].stage = "ok"
          /\ probe' = [probe EXCEPT ![e].funded = TRUE] /\ stats' = stats
       \/ NoReceipt(probe[e].fund) /\ Unfunded(e)
    /\ MatrixStep /\ UNCHANGED <<master, pc, j, diverged>>

FundingOver ==
    /\ Goto("funding", "broadcast") /\ Fundings = {}
    /\ MatrixStep /\ UNCHANGED <<master, probe, j, diverged, stats>>

\* send_sub, where any RpcError is a rejection.
BroadcastProbe ==
    /\ Walk("broadcast", "await")
    /\ LET ready == probe[Ep].funded /\ ~stop IN
       \/ /\ ready /\ policy[Ep] # "reject"
          /\ probe' = [probe EXCEPT ![Ep].stage = "sent"] /\ Count(Ep, {"accepted"})
       \/ /\ ready /\ (policy[Ep] = "reject" \/ "refused" \in trouble)
          /\ probe' = [probe EXCEPT ![Ep].verdict = "rejected_by_rpc"] /\ Count(Ep, {"rejected"})
       \/ /\ ready /\ "sendFails" \in trouble
          /\ probe' = [probe EXCEPT ![Ep].verdict = "transport_error"] /\ Count(Ep, {"transport"})
       \/ ~ready /\ UNCHANGED <<probe, stats>>
    /\ MatrixStep /\ UNCHANGED <<master, diverged>>

Accepted == {e \in Trials : probe[e].stage # "none"}

Late(e, stage) == "probesLate" \in trouble /\ probe[e].stage = stage
See(e, what) == probe' = [probe EXCEPT ![e].seen = what]

\* _await_probe, one per thread: the receipt, then the credit.
AwaitProbe(e) ==
    /\ pc = "await"
    /\ \/ /\ probe[e].stage # "none" /\ probe[e].seen = "none"
          /\ \/ probe[e].stage \in {"ok", "credited"} /\ See(e, "ok")
             \/ probe[e].stage = "reverted" /\ See(e, "reverted")
             \/ (probe[e].stage = "lost" \/ ~OwnSender(e) \/ CutShort \/ Late(e, "sent")) /\ See(e, "unmined")
       \/ /\ probe[e].seen = "ok"
          /\ \/ probe[e].stage = "credited" /\ See(e, "credited")
             \/ (policy[e] = "keep" \/ CutShort \/ Late(e, "ok")) /\ See(e, "uncredited")
    /\ MatrixStep /\ UNCHANGED <<master, pc, j, diverged, stats>>

\* slip: a revert counts as not mined
MinedOnly(seen) ==
    CASE seen = "credited" -> "auto_created" [] seen = "uncredited" -> "mined_no_credit"
      [] OTHER -> "accepted_never_mined"

Verdict(seen) ==
    CASE seen = "credited" -> "auto_created" [] seen = "uncredited" -> "mined_no_credit"
      [] seen = "reverted" -> "reverted" [] OTHER -> "accepted_never_mined"

\* slip: what is not credited is not counted
CreditsOnly(v) ==
    CASE v = "auto_created" -> {"mined", "credited"} [] v = "mined_no_credit" -> {"mined"}
      [] v = "reverted" -> {"mined", "reverted"} [] OTHER -> {"dropped"}

Counted(v) ==
    CASE v = "auto_created" -> {"mined", "credited"} [] v = "mined_no_credit" -> {"mined", "no_credit"}
      [] v = "reverted" -> {"mined", "reverted"} [] OTHER -> {"dropped"}

\* _score_matrix.
Score ==
    /\ Goto("await", After("idle")) /\ \A e \in Accepted : probe[e].seen \notin {"none", "ok"}
    /\ probe' = [e \in Eps |-> IF e \in Accepted THEN [probe[e] EXCEPT !.verdict = Verdict(probe[e].seen)]
                               ELSE probe[e]]
    /\ stats' = [e \in Eps |-> IF e \in Accepted THEN Plus(stats[e], Counted(Verdict(probe[e].seen)))
                               ELSE stats[e]]
    /\ diverged' = (Cardinality({probe'[e].verdict : e \in Eps} \ Untested) > 1)
    /\ MatrixStep /\ UNCHANGED <<master, j>>

Stop ==
    /\ "stop" \in trouble /\ ~stop /\ stop' = TRUE
    /\ UNCHANGED <<chainVars, master, probe, pc, j, iterations, found, diverged, stats>>

Leave ==
    /\ stop /\ Goto("idle", "end")
    /\ UNCHANGED <<chainVars, stop, master, probe, j, iterations, found, diverged, stats>>

Worker ==
    \/ BeginIteration \/ SendCreate \/ Created \/ SendDeposit \/ Deposited \/ Credit
    \/ SendImplicit \/ ImplicitReceipt \/ ClearGap \/ ImplicitCredit
    \/ Prepare \/ FundSender \/ FundingOver \/ BroadcastProbe \/ Score \/ Leave
    \/ \E e \in Eps : AwaitFunding(e) \/ AwaitProbe(e)

Finished == (pc = "end" \/ (pc = "idle" /\ iterations = MaxIterations)) /\ UNCHANGED vars

Next == Chain \/ Worker \/ Stop \/ Finished

Spec == Init /\ [][Next]_vars

\* The worker's threads run, and the chains mine what they may.
FairSpec == Spec /\ WF_vars(Worker) /\ WF_vars(Chain)

-----------------------------------------------------------------------------
\* What a verdict says of the endpoint.
Means(v) ==
    CASE v = "auto_created" -> "create" [] v = "mined_no_credit" -> "keep" [] v = "reverted" -> "revert"
      [] v = "accepted_never_mined" -> "drop" [] v = "rejected_by_rpc" -> "reject"

Tested == {e \in Eps : probe[e].verdict \notin Untested}
Patient == ~stop /\ trouble \intersect {"late", "probesLate", "blackout"} = {}

(***************************************************************************)
(* "Independent senders are what make a difference in outcome attributable *)
(* to endpoint routing rather than to a nonce gap" (proxy_builder.py:      *)
(* 20-30): with windows long enough a verdict is what its endpoint does,   *)
(* whatever became of V1, V2, the fundings and the other trials.           *)
(***************************************************************************)
VerdictsExact ==
    Patient /\ "refused" \notin trouble => \A e \in Tested : Means(probe[e].verdict) = policy[e]

(***************************************************************************)
(* "Divergence between endpoints is the headline of this matrix", and what *)
(* "describe[s] our own harness" is "not endpoint behaviour"               *)
(* (proxy_builder.py:706-716): a divergence is found only if two endpoints *)
(* that were tested treat the deposit differently.  Not so of the code     *)
(* where one endpoint refuses its probe for a fee, funds or a nonce.       *)
(***************************************************************************)
DivergenceReal ==
    Patient /\ pc = "idle" /\ diverged => \E e, f \in Tested : policy[e] # policy[f]

(***************************************************************************)
(* The same (proxy_builder.py:706-716), and none is missed, as long as no  *)
(* endpoint refuses a probe but by its policy.                             *)
(***************************************************************************)
DivergenceExact ==
    Patient /\ "refused" \notin trouble /\ pc = "idle" =>
      (diverged <=> \E e, f \in Tested : policy[e] # policy[f])

(***************************************************************************)
(* V1 "is expected to work; a failure here means the whole instance is     *)
(* sick" (proxy_builder.py:15-18), and the nonce V2 has lost is given back *)
(* (lines 740-742, 806-814): where the control path is not sick it is not  *)
(* reported.  Not so of the code when the plain RPC does not know the      *)
(* deposit that the front has dropped: nothing replaces it then (820-822). *)
(***************************************************************************)
ControlSound ==
    Patient /\ "sick" \notin trouble =>
      found \subseteq {"implicit_rejected_by_rpc", "implicit_reverted", "implicit_dropped",
                       "implicit_auto_created", "implicit_no_credit"}

(***************************************************************************)
(* "Re-sending the same nonce via the plain RPC at a higher gas price      *)
(* usually evicts it" (proxy_builder.py:806-814): where the plain RPC      *)
(* knows the stuck deposit and takes the replacement, no deposit that V2   *)
(* loses makes the control path look broken.                               *)
(***************************************************************************)
ControlCleared == trouble \intersect {"clearFails", "unknown"} = {} => ControlSound

(***************************************************************************)
(* ep_stats (proxy_builder.py:865-874): between matrices every trial that  *)
(* was begun is counted in one place, refused, unfunded, dropped, reverted,*)
(* credited or not credited, and as accepted where it was.                 *)
(***************************************************************************)
Accounted ==
    pc = "idle" => \A e \in Eps :
      /\ stats[e].probes = stats[e].rejected + stats[e].inconclusive + stats[e].transport + stats[e].accepted
      /\ stats[e].accepted = stats[e].dropped + stats[e].mined
      /\ stats[e].mined = stats[e].reverted + stats[e].credited + stats[e].no_credit

(***************************************************************************)
(* An iteration ends (proxy_builder.py:126-137): no lost transaction, no   *)
(* held up master key and no stop event keeps the worker waiting for ever. *)
(***************************************************************************)
IterationEnds == pc # "idle" ~> pc \in {"idle", "end"}
=============================================================================
