-------------------------- MODULE ProxyBuilderProofs --------------------------
(***************************************************************************)
(* The verdicts of ProxyBuilder for any number of endpoints, whatever each *)
(* of them does and whatever becomes of the master key.  An endpoint's     *)
(* trial is its own: what it has come to (StageFits), what was seen of it  *)
(* (SeenFits) and what is said of it (VerdictFits) follow from what the    *)
(* endpoint does and from nothing else (TrialsInv).  The control path      *)
(* follows from the order of the deposits (ControlIInv), and that the      *)
(* counts add up from the trials still open (CountIInv).                   *)
(***************************************************************************)
EXTENDS ProxyBuilder, FiniteSetTheorems, TLAPS

Fields == {"verdict", "fund", "funded", "stage", "seen"}
Final == {"unmined", "reverted", "credited", "uncredited"}

\* What a trial p has come to at an endpoint that does o.
StageFits(p, o) ==
    /\ p.stage \in TxStages \cup {"none"}
    /\ p.stage # "none" => o # "reject"
    /\ p.stage = "ok" => o \in {"create", "keep"}
    /\ p.stage = "credited" => o = "create"
    /\ p.stage = "reverted" => o = "revert"
    /\ p.stage = "lost" => o = "drop"

\* What was seen of it, with windows long enough.
SeenFits(p, o) ==
    /\ p.seen \in {"none", "ok"} \cup Final
    /\ p.stage = "none" => p.seen = "none"
    /\ p.seen = "ok" => p.stage \in {"ok", "credited"}
    /\ p.seen = "credited" => o = "create"
    /\ p.seen = "uncredited" => o = "keep"
    /\ p.seen = "reverted" => o = "revert"
    /\ p.seen = "unmined" => o = "drop"

VerdictFits(p, o) == p.verdict \notin Untested => Means(p.verdict) = o

ShapeInv ==
    /\ policy \in [Eps -> Policies]
    /\ DOMAIN probe = Eps /\ \A e \in Eps : Fields \subseteq DOMAIN probe[e]

PlaceInv == j \in 1 .. N

\* A trial that has not had its turn has sent nothing.
FreshInv ==
    /\ pc \in {"fund", "funding"} => \A e \in Eps : probe[e].stage = "none"
    /\ pc = "broadcast" => \A i \in 1 .. N : i >= j => probe[Endpoints[i]].stage = "none"

Clear == Patient /\ "refused" \notin trouble

TrialsInv == Clear => \A e \in Eps :
    /\ StageFits(probe[e], policy[e])
    /\ SeenFits(probe[e], policy[e])
    /\ VerdictFits(probe[e], policy[e])

IInv == ShapeInv /\ TrialsInv
FullInv == IInv /\ PlaceInv /\ FreshInv

-----------------------------------------------------------------------------
LEMMA EmptyFits ==
  ASSUME NEW o, NEW v \in {"none", "unknown"}
  PROVE  LET p == [NoProbe EXCEPT !.verdict = v] IN
         /\ StageFits(p, o) /\ SeenFits(p, o) /\ VerdictFits(p, o) /\ Fields \subseteq DOMAIN p
BY DEF NoProbe, StageFits, SeenFits, VerdictFits, Untested, Fields

LEMMA NoProbeFits ==
  ASSUME NEW o
  PROVE  /\ StageFits(NoProbe, o) /\ SeenFits(NoProbe, o) /\ VerdictFits(NoProbe, o)
         /\ Fields \subseteq DOMAIN NoProbe
BY DEF NoProbe, StageFits, SeenFits, VerdictFits, Untested, Fields

\* A step after which the waits are still patient began with patient ones.
LEMMA PatientStep ==
  ASSUME [Next]_vars, Clear'
  PROVE  Clear
<1>1. UNCHANGED chainVars
  BY DEF Next, Chain, Worker, Stop, Finished, vars, MineMaster, CreditMaster, MineProbe, CreditProbe,
         ChainStep, BeginIteration, SendCreate, Created, SendDeposit, Deposited, Credit, SendImplicit,
         ImplicitReceipt, ClearGap, ImplicitCredit, VariantStep, Prepare, FundSender, FundingOver,
         BroadcastProbe, Score, Leave, AwaitFunding, AwaitProbe, MatrixStep
<1>2. stop => stop'
  BY DEF Next, Chain, Worker, Stop, Finished, vars, MineMaster, CreditMaster, MineProbe, CreditProbe,
         ChainStep, BeginIteration, SendCreate, Created, SendDeposit, Deposited, Credit, SendImplicit,
         ImplicitReceipt, ClearGap, ImplicitCredit, VariantStep, Prepare, FundSender, FundingOver,
         BroadcastProbe, Score, Leave, AwaitFunding, AwaitProbe, MatrixStep
<1> QED
  BY <1>1, <1>2 DEF Clear, Patient, chainVars

LEMMA InitFits == Init => FullInv
<1>1. Init => IInv
  BY NoProbeFits DEF Init, IInv, ShapeInv, TrialsInv
<1>2. Init => PlaceInv
  BY ProxyBuilderAssumption DEF Init, PlaceInv, N
<1> QED
  BY <1>1, <1>2 DEF Init, FullInv, FreshInv

\* One trial changes at most, by one of its fields.
LEMMA OneTrial ==
  ASSUME IInv, UNCHANGED <<trouble, policy>>, NEW e \in Eps, NEW f \in Fields, NEW v,
         probe' = [probe EXCEPT ![e][f] = v],
         Clear' => /\ Clear
                   /\ StageFits(probe'[e], policy[e])
                   /\ SeenFits(probe'[e], policy[e])
                   /\ VerdictFits(probe'[e], policy[e])
  PROVE  IInv'
<1>1. probe' = [probe EXCEPT ![e] = [probe[e] EXCEPT ![f] = v]]
  OBVIOUS
<1>2. /\ DOMAIN probe' = Eps /\ \A d \in Eps : d # e => probe'[d] = probe[d]
      /\ Fields \subseteq DOMAIN probe'[e] /\ policy' = policy
  BY <1>1 DEF IInv, ShapeInv
<1>3. ShapeInv'
  BY <1>2 DEF IInv, ShapeInv
<1>4. TrialsInv'
  BY <1>2 DEF IInv, TrialsInv
<1> QED
  BY <1>3, <1>4 DEF IInv

LEMMA PolicyCases == ASSUME IInv, NEW e \in Eps
                     PROVE  policy[e] \in {"create", "keep", "revert", "drop", "reject"}
BY ProxyBuilderAssumption DEF IInv, ShapeInv

LEMMA ChainFits ==
  ASSUME IInv, NEW e \in Eps, MineProbe(e) \/ CreditProbe(e), Clear' => Clear
  PROVE  IInv'
<1>1. PICK v \in TxStages :
        /\ probe' = [probe EXCEPT ![e].stage = v] /\ UNCHANGED <<trouble, policy>>
        /\ \/ probe[e].stage = "sent" /\ v \in Outcomes(policy[e])
           \/ probe[e].stage = "ok" /\ policy[e] = "create" /\ v = "credited"
  <2>1. \A p : Outcomes(p) \subseteq TxStages
    BY DEF Outcomes, TxStages
  <2> QED
    BY <2>1 DEF MineProbe, CreditProbe, ChainStep, chainVars, TxStages
<1>2. /\ probe'[e].stage = v /\ probe'[e].seen = probe[e].seen
      /\ probe'[e].verdict = probe[e].verdict
  BY <1>1 DEF IInv, ShapeInv, Fields
<1>3. ASSUME Clear
      PROVE  StageFits(probe'[e], policy[e]) /\ SeenFits(probe'[e], policy[e])
             /\ VerdictFits(probe'[e], policy[e])
  <2>1. StageFits(probe[e], policy[e]) /\ SeenFits(probe[e], policy[e]) /\ VerdictFits(probe[e], policy[e])
    BY <1>3 DEF IInv, TrialsInv
  <2>2. VerdictFits(probe'[e], policy[e])
    BY <1>2, <2>1 DEF VerdictFits
  <2>3. SeenFits(probe'[e], policy[e])
    BY <1>1, <1>2, <2>1 DEF SeenFits, TxStages
  <2>4. StageFits(probe'[e], policy[e])
    BY <1>1, <1>2, <2>1, PolicyCases DEF StageFits, Outcomes, TxStages
  <2> QED
    BY <2>2, <2>3, <2>4
<1>4. "stage" \in Fields
  BY DEF Fields
<1> QED
  BY <1>1, <1>3, <1>4, OneTrial

LEMMA FundFits ==
  ASSUME IInv, Clear' => Clear,
         FundSender \/ \E e \in Eps : AwaitFunding(e)
  PROVE  IInv'
<1> SUFFICES ASSUME NEW e \in Eps, NEW f \in {"fund", "funded", "verdict"}, NEW v,
                    UNCHANGED <<trouble, policy>>,
                    probe' = [probe EXCEPT ![e][f] = v],
                    f = "verdict" => v = "inconclusive_unfunded"
             PROVE  IInv'
  <2>1. UNCHANGED <<trouble, policy>>
    BY DEF FundSender, AwaitFunding, MatrixStep, chainVars
  <2>2. \/ probe' = probe
        \/ \E e \in Eps, f \in {"fund", "funded", "verdict"} : \E v :
             probe' = [probe EXCEPT ![e][f] = v] /\ (f = "verdict" => v = "inconclusive_unfunded")
    BY DEF FundSender, AwaitFunding, Unfunded, Trials
  <2>3. CASE probe' = probe
    BY <2>1, <2>3 DEF IInv, ShapeInv, TrialsInv
  <2> QED
    BY <2>1, <2>2, <2>3
<1>1. /\ probe'[e].stage = probe[e].stage /\ probe'[e].seen = probe[e].seen
      /\ probe'[e].verdict \in {probe[e].verdict, "inconclusive_unfunded"}
  BY DEF IInv, ShapeInv, Fields
<1>2. ASSUME Clear
      PROVE  StageFits(probe'[e], policy[e]) /\ SeenFits(probe'[e], policy[e])
             /\ VerdictFits(probe'[e], policy[e])
  BY <1>1, <1>2 DEF IInv, TrialsInv, StageFits, SeenFits, VerdictFits, Untested
<1>3. f \in Fields
  BY DEF Fields
<1> QED
  BY <1>2, <1>3, OneTrial

LEMMA PlaceStep == PlaceInv /\ [Next]_vars => PlaceInv'
<1> SUFFICES ASSUME PlaceInv, [Next]_vars PROVE PlaceInv'
  OBVIOUS
<1>1. N \in Nat \ {0}
  BY ProxyBuilderAssumption DEF N
<1>2. j' = j \/ j' = 1 \/ (j < N /\ j' = j + 1)
  BY DEF Next, Chain, Worker, Stop, Finished, vars, MineMaster, CreditMaster, MineProbe, CreditProbe,
         ChainStep, BeginIteration, SendCreate, Created, SendDeposit, Deposited, Credit, SendImplicit,
         ImplicitReceipt, ClearGap, ImplicitCredit, VariantStep, Prepare, FundSender, FundingOver,
         BroadcastProbe, Score, Leave, AwaitFunding, AwaitProbe, MatrixStep, Walk, Goto
<1> QED
  BY <1>1, <1>2 DEF PlaceInv

LEMMA FreshStep == ShapeInv /\ ShapeInv' /\ PlaceInv /\ FreshInv /\ [Next]_vars => FreshInv'
<1> SUFFICES ASSUME ShapeInv, ShapeInv', PlaceInv, FreshInv, [Next]_vars PROVE FreshInv'
  OBVIOUS
<1> USE DEF FreshInv
<1>a. \A i \in 1 .. N : Endpoints[i] \in Eps
  BY DEF Eps
<1>1. ASSUME NEW e \in Eps, MineProbe(e) \/ CreditProbe(e) PROVE FreshInv'
  <2>1. /\ UNCHANGED <<pc, j>> /\ probe[e].stage # "none"
        /\ \E v : probe' = [probe EXCEPT ![e].stage = v]
    BY <1>1 DEF MineProbe, CreditProbe, ChainStep
  <2>2. \A d \in Eps : probe[d].stage = "none" => d # e /\ probe'[d] = probe[d]
    BY <2>1 DEF ShapeInv
  <2> QED
    BY <1>a, <2>1, <2>2
<1>2. CASE Prepare
  <2>1. \A e \in Eps : probe'[e].stage = "none"
    BY <1>2 DEF Prepare, NoProbe
  <2> QED
    BY <1>a, <2>1, <1>2 DEF Prepare, Goto
<1>3. ASSUME FundSender \/ (\E e \in Eps : AwaitFunding(e)) \/ FundingOver PROVE FreshInv'
  <2>1. /\ pc \in {"fund", "funding"} /\ pc' \in {"fund", "funding", "broadcast"}
        /\ \/ probe' = probe
           \/ \E e \in Eps, f \in {"fund", "funded", "verdict"} : \E v : probe' = [probe EXCEPT ![e][f] = v]
    BY <1>3 DEF FundSender, AwaitFunding, Unfunded, Trials, FundingOver, Walk, Goto
  <2>2. \A e \in Eps : probe'[e].stage = probe[e].stage
    BY <2>1 DEF ShapeInv, Fields
  <2> QED
    BY <1>a, <2>1, <2>2
<1>4. CASE BroadcastProbe
  <2>1. /\ pc = "broadcast" /\ (pc' = "await" \/ (pc' = "broadcast" /\ j' = j + 1 /\ j < N))
        /\ \/ probe' = probe
           \/ \E f \in Fields : \E v : probe' = [probe EXCEPT ![Ep][f] = v]
    BY <1>4 DEF BroadcastProbe, Walk, Fields
  <2>2. \A e \in Eps : e # Ep => probe'[e] = probe[e]
    BY <2>1 DEF ShapeInv
  <2>3. ASSUME pc' = "broadcast", NEW i \in 1 .. N, i >= j'
        PROVE  Endpoints[i] # Ep /\ i >= j
    <3>1. j' = j + 1 /\ j \in 1 .. N /\ N \in Nat
      BY <2>1, <2>3, ProxyBuilderAssumption DEF PlaceInv, N
    <3>2. i > j
      BY <2>3, <3>1
    <3> QED
      BY <3>1, <3>2, ProxyBuilderAssumption DEF Ep, N
  <2> QED
    BY <1>a, <2>1, <2>2, <2>3
<1>5. ASSUME BeginIteration \/ Score \/ (\E e \in Eps : AwaitProbe(e)) PROVE FreshInv'
  BY <1>5 DEF BeginIteration, Score, AwaitProbe, Goto, MatrixStep, After
<1>6. CASE SendCreate \/ Created \/ SendDeposit \/ Deposited \/ Credit \/ SendImplicit
           \/ ImplicitReceipt \/ ClearGap \/ ImplicitCredit \/ Leave
  BY <1>6 DEF SendCreate, Created, SendDeposit, Deposited, Credit, SendImplicit,
         ImplicitReceipt, ClearGap, ImplicitCredit, Leave, Goto, After
<1>7. CASE Stop \/ Finished \/ UNCHANGED vars \/ \E i \in 1 .. Len(master) : MineMaster(i) \/ CreditMaster(i)
  BY <1>7 DEF Stop, Finished, vars, MineMaster, CreditMaster, ChainStep
<1> QED
  BY <1>1, <1>2, <1>3, <1>4, <1>5, <1>6, <1>7 DEF Next, Chain, Worker

LEMMA BroadcastFits ==
  ASSUME IInv, PlaceInv, FreshInv, Clear' => Clear, BroadcastProbe
  PROVE  IInv'
<1>1. UNCHANGED <<trouble, policy>> /\ Ep \in Eps /\ probe[Ep].stage = "none"
  <2>1. j \in 1 .. N /\ j >= j
    BY ProxyBuilderAssumption DEF PlaceInv, N
  <2> QED
    BY <2>1 DEF BroadcastProbe, MatrixStep, chainVars, Ep, Eps, Walk, FreshInv
<1>2. CASE probe' = probe
  BY <1>1, <1>2 DEF IInv, ShapeInv, TrialsInv
<1>3. CASE policy[Ep] # "reject" /\ probe' = [probe EXCEPT ![Ep].stage = "sent"]
  <2>1. /\ probe'[Ep].stage = "sent" /\ probe'[Ep].seen = probe[Ep].seen
        /\ probe'[Ep].verdict = probe[Ep].verdict
    BY <1>1, <1>3 DEF IInv, ShapeInv, Fields
  <2>2. ASSUME Clear
        PROVE  StageFits(probe'[Ep], policy[Ep]) /\ SeenFits(probe'[Ep], policy[Ep])
               /\ VerdictFits(probe'[Ep], policy[Ep])
    BY <1>1, <1>3, <2>1, <2>2 DEF IInv, TrialsInv, StageFits, SeenFits, VerdictFits, TxStages
  <2> QED
    BY <1>1, <1>3, <2>2, OneTrial DEF Fields
<1>4. CASE \/ /\ policy[Ep] = "reject" \/ "refused" \in trouble
              /\ probe' = [probe EXCEPT ![Ep].verdict = "rejected_by_rpc"]
           \/ probe' = [probe EXCEPT ![Ep].verdict = "transport_error"]
  <2>1. /\ probe'[Ep].stage = probe[Ep].stage /\ probe'[Ep].seen = probe[Ep].seen
        /\ \/ probe'[Ep].verdict = "transport_error"
           \/ /\ probe'[Ep].verdict = "rejected_by_rpc"
              /\ policy[Ep] = "reject" \/ "refused" \in trouble
    BY <1>1, <1>4 DEF IInv, ShapeInv, Fields
  <2>2. ASSUME Clear
        PROVE  StageFits(probe'[Ep], policy[Ep]) /\ SeenFits(probe'[Ep], policy[Ep])
               /\ VerdictFits(probe'[Ep], policy[Ep])
    <3>1. "refused" \notin trouble
      BY <2>2 DEF Clear
    <3> QED
      BY <1>1, <2>1, <2>2, <3>1
      DEF IInv, TrialsInv, StageFits, SeenFits, VerdictFits, Untested, Means
  <2>3. PICK v : probe' = [probe EXCEPT ![Ep]["verdict"] = v]
    BY <1>4
  <2>4. "verdict" \in Fields
    BY DEF Fields
  <2> QED
    BY <1>1, <2>2, <2>3, <2>4, OneTrial
<1> QED
  BY <1>2, <1>3, <1>4 DEF BroadcastProbe

LEMMA AwaitFits ==
  ASSUME IInv, NEW e \in Eps, Clear' => Clear, AwaitProbe(e)
  PROVE  IInv'
<1>1. UNCHANGED <<trouble, policy>>
  BY DEF AwaitProbe, MatrixStep, chainVars
<1>2. PICK v \in {"ok"} \cup Final :
        /\ probe' = [probe EXCEPT ![e].seen = v]
        /\ probe[e].stage # "none" \/ probe[e].seen = "ok"
        /\ v = "ok" => probe[e].stage \in {"ok", "credited"}
        /\ v = "reverted" => probe[e].stage = "reverted"
        /\ v = "unmined" => probe[e].stage = "lost" \/ ~OwnSender(e) \/ CutShort \/ Late(e, "sent")
        /\ v = "credited" => probe[e].stage = "credited"
        /\ v = "uncredited" => policy[e] = "keep" \/ CutShort \/ Late(e, "ok")
  BY DEF AwaitProbe, See, Final
<1>3. /\ probe'[e].stage = probe[e].stage /\ probe'[e].seen = v
      /\ probe'[e].verdict = probe[e].verdict
  BY <1>2 DEF IInv, ShapeInv, Fields
<1>4. ASSUME Clear
      PROVE  StageFits(probe'[e], policy[e]) /\ SeenFits(probe'[e], policy[e])
             /\ VerdictFits(probe'[e], policy[e])
  <2>1. StageFits(probe[e], policy[e]) /\ SeenFits(probe[e], policy[e]) /\ VerdictFits(probe[e], policy[e])
    BY <1>4 DEF IInv, TrialsInv
  <2>2. ~CutShort /\ ~Late(e, "sent") /\ ~Late(e, "ok") /\ OwnSender(e)
    BY <1>4 DEF Clear, Patient, CutShort, Late, OwnSender
  <2> QED
    BY <1>2, <1>3, <2>1, <2>2 DEF StageFits, SeenFits, VerdictFits, Final
<1> QED
  BY <1>1, <1>2, <1>4, OneTrial DEF Fields

LEMMA ScoreFits ==
  ASSUME IInv, Clear' => Clear, Score
  PROVE  IInv'
<1>1. /\ UNCHANGED <<trouble, policy>>
      /\ \A e \in Accepted : probe[e].seen \notin {"none", "ok"}
      /\ probe' = [e \in Eps |-> IF e \in Accepted
                                 THEN [probe[e] EXCEPT !.verdict = Verdict(probe[e].seen)]
                                 ELSE probe[e]]
  BY DEF Score, MatrixStep, chainVars
<1>2. ShapeInv'
  BY <1>1 DEF IInv, ShapeInv, Fields
<1>3. ASSUME Clear, NEW e \in Eps
      PROVE  StageFits(probe'[e], policy[e]) /\ SeenFits(probe'[e], policy[e])
             /\ VerdictFits(probe'[e], policy[e])
  <2>1. StageFits(probe[e], policy[e]) /\ SeenFits(probe[e], policy[e]) /\ VerdictFits(probe[e], policy[e])
    BY <1>3 DEF IInv, TrialsInv
  <2>2. CASE e \notin Accepted
    BY <1>1, <2>1, <2>2
  <2>3. CASE e \in Accepted
    <3>1. /\ probe'[e].stage = probe[e].stage /\ probe'[e].seen = probe[e].seen
          /\ probe'[e].verdict = Verdict(probe[e].seen) /\ probe[e].seen \in Final
      BY <1>1, <2>1, <2>3 DEF IInv, ShapeInv, Fields, SeenFits
    <3>2. StageFits(probe'[e], policy[e]) /\ SeenFits(probe'[e], policy[e])
      BY <2>1, <3>1 DEF StageFits, SeenFits
    <3>3. Means(Verdict(probe[e].seen)) = policy[e]
      BY <2>1, <3>1 DEF Means, Verdict, SeenFits, Final
    <3> QED
      BY <3>1, <3>2, <3>3 DEF VerdictFits
  <2> QED
    BY <2>2, <2>3
<1>4. TrialsInv'
  BY <1>1, <1>3 DEF TrialsInv
<1> QED
  BY <1>2, <1>4 DEF IInv

LEMMA TrialsStep == FullInv /\ [Next]_vars => IInv'
<1> SUFFICES ASSUME IInv, PlaceInv, FreshInv, [Next]_vars PROVE IInv'
  BY DEF FullInv
<1>1. Clear' => Clear
  BY PatientStep
<1>2. CASE \/ \E e \in Eps : MineProbe(e) \/ CreditProbe(e) \/ AwaitProbe(e) \/ AwaitFunding(e)
           \/ FundSender \/ BroadcastProbe \/ Score
  BY <1>1, <1>2, ChainFits, FundFits, BroadcastFits, AwaitFits, ScoreFits
<1>3. CASE BeginIteration
  <2>1. UNCHANGED <<trouble, policy>> /\ probe' = [e \in Eps |-> NoProbe]
    BY <1>3 DEF BeginIteration, chainVars
  <2> QED
    BY <2>1, NoProbeFits DEF IInv, ShapeInv, TrialsInv
<1>4. CASE Prepare
  <2>1. PICK ready \in SUBSET Eps :
          /\ UNCHANGED <<trouble, policy>>
          /\ probe' = [e \in Eps |-> IF e \in ready THEN [NoProbe EXCEPT !.verdict = "unknown"]
                                     ELSE NoProbe]
    BY <1>4 DEF Prepare, MatrixStep, chainVars
  <2> QED
    BY <2>1, NoProbeFits, EmptyFits DEF IInv, ShapeInv, TrialsInv
<1>5. CASE \/ SendCreate \/ Created \/ SendDeposit \/ Deposited \/ Credit \/ SendImplicit
           \/ ImplicitReceipt \/ ClearGap \/ ImplicitCredit \/ FundingOver \/ Leave \/ Stop
           \/ Finished \/ UNCHANGED vars \/ \E i \in 1 .. Len(master) : MineMaster(i) \/ CreditMaster(i)
  <2>1. UNCHANGED <<probe, policy>>
    BY <1>5 DEF SendCreate, Created, SendDeposit, Deposited, Credit, SendImplicit, ImplicitReceipt,
         ClearGap, ImplicitCredit, VariantStep, FundingOver, MatrixStep, Leave, Stop, Finished, vars,
         MineMaster, CreditMaster, ChainStep, chainVars
  <2> QED
    BY <1>1, <2>1 DEF IInv, ShapeInv, TrialsInv
<1> QED
  BY <1>2, <1>3, <1>4, <1>5 DEF Next, Chain, Worker

(***************************************************************************)
(* ProxyBuilder!VerdictsExact: with windows long enough, and no refusals   *)
(* but the policy's, a verdict is what its endpoint does, for any number   *)
(* of endpoints and iterations (proxy_builder.py:20-30).                   *)
(***************************************************************************)
THEOREM VerdictsCorrect == Spec => []VerdictsExact
<1>1. FullInv /\ [Next]_vars => FullInv'
  BY TrialsStep, PlaceStep, FreshStep DEF FullInv, IInv
<1>2. FullInv => VerdictsExact
  BY DEF FullInv, IInv, TrialsInv, Clear, VerdictsExact, Tested, VerdictFits
<1> QED
  BY <1>1, <1>2, InitFits, PTL DEF Spec

-----------------------------------------------------------------------------
(***************************************************************************)
(* The control path.  A transaction that is lost is the last deposit of    *)
(* V2, and V2 replaces it before anything else is sent.                    *)
(***************************************************************************)
Control == Patient /\ trouble \intersect {"clearFails", "unknown", "sick"} = {}
Kinds == {"plain", "create", "deposit", "implicit", "again"}
Implicit == {"implicit_rejected_by_rpc", "implicit_reverted", "implicit_dropped",
             "implicit_auto_created", "implicit_no_credit"}

\* The transaction a variant waits for.
LastInv ==
    /\ pc \in {"created", "deposited", "credit", "v2sent", "v2clear", "v2credit"} => Len(master) > 0
    /\ pc = "created" => Last.kind = "create"
    /\ pc \in {"deposited", "credit"} => Last.kind = "deposit"
    /\ pc = "credit" => Last.stage \in {"ok", "credited"}

GapInv == \A i \in 1 .. Len(master) :
    /\ master[i].kind = "implicit" \/ master[i].stage \in {"sent", "ok", "credited"}
    /\ master[i].kind = "implicit" /\ master[i].stage \in {"sent", "lost"} =>
         pc \in {"v2sent", "v2clear"} /\ i = Len(master)

FoundInv == found \subseteq Implicit

Txs == [kind : Kinds, stage : TxStages]
SeqInv == master \in Seq(Txs)
ControlIInv == SeqInv /\ (Control => LastInv /\ GapInv /\ FoundInv)

LEMMA TxOf == ASSUME SeqInv, NEW i \in 1 .. Len(master) PROVE master[i] \in Txs
BY DEF SeqInv

\* One transaction changes its stage.
LEMMA Restaged ==
  ASSUME SeqInv, NEW i \in 1 .. Len(master), NEW v \in TxStages,
         master' = [master EXCEPT ![i].stage = v]
  PROVE  /\ SeqInv' /\ Len(master') = Len(master) /\ Len(master) \in Nat
         /\ \A k \in 1 .. Len(master) : master'[k].kind = master[k].kind
         /\ \A k \in 1 .. Len(master) : k # i => master'[k] = master[k]
         /\ master'[i].stage = v
<1> DEFINE tx == [master[i] EXCEPT !.stage = v]
<1>1. master[i] \in Txs
  BY TxOf
<1>2. tx \in Txs /\ tx.kind = master[i].kind /\ tx.stage = v
  BY <1>1 DEF Txs
<1>3. master' = [master EXCEPT ![i] = tx]
  OBVIOUS
<1> HIDE DEF tx
<1>4. master \in Seq(Txs)
  BY DEF SeqInv
<1>5. /\ master' \in Seq(Txs) /\ Len(master') = Len(master) /\ Len(master) \in Nat
      /\ \A k \in 1 .. Len(master) : k # i => master'[k] = master[k]
      /\ master'[i] = tx
  BY <1>2, <1>3, <1>4
<1> QED
  BY <1>2, <1>5 DEF SeqInv

LEMMA ControlInit == Init => ControlIInv
BY DEF Init, ControlIInv, SeqInv, LastInv, GapInv, FoundInv

LEMMA ControlStays ==
  ASSUME [Next]_vars, Control'
  PROVE  Control
<1>1. UNCHANGED chainVars
  BY DEF Next, Chain, Worker, Stop, Finished, vars, MineMaster, CreditMaster, MineProbe, CreditProbe,
         ChainStep, BeginIteration, SendCreate, Created, SendDeposit, Deposited, Credit, SendImplicit,
         ImplicitReceipt, ClearGap, ImplicitCredit, VariantStep, Prepare, FundSender, FundingOver,
         BroadcastProbe, Score, Leave, AwaitFunding, AwaitProbe, MatrixStep
<1>2. stop => stop'
  BY DEF Next, Chain, Worker, Stop, Finished, vars, MineMaster, CreditMaster, MineProbe, CreditProbe,
         ChainStep, BeginIteration, SendCreate, Created, SendDeposit, Deposited, Credit, SendImplicit,
         ImplicitReceipt, ClearGap, ImplicitCredit, VariantStep, Prepare, FundSender, FundingOver,
         BroadcastProbe, Score, Leave, AwaitFunding, AwaitProbe, MatrixStep
<1> QED
  BY <1>1, <1>2 DEF Control, Patient, chainVars

\* The chain takes the master key's transactions.
LEMMA ControlChain ==
  ASSUME ControlIInv, Control' => Control, NEW i \in 1 .. Len(master), MineMaster(i) \/ CreditMaster(i)
  PROVE  ControlIInv'
<1>1. PICK v \in TxStages :
        /\ master' = [master EXCEPT ![i].stage = v] /\ UNCHANGED <<trouble, policy, stop, pc, found>>
        /\ \/ master[i].stage = "sent" /\ v \in MasterOutcomes(master[i].kind)
           \/ master[i].stage = "ok" /\ v = "credited"
  <2>1. \A k \in Kinds : MasterOutcomes(k) \subseteq TxStages
    BY DEF MasterOutcomes, Outcomes, TxStages
  <2>2. master[i].kind \in Kinds
    BY TxOf DEF ControlIInv, Txs
  <2> QED
    BY <2>1, <2>2 DEF MineMaster, CreditMaster, ChainStep, chainVars, TxStages
<1>2. /\ SeqInv' /\ Len(master') = Len(master)
      /\ Len(master) \in Nat
      /\ \A k \in 1 .. Len(master) : master'[k].kind = master[k].kind
      /\ \A k \in 1 .. Len(master) : k # i => master'[k] = master[k]
      /\ master'[i].stage = v
  BY <1>1, Restaged DEF ControlIInv
<1>3. ASSUME Control PROVE LastInv' /\ GapInv' /\ FoundInv'
  <2>1. LastInv /\ GapInv /\ FoundInv
    BY <1>3 DEF ControlIInv
  <2>2. master[i].kind # "implicit" => v \in {"ok", "credited"}
    BY <1>1, <1>3, <2>1 DEF GapInv, MasterOutcomes, Control
  <2>3. v # "sent"
    BY <1>1 DEF MasterOutcomes, Outcomes
  <2>4. GapInv'
    BY <1>1, <1>2, <2>1, <2>2, <2>3 DEF GapInv
  <2>5. LastInv'
    BY <1>1, <1>2, <2>1, <2>2, <2>3 DEF LastInv, Last
  <2> QED
    BY <1>1, <2>1, <2>4, <2>5 DEF FoundInv
<1> QED
  BY <1>2, <1>3 DEF ControlIInv

LEMMA Appended ==
  ASSUME SeqInv, NEW kind \in Kinds, MasterSend(kind)
  PROVE  /\ SeqInv' /\ Len(master) \in Nat /\ Len(master') = Len(master) + 1
         /\ Last'.kind = kind /\ Last'.stage = "sent"
         /\ master'[Len(master')].kind = kind /\ master'[Len(master')].stage = "sent"
         /\ \A k \in 1 .. Len(master) : master'[k] = master[k]
<1> DEFINE tx == [kind |-> kind, stage |-> "sent"]
<1>1. tx \in Txs /\ tx.kind = kind /\ tx.stage = "sent" /\ master' = Append(master, tx)
  BY DEF Txs, TxStages, MasterSend
<1> HIDE DEF tx
<1>2. /\ master' \in Seq(Txs) /\ Len(master) \in Nat /\ Len(master') = Len(master) + 1
      /\ master'[Len(master')] = tx /\ \A k \in 1 .. Len(master) : master'[k] = master[k]
  BY <1>1 DEF SeqInv
<1> QED
  BY <1>1, <1>2 DEF SeqInv, Last

\* Nothing is sent while a deposit of V2 may be lost.
LEMMA ControlSends ==
  ASSUME ControlIInv, Control' => Control, SendCreate \/ SendDeposit \/ SendImplicit \/ FundSender
  PROVE  ControlIInv'
<1>1. /\ pc \in {"create", "deposit", "v2", "fund"} /\ UNCHANGED <<trouble, policy, stop>>
      /\ \/ found' = found \/ found' = found \cup {"implicit_rejected_by_rpc"}
      /\ \/ UNCHANGED master /\ pc' \in {"v2", "prepare", "end", "fund", "funding"}
         \/ /\ master' = [master EXCEPT ![ImplicitAt].kind = "again"]
            /\ pc = "v2" /\ pc' = "v2sent" /\ Gap
         \/ /\ \/ MasterSend("create") /\ pc' = "created"
               \/ MasterSend("deposit") /\ pc' = "deposited"
               \/ MasterSend("implicit") /\ pc' = "v2sent"
               \/ MasterSend("plain") /\ pc' \in {"fund", "funding"}
  BY DEF SendCreate, SendDeposit, SendImplicit, FundSender, VariantStep, MatrixStep, chainVars, After,
         Walk, Unfunded, Report
<1>2. ASSUME Control PROVE FoundInv'
  BY <1>1, <1>2 DEF ControlIInv, FoundInv, Implicit
<1>3. CASE UNCHANGED master /\ pc' \in {"v2", "prepare", "end", "fund", "funding"}
  BY <1>1, <1>2, <1>3 DEF ControlIInv, SeqInv, LastInv, GapInv, Last
<1>5. CASE /\ master' = [master EXCEPT ![ImplicitAt].kind = "again"]
           /\ pc = "v2" /\ pc' = "v2sent" /\ Gap
  <2>1. ~Control
    BY <1>5 DEF ControlIInv, GapInv, Gap, Dropped
  <2>2. ImplicitAt \in 1 .. Len(master)
    BY <1>5 DEF Gap, ImplicitAt
  <2>3. master[ImplicitAt] \in Txs
    BY <2>2, TxOf DEF ControlIInv
  <2>4. [master[ImplicitAt] EXCEPT !.kind = "again"] \in Txs
    BY <2>3 DEF Txs, Kinds
  <2>5. SeqInv'
    BY <1>5, <2>2, <2>4 DEF ControlIInv, SeqInv
  <2> QED
    BY <1>1, <2>1, <2>5 DEF ControlIInv
<1>4. ASSUME NEW kind \in Kinds, MasterSend(kind),
             \/ kind = "create" /\ pc' = "created"
             \/ kind = "deposit" /\ pc' = "deposited"
             \/ kind = "implicit" /\ pc' = "v2sent"
             \/ kind = "plain" /\ pc' \in {"fund", "funding"}
      PROVE  ControlIInv'
  <2>1. /\ SeqInv' /\ Len(master) \in Nat /\ Len(master') = Len(master) + 1
        /\ Last'.kind = kind
        /\ master'[Len(master')].kind = kind /\ master'[Len(master')].stage = "sent"
        /\ \A k \in 1 .. Len(master) : master'[k] = master[k]
    BY <1>4, Appended DEF ControlIInv
  <2>2. ASSUME Control PROVE LastInv' /\ GapInv'
    <3>1. GapInv
      BY <2>2 DEF ControlIInv
    <3>2. GapInv'
      BY <1>1, <1>4, <2>1, <3>1 DEF GapInv
    <3>3. LastInv'
      BY <1>4, <2>1 DEF LastInv
    <3> QED
      BY <3>2, <3>3
  <2> QED
    BY <1>2, <2>1, <2>2 DEF ControlIInv
<1> QED
  BY <1>1, <1>3, <1>4, <1>5 DEF Kinds

\* V1 finds nothing to report, and V2 only what is its own.
LEMMA ControlReports ==
  ASSUME ControlIInv, Control' => Control,
         Created \/ Deposited \/ Credit \/ ImplicitReceipt \/ ImplicitCredit
  PROVE  ControlIInv'
<1>1. UNCHANGED <<trouble, policy, stop, master>>
  BY DEF Created, Deposited, Credit, ImplicitReceipt, ImplicitCredit, VariantStep, chainVars
<1>2. ASSUME Control PROVE LastInv' /\ GapInv' /\ FoundInv'
  <2>1. LastInv /\ GapInv /\ FoundInv
    BY <1>2 DEF ControlIInv
  <2>2. Len(master) \in Nat /\ ~CutShort /\ "late" \notin trouble /\ "sick" \notin trouble
    BY <1>2 DEF ControlIInv, SeqInv, Control, Patient, CutShort
  <2>3. pc \notin {"v2sent", "v2clear"} => ~NoReceipt(Len(master))
    BY <2>1, <2>2 DEF NoReceipt, Hopeless, GapInv
  <2>4. CASE Created \/ Deposited
    <3>1. pc \in {"created", "deposited"} /\ Last.kind \in {"create", "deposit"}
      BY <2>1, <2>4 DEF Created, Deposited, LastInv
    <3>2. Last.stage # "reverted"
      BY <2>1, <2>2, <3>1 DEF Last, LastInv, GapInv
    <3>3. \/ pc = "created" /\ pc' = "deposit" /\ found' = found
          \/ pc = "deposited" /\ pc' = "credit" /\ found' = found /\ Last.stage \in {"ok", "credited"}
      BY <2>2, <2>3, <2>4, <3>1, <3>2 DEF Created, Deposited
    <3> QED
      BY <1>1, <2>1, <3>3 DEF LastInv, GapInv, FoundInv, Last
  <2>5. CASE Credit
    <3>1. Last.kind = "deposit" /\ ~NoCredit
      BY <2>1, <2>2, <2>5 DEF Credit, Goto, LastInv, NoCredit, Uncredited
    <3>2. pc = "credit" /\ pc' \in {"v2", "end"} /\ found' = found
      BY <2>5, <3>1 DEF Credit, Goto, After
    <3> QED
      BY <1>1, <2>1, <3>2 DEF LastInv, GapInv, FoundInv
  <2>6. CASE ImplicitReceipt
    <3>1. pc = "v2sent" /\ pc' \in {"v2credit", "v2clear", "prepare", "end"}
          /\ (pc' # "v2clear" => Last.stage \in {"ok", "credited", "reverted"})
      BY <2>6 DEF ImplicitReceipt, After
    <3>2. FoundInv'
      BY <2>1, <2>6 DEF ImplicitReceipt, Report, FoundInv, Implicit
    <3>3. LastInv' /\ GapInv'
      BY <1>1, <2>1, <2>2, <3>1 DEF LastInv, GapInv, Last
    <3> QED
      BY <3>2, <3>3
  <2>7. CASE ImplicitCredit
    <3>1. pc = "v2credit" /\ pc' \in {"prepare", "end"}
      BY <2>7 DEF ImplicitCredit, Goto, After
    <3>2. FoundInv'
      BY <2>1, <2>7 DEF ImplicitCredit, Report, FoundInv, Implicit
    <3> QED
      BY <1>1, <2>1, <3>1, <3>2 DEF LastInv, GapInv
  <2> QED
    BY <2>4, <2>5, <2>6, <2>7
<1> QED
  BY <1>1, <1>2 DEF ControlIInv, SeqInv

\* The nonce of V2's deposit: that of the one dropped, else the last.
LEMMA ImplicitPlace ==
  ASSUME SeqInv
  PROVE  ImplicitAt \in Nat /\ (GapInv => ImplicitAt = Len(master))
<1>1. Len(master) \in Nat
  BY DEF SeqInv
<1>2. CASE Gap
  <2>1. ImplicitAt = CHOOSE i \in 1 .. Len(master) : Dropped(i)
    BY <1>2 DEF ImplicitAt
  <2>2. \E i \in 1 .. Len(master) : Dropped(i)
    BY <1>2 DEF Gap
  <2>3. ImplicitAt \in 1 .. Len(master) /\ Dropped(ImplicitAt)
    BY <2>1, <2>2
  <2> QED
    BY <1>1, <2>3 DEF GapInv, Dropped
<1>3. CASE ~Gap
  BY <1>1, <1>3 DEF ImplicitAt
<1> QED
  BY <1>2, <1>3

LEMMA ControlClears ==
  ASSUME ControlIInv, Control' => Control, ClearGap
  PROVE  ControlIInv'
<1> DEFINE tx == [kind |-> "plain", stage |-> "sent"]
<1>1. /\ pc = "v2clear" /\ pc' \in {"prepare", "end"} /\ UNCHANGED <<trouble, policy, stop, found>>
  BY DEF ClearGap, Goto, After, VariantStep, chainVars
<1>2. tx \in Txs /\ tx.kind = "plain" /\ tx.stage = "sent"
  BY DEF Txs, Kinds, TxStages
<1>3. ImplicitAt \in Nat /\ (master' = [master EXCEPT ![ImplicitAt] = tx] \/ UNCHANGED master)
  BY ImplicitPlace DEF ClearGap, Replace, ControlIInv
<1>4. ASSUME Control
      PROVE  \/ master' = [master EXCEPT ![Len(master)] = tx]
             \/ UNCHANGED master /\ master[Len(master)].stage \notin {"sent", "lost"}
  <2>1. ImplicitAt = Len(master)
    BY <1>4, ImplicitPlace DEF ControlIInv
  <2> QED
    BY <1>4, <2>1 DEF ClearGap, Replace, Control
<1> HIDE DEF tx
<1>5. master \in Seq(Txs) /\ Len(master) \in Nat
  BY DEF ControlIInv, SeqInv
<1>6. SeqInv'
  BY <1>2, <1>3, <1>5 DEF SeqInv
<1>7. ASSUME Control PROVE GapInv'
  <2>1. GapInv
    BY <1>7 DEF ControlIInv
  <2>2. CASE master' = [master EXCEPT ![Len(master)] = tx]
    <3>1. /\ Len(master') = Len(master)
          /\ \A k \in 1 .. Len(master) : master'[k] = IF k = Len(master) THEN tx ELSE master[k]
      BY <1>5, <2>2
    <3> QED
      BY <1>2, <1>5, <2>1, <3>1 DEF GapInv
  <2>3. CASE UNCHANGED master /\ master[Len(master)].stage \notin {"sent", "lost"}
    BY <1>5, <2>1, <2>3 DEF GapInv
  <2> QED
    BY <1>4, <1>7, <2>2, <2>3
<1> QED
  BY <1>1, <1>6, <1>7 DEF ControlIInv, LastInv, FoundInv

\* A new iteration forgets the transactions that settled before the others.
LEMMA ControlBegins ==
  ASSUME ControlIInv, Control' => Control, BeginIteration
  PROVE  ControlIInv'
<1>1. PICK h \in 0 .. Len(master) : master' = SubSeq(master, h + 1, Len(master))
  BY DEF BeginIteration
<1>2. pc = "idle" /\ pc' = "create" /\ found' = {} /\ UNCHANGED <<trouble, policy, stop>>
  BY DEF BeginIteration, Goto, chainVars
<1>3. master \in Seq(Txs) /\ Len(master) \in Nat
  BY DEF ControlIInv, SeqInv
<1>4. /\ master' \in Seq(Txs) /\ Len(master') = Len(master) - h
      /\ \A k \in 1 .. Len(master') : h + k \in 1 .. Len(master) /\ master'[k] = master[h + k]
  BY <1>1, <1>3
<1>5. ASSUME Control PROVE GapInv'
  BY <1>2, <1>3, <1>4, <1>5 DEF ControlIInv, GapInv
<1> QED
  BY <1>2, <1>4, <1>5 DEF ControlIInv, SeqInv, LastInv, FoundInv

LEMMA ControlStep == ControlIInv /\ [Next]_vars => ControlIInv'
<1> SUFFICES ASSUME ControlIInv, [Next]_vars PROVE ControlIInv'
  OBVIOUS
<1>1. Control' => Control
  BY ControlStays
<1>2. CASE \E i \in 1 .. Len(master) : MineMaster(i) \/ CreditMaster(i)
  BY <1>1, <1>2, ControlChain
<1>3. CASE SendCreate \/ SendDeposit \/ SendImplicit \/ FundSender
  BY <1>1, <1>3, ControlSends
<1>4. CASE Created \/ Deposited \/ Credit \/ ImplicitReceipt \/ ImplicitCredit
  BY <1>1, <1>4, ControlReports
<1>5. CASE ClearGap
  BY <1>1, <1>5, ControlClears
<1>6. CASE BeginIteration
  BY <1>1, <1>6, ControlBegins
<1>7. CASE \/ \E e \in Eps : MineProbe(e) \/ CreditProbe(e) \/ AwaitFunding(e) \/ AwaitProbe(e)
           \/ Prepare \/ FundingOver \/ BroadcastProbe \/ Score \/ Leave \/ Stop \/ Finished
           \/ UNCHANGED vars
  <2>1. /\ UNCHANGED <<master, found>>
        /\ \/ pc' = pc
           \/ /\ pc \in {"prepare", "funding", "broadcast", "await", "idle"}
              /\ pc' \in {"idle", "fund", "broadcast", "await", "end"}
    BY <1>7 DEF MineProbe, CreditProbe, ChainStep, AwaitFunding, AwaitProbe, Prepare, FundingOver,
         BroadcastProbe, Score, Leave, Stop, Finished, vars, MatrixStep, Goto, Walk, After
  <2> QED
    BY <1>1, <2>1 DEF ControlIInv, SeqInv, LastInv, GapInv, FoundInv, Last
<1> QED
  BY <1>2, <1>3, <1>4, <1>5, <1>6, <1>7 DEF Next, Chain, Worker

(***************************************************************************)
(* ProxyBuilder!ControlCleared: where the plain RPC knows a stuck deposit  *)
(* and takes its replacement, V1 is not reported for it, whatever becomes  *)
(* of V2, the matrix and earlier iterations (proxy_builder.py:806-814).    *)
(***************************************************************************)
THEOREM ControlCorrect == Spec => []ControlCleared
<1>1. ControlIInv => ControlCleared
  BY DEF ControlIInv, FoundInv, Implicit, Control, ControlSound, ControlCleared
<1> QED
  BY <1>1, ControlInit, ControlStep, PTL DEF Spec

-----------------------------------------------------------------------------
(***************************************************************************)
(* The counts.  A trial p that has begun and is not scored is open, and    *)
(* what the counts s lack until it is closed is known from it.             *)
(***************************************************************************)
Open(p) == p.verdict = "unknown"
One(b) == IF b THEN 1 ELSE 0

Balanced(s, p) ==
    /\ s \in [Counts -> Nat]
    /\ s.probes = s.rejected + s.inconclusive + s.transport + s.accepted
                  + One(Open(p) /\ p.stage = "none")
    /\ s.accepted = s.dropped + s.mined + One(Open(p) /\ p.stage # "none")
    /\ s.mined = s.reverted + s.credited + s.no_credit

BalanceInv == \A e \in Eps : Balanced(stats[e], probe[e])
StatsInv == DOMAIN stats = Eps

At(i) == probe[Endpoints[i]]

\* Which trials are open where: those that have not had their turn, and, unless
\* the run is stopped, no others but those that were sent.
OpenInv ==
    /\ pc \notin {"fund", "funding", "broadcast", "await", "end"} => \A e \in Eps : ~Open(probe[e])
    /\ pc = "fund" =>
         /\ \A e \in Eps : probe[e].funded = FALSE
         /\ \A i \in 1 .. N : i >= j => At(i).verdict \in {"none", "unknown"}
         /\ ~stop => \A i \in 1 .. N : i < j /\ Open(At(i)) => At(i).fund > 0
    /\ pc = "funding" => j = 1
    /\ pc = "funding" => \A e \in Eps :
         /\ probe[e].funded \in BOOLEAN
         /\ probe[e].funded => Open(probe[e])
         /\ ~stop /\ Open(probe[e]) => probe[e].fund > 0
    /\ pc = "broadcast" =>
         /\ \A i \in 1 .. N : i >= j =>
              /\ At(i).funded \in BOOLEAN
              /\ At(i).funded => Open(At(i))
              /\ ~stop /\ Open(At(i)) => At(i).funded
         /\ \A i \in 1 .. N : i < j /\ ~stop /\ Open(At(i)) => At(i).stage # "none"
    /\ pc \in {"broadcast", "await"} => \A e \in Eps : probe[e].stage # "none" => Open(probe[e])
    /\ pc = "await" /\ ~stop => \A e \in Eps : Open(probe[e]) => probe[e].stage # "none"

CountIInv == StatsInv /\ BalanceInv /\ OpenInv

LEMMA PlusCounts ==
  ASSUME NEW s \in [Counts -> Nat], NEW cs
  PROVE  /\ Plus(s, cs) \in [Counts -> Nat]
         /\ \A c \in Counts : Plus(s, cs)[c] = s[c] + One(c \in cs)
BY DEF Plus, One

LEMMA SameBalance ==
  ASSUME NEW s, NEW p, NEW q, Balanced(s, p), Open(p) <=> Open(q),
         Open(q) => (p.stage = "none" <=> q.stage = "none")
  PROVE  Balanced(s, q)
BY DEF Balanced, One

LEMMA BegunBalance ==
  ASSUME NEW s, NEW p, NEW q, Balanced(s, p), ~Open(p), Open(q), q.stage = "none"
  PROVE  Balanced([s EXCEPT !.probes = @ + 1], q)
<1> DEFINE u == [s EXCEPT !.probes = @ + 1]
<1>1. /\ u \in [Counts -> Nat] /\ u.probes = s.probes + 1
      /\ \A c \in Counts : c # "probes" => u[c] = s[c]
  BY DEF Balanced, Counts
<1>2. \A c \in Counts : s[c] \in Nat
  BY DEF Balanced
<1> HIDE DEF u
<1> QED
  BY <1>1, <1>2 DEF Balanced, One, Counts

LEMMA ClosedBalance ==
  ASSUME NEW s, NEW p, NEW q, Balanced(s, p), Open(p), p.stage = "none", ~Open(q),
         NEW c \in {"rejected", "inconclusive", "transport"}
  PROVE  Balanced(Plus(s, {c}), q)
<1>1. s \in [Counts -> Nat] /\ \A d \in Counts : s[d] \in Nat
  BY DEF Balanced
<1>2. /\ Plus(s, {c}) \in [Counts -> Nat]
      /\ \A d \in Counts : Plus(s, {c})[d] = s[d] + One(d \in {c})
  BY <1>1, PlusCounts
<1> QED
  BY <1>1, <1>2 DEF Balanced, One, Counts

LEMMA AcceptedBalance ==
  ASSUME NEW s, NEW p, NEW q, Balanced(s, p), Open(p), p.stage = "none", Open(q), q.stage # "none"
  PROVE  Balanced(Plus(s, {"accepted"}), q)
<1>1. s \in [Counts -> Nat] /\ \A d \in Counts : s[d] \in Nat
  BY DEF Balanced
<1>2. /\ Plus(s, {"accepted"}) \in [Counts -> Nat]
      /\ \A d \in Counts : Plus(s, {"accepted"})[d] = s[d] + One(d \in {"accepted"})
  BY <1>1, PlusCounts
<1> QED
  BY <1>1, <1>2 DEF Balanced, One, Counts

LEMMA ScoredBalance ==
  ASSUME NEW s, NEW p, NEW q, Balanced(s, p), Open(p), p.stage # "none", ~Open(q), NEW v
  PROVE  Balanced(Plus(s, Counted(v)), q)
<1>1. s \in [Counts -> Nat] /\ \A d \in Counts : s[d] \in Nat
  BY DEF Balanced
<1>2. /\ Plus(s, Counted(v)) \in [Counts -> Nat]
      /\ \A d \in Counts : Plus(s, Counted(v))[d] = s[d] + One(d \in Counted(v))
  BY <1>1, PlusCounts
<1>3. Counted(v) \in {{"mined", "credited"}, {"mined", "no_credit"}, {"mined", "reverted"}, {"dropped"}}
  BY DEF Counted
<1>4. CASE Counted(v) = {"mined", "credited"}
  BY <1>1, <1>2, <1>4 DEF Balanced, One, Counts
<1>5. CASE Counted(v) = {"mined", "no_credit"}
  BY <1>1, <1>2, <1>5 DEF Balanced, One, Counts
<1>6. CASE Counted(v) = {"mined", "reverted"}
  BY <1>1, <1>2, <1>6 DEF Balanced, One, Counts
<1>7. CASE Counted(v) = {"dropped"}
  BY <1>1, <1>2, <1>7 DEF Balanced, One, Counts
<1> QED
  BY <1>3, <1>4, <1>5, <1>6, <1>7

LEMMA CountInit == Init => CountIInv
<1> SUFFICES ASSUME Init PROVE CountIInv
  OBVIOUS
<1>1. StatsInv /\ \A e \in Eps : probe[e] = NoProbe /\ stats[e] = [c \in Counts |-> 0]
  BY DEF Init, StatsInv
<1>2. ~Open(NoProbe) /\ Balanced([c \in Counts |-> 0], NoProbe)
  BY DEF Open, NoProbe, Balanced, One, Counts
<1> QED
  BY <1>1, <1>2 DEF Init, CountIInv, BalanceInv, OpenInv

\* One trial changes, and its counts with it.
LEMMA OneBalance ==
  ASSUME FullInv, CountIInv, NEW e \in Eps, NEW f \in Fields, NEW v, NEW cs,
         probe' = [probe EXCEPT ![e][f] = v],
         stats' = stats \/ Count(e, cs),
         Balanced(stats'[e], probe'[e])
  PROVE  /\ StatsInv' /\ BalanceInv'
         /\ \A d \in Eps : d # e => probe'[d] = probe[d]
         /\ probe'[e][f] = v /\ \A g \in Fields : g # f => probe'[e][g] = probe[e][g]
<1>1. probe' = [probe EXCEPT ![e] = [probe[e] EXCEPT ![f] = v]]
  OBVIOUS
<1>2. DOMAIN probe = Eps /\ f \in DOMAIN probe[e]
  BY DEF FullInv, IInv, ShapeInv
<1>3. stats' = stats \/ stats' = [stats EXCEPT ![e] = Plus(stats[e], cs)]
  BY DEF Count
<1>4. DOMAIN stats = Eps
  BY DEF CountIInv, StatsInv
<1>5. StatsInv' /\ \A d \in Eps : d # e => probe'[d] = probe[d] /\ stats'[d] = stats[d]
  BY <1>1, <1>2, <1>3, <1>4 DEF StatsInv
<1> QED
  BY <1>1, <1>2, <1>5 DEF CountIInv, BalanceInv

LEMMA Apart ==
  ASSUME NEW i \in 1 .. N, NEW k \in 1 .. N, Endpoints[i] = Endpoints[k]
  PROVE  i = k
BY ProxyBuilderAssumption DEF N

LEMMA EpsAt == /\ \A i \in 1 .. N : Endpoints[i] \in Eps
               /\ \A e \in Eps : \E i \in 1 .. N : e = Endpoints[i]
BY DEF Eps

LEMMA CountBegins ==
  ASSUME FullInv, CountIInv, BeginIteration
  PROVE  CountIInv'
<1>1. StatsInv' /\ \A e \in Eps : probe'[e] = NoProbe /\ stats'[e] = [c \in Counts |-> 0]
  BY DEF BeginIteration, StatsInv
<1>2. ~Open(NoProbe) /\ Balanced([c \in Counts |-> 0], NoProbe)
  BY DEF Open, NoProbe, Balanced, One, Counts
<1> QED
  BY <1>1, <1>2 DEF BeginIteration, Goto, CountIInv, BalanceInv, OpenInv

LEMMA CountPrepares ==
  ASSUME FullInv, CountIInv, Prepare
  PROVE  CountIInv'
<1>1. PICK ready \in SUBSET Eps :
        /\ pc = "prepare" /\ pc' = (IF ready = {} THEN "idle" ELSE "fund") /\ j' = 1
        /\ probe' = [e \in Eps |-> IF e \in ready THEN [NoProbe EXCEPT !.verdict = "unknown"] ELSE NoProbe]
        /\ stats' = [e \in Eps |-> IF e \in ready THEN [stats[e] EXCEPT !.probes = @ + 1] ELSE stats[e]]
  BY DEF Prepare, Goto
<1> DEFINE begun == [NoProbe EXCEPT !.verdict = "unknown"]
<1>2. /\ Open(begun) /\ ~Open(NoProbe) /\ begun.stage = "none" /\ begun.funded = FALSE
      /\ begun.verdict = "unknown" /\ NoProbe.verdict = "none" /\ NoProbe.funded = FALSE
  BY DEF Open, NoProbe
<1> HIDE DEF begun
<1>3. \A e \in Eps : ~Open(probe[e]) /\ Balanced(stats[e], probe[e])
  BY <1>1 DEF CountIInv, OpenInv, BalanceInv
<1>4. \A e \in Eps : /\ probe'[e] = IF e \in ready THEN begun ELSE NoProbe
                     /\ stats'[e] = IF e \in ready THEN [stats[e] EXCEPT !.probes = @ + 1] ELSE stats[e]
  BY <1>1 DEF begun
<1>5. BalanceInv'
  BY <1>2, <1>3, <1>4, BegunBalance, SameBalance DEF BalanceInv
<1>6. OpenInv'
  BY <1>1, <1>2, <1>4, EpsAt DEF OpenInv, At
<1> QED
  BY <1>1, <1>5, <1>6 DEF CountIInv, StatsInv

LEMMA CountFunds ==
  ASSUME FullInv, CountIInv, SeqInv, FundSender
  PROVE  CountIInv'
<1>1. /\ pc = "fund" /\ UNCHANGED stop /\ N \in Nat /\ j \in 1 .. N /\ Ep = Endpoints[j] /\ Ep \in Eps
      /\ \/ j < N /\ j' = j + 1 /\ pc' = "fund"
         \/ j = N /\ j' = 1 /\ pc' = "funding"
  BY ProxyBuilderAssumption, EpsAt DEF FundSender, Walk, MatrixStep, FullInv, PlaceInv, N, Ep
<1>2. /\ probe[Ep].stage = "none" /\ probe[Ep].funded = FALSE
      /\ Ep \in Trials => Open(probe[Ep])
  BY <1>1 DEF FullInv, FreshInv, CountIInv, OpenInv, At, Open, Trials
<1>3. Balanced(stats[Ep], probe[Ep])
  BY <1>1 DEF CountIInv, BalanceInv
<1>a. {"verdict", "fund", "funded", "stage"} \subseteq Fields
  BY DEF Fields
\* What the walk leaves behind, once this sender is done with.
<1>4. ASSUME \A d \in Eps : d # Ep => probe'[d] = probe[d],
             probe'[Ep].funded = FALSE,
             ~stop /\ Open(probe'[Ep]) => probe'[Ep].fund > 0
      PROVE  OpenInv'
  <2>1. \A e \in Eps : probe'[e].funded = FALSE
    BY <1>1, <1>4 DEF CountIInv, OpenInv
  <2>2. \A i \in 1 .. N : i # j => At(i)' = At(i)
    BY <1>1, <1>4, Apart, EpsAt DEF At
  <2>3. \A i \in 1 .. N : i <= j /\ ~stop /\ Open(At(i)') => At(i)'.fund > 0
    BY <1>1, <1>4, <2>2 DEF CountIInv, OpenInv, At
  <2>4. CASE j < N /\ j' = j + 1 /\ pc' = "fund"
    BY <1>1, <2>1, <2>2, <2>3, <2>4 DEF CountIInv, OpenInv
  <2>5. CASE j = N /\ j' = 1 /\ pc' = "funding"
    <3>1. ASSUME NEW e \in Eps, ~stop, Open(probe'[e]) PROVE probe'[e].fund > 0
      <4>1. PICK i \in 1 .. N : e = Endpoints[i]
        BY EpsAt
      <4>2. i <= j
        BY <1>1, <2>5, <4>1
      <4> QED
        BY <2>3, <3>1, <4>1, <4>2 DEF At
    <3> QED
      BY <1>1, <2>1, <2>5, <3>1 DEF OpenInv
  <2> QED
    BY <1>1, <2>4, <2>5
<1>5. CASE Ep \in Trials /\ MasterSend("plain") /\ stats' = stats
           /\ probe' = [probe EXCEPT ![Ep].fund = Len(master')]
  <2>1. Len(master') > 0
    BY <1>5, Appended DEF Kinds
  <2>2. probe'[Ep].stage = probe[Ep].stage /\ probe'[Ep].verdict = probe[Ep].verdict
        /\ probe'[Ep].fund = Len(master') /\ probe'[Ep].funded = probe[Ep].funded
    BY <1>1, <1>5, <1>a DEF FullInv, IInv, ShapeInv
  <2>3. Balanced(stats'[Ep], probe'[Ep])
    BY <1>3, <1>5, <2>2, SameBalance DEF Open
  <2>4. StatsInv' /\ BalanceInv' /\ \A d \in Eps : d # Ep => probe'[d] = probe[d]
    BY <1>1, <1>5, <1>a, <2>3, OneBalance
  <2> QED
    BY <1>2, <1>4, <2>1, <2>2, <2>4 DEF CountIInv
<1>6. CASE Ep \in Trials /\ Unfunded(Ep)
  <2>1. probe'[Ep].stage = probe[Ep].stage /\ probe'[Ep].verdict = "inconclusive_unfunded"
        /\ probe'[Ep].funded = probe[Ep].funded
    BY <1>1, <1>6, <1>a DEF Unfunded, FullInv, IInv, ShapeInv
  <2>2. stats'[Ep] = Plus(stats[Ep], {"inconclusive"}) /\ ~Open(probe'[Ep])
    BY <1>1, <1>6, <2>1 DEF Unfunded, Count, CountIInv, StatsInv, Open
  <2>3. Balanced(stats'[Ep], probe'[Ep])
    BY <1>2, <1>3, <1>6, <2>2, ClosedBalance
  <2>4. StatsInv' /\ BalanceInv' /\ \A d \in Eps : d # Ep => probe'[d] = probe[d]
    BY <1>1, <1>6, <1>a, <2>3, OneBalance DEF Unfunded
  <2> QED
    BY <1>2, <1>4, <2>1, <2>2, <2>4 DEF CountIInv
<1>7. CASE (Ep \notin Trials \/ stop) /\ UNCHANGED <<probe, stats>>
  <2>1. ~stop => ~Open(probe[Ep])
    BY <1>1, <1>7 DEF Trials, Open
  <2>2. OpenInv'
    BY <1>2, <1>4, <1>7, <2>1
  <2> QED
    BY <1>7, <2>2 DEF CountIInv, StatsInv, BalanceInv
<1> QED
  BY <1>5, <1>6, <1>7 DEF FundSender

LEMMA CountAwaitsFunding ==
  ASSUME FullInv, CountIInv, NEW e \in Eps, AwaitFunding(e)
  PROVE  CountIInv'
<1>1. /\ pc = "funding" /\ pc' = "funding" /\ UNCHANGED <<j, stop>> /\ probe[e].stage = "none"
      /\ Open(probe[e]) /\ probe[e].funded = FALSE /\ probe[e].fund > 0
  BY DEF AwaitFunding, MatrixStep, Fundings, Open, FullInv, FreshInv, CountIInv, OpenInv
<1>2. Balanced(stats[e], probe[e])
  BY DEF CountIInv, BalanceInv
<1>a. {"verdict", "fund", "funded", "stage"} \subseteq Fields
  BY DEF Fields
<1>3. ASSUME \A d \in Eps : d # e => probe'[d] = probe[d],
             probe'[e].funded \in BOOLEAN, probe'[e].funded => Open(probe'[e]),
             probe'[e].fund = probe[e].fund
      PROVE  OpenInv'
  BY <1>1, <1>3 DEF CountIInv, OpenInv
<1>4. CASE probe' = [probe EXCEPT ![e].funded = TRUE] /\ stats' = stats
  <2>1. probe'[e].stage = probe[e].stage /\ probe'[e].verdict = probe[e].verdict
        /\ probe'[e].fund = probe[e].fund /\ probe'[e].funded = TRUE
    BY <1>4, <1>a DEF FullInv, IInv, ShapeInv
  <2>2. Balanced(stats'[e], probe'[e])
    BY <1>2, <1>4, <2>1, SameBalance DEF Open
  <2>3. StatsInv' /\ BalanceInv' /\ \A d \in Eps : d # e => probe'[d] = probe[d]
    BY <1>4, <1>a, <2>2, OneBalance
  <2> QED
    BY <1>1, <1>3, <2>1, <2>3 DEF CountIInv, Open
<1>5. CASE Unfunded(e)
  <2>1. probe'[e].stage = probe[e].stage /\ probe'[e].verdict = "inconclusive_unfunded"
        /\ probe'[e].fund = probe[e].fund /\ probe'[e].funded = probe[e].funded
    BY <1>5, <1>a DEF Unfunded, FullInv, IInv, ShapeInv
  <2>2. stats'[e] = Plus(stats[e], {"inconclusive"}) /\ ~Open(probe'[e])
    BY <1>5, <2>1 DEF Unfunded, Count, CountIInv, StatsInv, Open
  <2>3. Balanced(stats'[e], probe'[e])
    BY <1>1, <1>2, <2>2, ClosedBalance
  <2>4. StatsInv' /\ BalanceInv' /\ \A d \in Eps : d # e => probe'[d] = probe[d]
    BY <1>5, <1>a, <2>3, OneBalance DEF Unfunded
  <2> QED
    BY <1>1, <1>3, <2>1, <2>4 DEF CountIInv
<1> QED
  BY <1>4, <1>5 DEF AwaitFunding

LEMMA CountFundingOver ==
  ASSUME FullInv, CountIInv, FundingOver
  PROVE  CountIInv'
<1>1. /\ pc = "funding" /\ pc' = "broadcast" /\ Fundings = {} /\ UNCHANGED <<probe, j, stop, stats>>
  BY DEF FundingOver, Goto, MatrixStep
<1>2. \A e \in Eps : /\ probe[e].stage = "none" /\ probe[e].funded \in BOOLEAN
                     /\ probe[e].funded => Open(probe[e])
  BY <1>1 DEF FullInv, FreshInv, CountIInv, OpenInv
<1>3. \A e \in Eps : ~stop /\ Open(probe[e]) => probe[e].funded
  BY <1>1, <1>2 DEF CountIInv, OpenInv, Fundings, Trials, Open
<1>4. \A i \in 1 .. N : ~(i < j)
  BY <1>1, ProxyBuilderAssumption DEF CountIInv, OpenInv, N
<1> QED
  BY <1>1, <1>2, <1>3, <1>4, EpsAt DEF CountIInv, StatsInv, BalanceInv, OpenInv, At

LEMMA CountBroadcasts ==
  ASSUME FullInv, CountIInv, BroadcastProbe
  PROVE  CountIInv'
<1>1. /\ pc = "broadcast" /\ UNCHANGED stop /\ N \in Nat /\ j \in 1 .. N
      /\ Ep = Endpoints[j] /\ Ep \in Eps
      /\ \/ j < N /\ j' = j + 1 /\ pc' = "broadcast"
         \/ j = N /\ j' = 1 /\ pc' = "await"
  BY ProxyBuilderAssumption, EpsAt DEF BroadcastProbe, Walk, MatrixStep, FullInv, PlaceInv, N, Ep
<1>2. /\ probe[Ep].stage = "none" /\ probe[Ep].funded \in BOOLEAN
      /\ probe[Ep].funded => Open(probe[Ep])
      /\ ~stop /\ Open(probe[Ep]) => probe[Ep].funded
  BY <1>1 DEF FullInv, FreshInv, CountIInv, OpenInv, At
<1>3. Balanced(stats[Ep], probe[Ep])
  BY <1>1 DEF CountIInv, BalanceInv
<1>a. {"verdict", "fund", "funded", "stage"} \subseteq Fields
  BY DEF Fields
<1>4. ASSUME \A d \in Eps : d # Ep => probe'[d] = probe[d],
             probe'[Ep].stage # "none" => Open(probe'[Ep]),
             ~stop /\ Open(probe'[Ep]) => probe'[Ep].stage # "none"
      PROVE  OpenInv'
  <2>1. \A e \in Eps : probe'[e].stage # "none" => Open(probe'[e])
    BY <1>1, <1>4 DEF CountIInv, OpenInv
  <2>2. \A i \in 1 .. N : i # j => At(i)' = At(i)
    BY <1>1, <1>4, Apart, EpsAt DEF At
  <2>3. \A i \in 1 .. N : i <= j /\ ~stop /\ Open(At(i)') => At(i)'.stage # "none"
    BY <1>1, <1>4, <2>2 DEF CountIInv, OpenInv, At
  <2>4. CASE j < N /\ j' = j + 1 /\ pc' = "broadcast"
    BY <1>1, <2>1, <2>2, <2>3, <2>4 DEF CountIInv, OpenInv
  <2>5. CASE j = N /\ j' = 1 /\ pc' = "await"
    <3>1. ASSUME NEW e \in Eps, ~stop, Open(probe'[e]) PROVE probe'[e].stage # "none"
      <4>1. PICK i \in 1 .. N : e = Endpoints[i]
        BY EpsAt
      <4>2. i <= j
        BY <1>1, <2>5, <4>1
      <4> QED
        BY <2>3, <3>1, <4>1, <4>2 DEF At
    <3> QED
      BY <1>1, <2>1, <2>5, <3>1 DEF OpenInv
  <2> QED
    BY <1>1, <2>4, <2>5
<1>5. CASE probe[Ep].funded /\ probe' = [probe EXCEPT ![Ep].stage = "sent"] /\ Count(Ep, {"accepted"})
  <2>1. probe'[Ep].stage = "sent" /\ probe'[Ep].verdict = probe[Ep].verdict
    BY <1>1, <1>5, <1>a DEF FullInv, IInv, ShapeInv
  <2>2. stats'[Ep] = Plus(stats[Ep], {"accepted"})
    BY <1>1, <1>5 DEF Count, CountIInv, StatsInv
  <2>3. Open(probe[Ep]) /\ Open(probe'[Ep])
    BY <1>2, <1>5, <2>1 DEF Open
  <2>4. Balanced(stats'[Ep], probe'[Ep])
    BY <1>2, <1>3, <2>1, <2>2, <2>3, AcceptedBalance
  <2>5. StatsInv' /\ BalanceInv' /\ \A d \in Eps : d # Ep => probe'[d] = probe[d]
    BY <1>1, <1>5, <1>a, <2>4, OneBalance
  <2> QED
    BY <1>4, <2>1, <2>3, <2>5 DEF CountIInv
<1>6. ASSUME NEW v \in {"rejected_by_rpc", "transport_error"}, NEW c \in {"rejected", "transport"},
             probe[Ep].funded, probe' = [probe EXCEPT ![Ep].verdict = v], Count(Ep, {c})
      PROVE  CountIInv'
  <2>1. probe'[Ep].stage = probe[Ep].stage /\ ~Open(probe'[Ep])
    BY <1>1, <1>6, <1>a DEF FullInv, IInv, ShapeInv, Open
  <2>2. stats'[Ep] = Plus(stats[Ep], {c})
    BY <1>1, <1>6 DEF Count, CountIInv, StatsInv
  <2>3. Balanced(stats'[Ep], probe'[Ep])
    BY <1>2, <1>3, <1>6, <2>1, <2>2, ClosedBalance
  <2>4. StatsInv' /\ BalanceInv' /\ \A d \in Eps : d # Ep => probe'[d] = probe[d]
    BY <1>1, <1>6, <1>a, <2>3, OneBalance
  <2> QED
    BY <1>2, <1>4, <2>1, <2>4 DEF CountIInv
<1>7. CASE ~(probe[Ep].funded /\ ~stop) /\ UNCHANGED <<probe, stats>>
  <2>1. OpenInv'
    BY <1>2, <1>4, <1>7
  <2> QED
    BY <1>7, <2>1 DEF CountIInv, StatsInv, BalanceInv
<1> QED
  BY <1>5, <1>6, <1>7 DEF BroadcastProbe

\* What the chain does, and what a wait sees, opens and closes no trial.
LEMMA CountWaits ==
  ASSUME FullInv, CountIInv, NEW e \in Eps, MineProbe(e) \/ CreditProbe(e) \/ AwaitProbe(e)
  PROVE  CountIInv'
<1>1. PICK f \in {"stage", "seen"} : \E v :
        /\ probe' = [probe EXCEPT ![e][f] = v] /\ stats' = stats /\ UNCHANGED <<pc, j, stop>>
        /\ f = "stage" => probe[e].stage # "none" /\ v # "none"
  BY DEF MineProbe, CreditProbe, AwaitProbe, See, ChainStep, MatrixStep, Outcomes
<1>2. PICK v : /\ probe' = [probe EXCEPT ![e][f] = v]
               /\ f = "stage" => probe[e].stage # "none" /\ v # "none"
  BY <1>1
<1>3. /\ probe'[e].verdict = probe[e].verdict /\ (probe'[e].stage = "none" <=> probe[e].stage = "none")
      /\ probe'[e].fund = probe[e].fund /\ probe'[e].funded = probe[e].funded
  BY <1>2 DEF FullInv, IInv, ShapeInv, Fields
<1>4. Balanced(stats'[e], probe'[e])
  <2>1. Balanced(stats[e], probe[e])
    BY DEF CountIInv, BalanceInv
  <2>2. Open(probe[e]) <=> Open(probe'[e])
    BY <1>3 DEF Open
  <2>3. Balanced(stats[e], probe'[e])
    BY <1>3, <2>1, <2>2, SameBalance
  <2> QED
    BY <1>1, <2>3
<1>5. /\ StatsInv' /\ BalanceInv' /\ \A d \in Eps : d # e => probe'[d] = probe[d]
  BY <1>1, <1>2, <1>4, OneBalance DEF Fields
<1>6. \A d \in Eps :
        /\ probe'[d].verdict = probe[d].verdict /\ (probe'[d].stage = "none" <=> probe[d].stage = "none")
        /\ probe'[d].fund = probe[d].fund /\ probe'[d].funded = probe[d].funded
  BY <1>3, <1>5
<1>7. OpenInv'
  BY <1>1, <1>6, EpsAt DEF CountIInv, OpenInv, At, Open
<1> QED
  BY <1>5, <1>7 DEF CountIInv

LEMMA CountScores ==
  ASSUME FullInv, CountIInv, Score
  PROVE  CountIInv'
<1>1. /\ pc = "await" /\ pc' = (IF stop THEN "end" ELSE "idle") /\ UNCHANGED stop
      /\ probe' = [e \in Eps |-> IF e \in Accepted THEN [probe[e] EXCEPT !.verdict = Verdict(probe[e].seen)]
                                 ELSE probe[e]]
      /\ stats' = [e \in Eps |-> IF e \in Accepted THEN Plus(stats[e], Counted(Verdict(probe[e].seen)))
                                 ELSE stats[e]]
  BY DEF Score, Goto, After, MatrixStep
<1>2. \A e \in Eps : /\ probe[e].stage # "none" => Open(probe[e])
                     /\ ~stop /\ Open(probe[e]) => probe[e].stage # "none"
                     /\ Balanced(stats[e], probe[e])
  BY <1>1 DEF CountIInv, OpenInv, BalanceInv
<1>3. \A e \in Eps : e \in Accepted <=> probe[e].stage # "none"
  BY <1>2 DEF Accepted, Trials, Open
<1>4. \A e \in Accepted : ~Open(probe'[e]) /\ stats'[e] = Plus(stats[e], Counted(Verdict(probe[e].seen)))
  BY <1>1 DEF Open, Verdict, FullInv, IInv, ShapeInv, Fields, Accepted, Trials
<1>5. \A e \in Eps \ Accepted : probe'[e] = probe[e] /\ stats'[e] = stats[e]
  BY <1>1
<1>6. BalanceInv'
  <2> SUFFICES ASSUME NEW e \in Eps PROVE Balanced(stats'[e], probe'[e])
    BY DEF BalanceInv
  <2>1. CASE e \in Accepted
    BY <1>2, <1>3, <1>4, <2>1, ScoredBalance
  <2>2. CASE e \notin Accepted
    BY <1>2, <1>5, <2>2
  <2> QED
    BY <2>1, <2>2
<1>7. ~stop => \A e \in Eps : ~Open(probe'[e])
  BY <1>2, <1>3, <1>4, <1>5
<1> QED
  BY <1>1, <1>6, <1>7 DEF CountIInv, StatsInv, OpenInv

LEMMA CountStep == FullInv /\ SeqInv /\ CountIInv /\ [Next]_vars => CountIInv'
<1> SUFFICES ASSUME FullInv, SeqInv, CountIInv, [Next]_vars PROVE CountIInv'
  OBVIOUS
<1>1. CASE BeginIteration \/ Prepare \/ FundSender \/ FundingOver \/ BroadcastProbe \/ Score
  BY <1>1, CountBegins, CountPrepares, CountFunds, CountFundingOver, CountBroadcasts, CountScores
<1>2. CASE \E e \in Eps : MineProbe(e) \/ CreditProbe(e) \/ AwaitProbe(e) \/ AwaitFunding(e)
  BY <1>2, CountWaits, CountAwaitsFunding
<1>3. CASE \/ SendCreate \/ Created \/ SendDeposit \/ Deposited \/ Credit \/ SendImplicit
           \/ ImplicitReceipt \/ ClearGap \/ ImplicitCredit \/ Leave
  <2>1. /\ UNCHANGED <<probe, stats, stop>>
        /\ pc \notin {"fund", "funding", "broadcast", "await", "end"}
        /\ pc' \notin {"fund", "funding", "broadcast", "await"}
    BY <1>3 DEF SendCreate, Created, SendDeposit, Deposited, Credit, SendImplicit, ImplicitReceipt,
         ClearGap, ImplicitCredit, VariantStep, Leave, Goto, After
  <2> QED
    BY <2>1 DEF CountIInv, StatsInv, BalanceInv, OpenInv
<1>4. CASE Stop \/ Finished \/ UNCHANGED vars \/ \E i \in 1 .. Len(master) : MineMaster(i) \/ CreditMaster(i)
  <2>1. UNCHANGED <<probe, stats, pc, j>> /\ (stop' = stop \/ (stop' = TRUE /\ ~stop))
    BY <1>4 DEF Stop, Finished, vars, MineMaster, CreditMaster, ChainStep
  <2> QED
    BY <2>1, EpsAt DEF CountIInv, StatsInv, BalanceInv, OpenInv, At
<1> QED
  BY <1>1, <1>2, <1>3, <1>4 DEF Next, Chain, Worker

(***************************************************************************)
(* ProxyBuilder!Accounted: between matrices every trial that was begun is  *)
(* counted in one place, for any number of endpoints and whatever failed   *)
(* (proxy_builder.py:865-874).                                             *)
(***************************************************************************)
THEOREM AccountedCorrect == Spec => []Accounted
<1>1. FullInv /\ [Next]_vars => FullInv'
  BY TrialsStep, PlaceStep, FreshStep DEF FullInv, IInv
<1>2. ControlIInv => SeqInv
  BY DEF ControlIInv
<1>3. CountIInv => Accounted
  <2> SUFFICES ASSUME CountIInv, pc = "idle", NEW e \in Eps
               PROVE  /\ stats[e].probes = stats[e].rejected + stats[e].inconclusive
                                           + stats[e].transport + stats[e].accepted
                      /\ stats[e].accepted = stats[e].dropped + stats[e].mined
                      /\ stats[e].mined = stats[e].reverted + stats[e].credited + stats[e].no_credit
    BY DEF Accounted
  <2>1. Balanced(stats[e], probe[e]) /\ ~Open(probe[e])
    BY DEF CountIInv, BalanceInv, OpenInv
  <2>2. \A c \in Counts : stats[e][c] \in Nat
    BY <2>1 DEF Balanced
  <2> QED
    BY <2>1, <2>2 DEF Balanced, One, Counts
<1> QED
  BY <1>1, <1>2, <1>3, InitFits, ControlInit, ControlStep, CountInit, CountStep, PTL DEF Spec

-----------------------------------------------------------------------------
(***************************************************************************)
(* The divergence.  It is forgotten when an iteration begins, drawn from   *)
(* the verdicts when the matrix is scored, and nothing touches either      *)
(* until the next iteration.                                               *)
(***************************************************************************)
Varied == \E e, f \in Tested : probe[e].verdict # probe[f].verdict

VerdictInv == \A e \in Eps : probe[e].verdict \in Verdicts

DivergedInv ==
    /\ pc \notin {"idle", "end"} => diverged = FALSE
    /\ pc = "idle" => (diverged <=> Varied)

\* A finite set has more than one element when it has two that differ.
LEMMA MoreThanOne ==
  ASSUME NEW S, IsFiniteSet(S)
  PROVE  Cardinality(S) > 1 <=> \E x, y \in S : x # y
<1>1. Cardinality(S) \in Nat
  BY FS_CardinalityType
<1>2. CASE S = {}
  BY <1>2, FS_EmptySet
<1>3. CASE S # {}
  <2>1. PICK x \in S : TRUE
    BY <1>3
  <2>2. CASE S = {x}
    BY <2>2, FS_Singleton
  <2>3. CASE S # {x}
    <3>1. \E y \in S : x # y
      BY <2>1, <2>3
    <3>2. Cardinality(S) # 0
      BY <1>3, FS_EmptySet
    <3>3. Cardinality(S) # 1
      <4>1. ASSUME Cardinality(S) = 1 PROVE FALSE
        <5>1. \E z : S = {z}
          BY <4>1, FS_Singleton
        <5> QED
          BY <3>1, <5>1
      <4> QED
        BY <4>1
    <3> QED
      BY <1>1, <2>1, <3>1, <3>2, <3>3
  <2> QED
    BY <2>2, <2>3
<1> QED
  BY <1>2, <1>3

\* The verdicts _score_matrix compares.
LEMMA ScoredDiverged ==
  ASSUME VerdictInv
  PROVE  Cardinality({probe[e].verdict : e \in Eps} \ Untested) > 1 <=> Varied
<1> DEFINE S == {probe[e].verdict : e \in Eps} \ Untested
<1>1. IsFiniteSet(S)
  <2>1. S \subseteq {"auto_created", "mined_no_credit", "reverted", "accepted_never_mined", "rejected_by_rpc"}
    BY DEF VerdictInv, Verdicts
  <2>2. IsFiniteSet({"auto_created", "mined_no_credit", "reverted", "accepted_never_mined"}
                    \cup {"rejected_by_rpc"})
    <3>1. IsFiniteSet({"auto_created"})
      BY FS_Singleton
    <3>2. IsFiniteSet({"auto_created"} \cup {"mined_no_credit"})
      BY <3>1, FS_AddElement
    <3>3. IsFiniteSet({"auto_created", "mined_no_credit"} \cup {"reverted"})
      <4>1. {"auto_created", "mined_no_credit"} = {"auto_created"} \cup {"mined_no_credit"}
        OBVIOUS
      <4> QED
        BY <3>2, <4>1, FS_AddElement
    <3>4. IsFiniteSet({"auto_created", "mined_no_credit", "reverted"} \cup {"accepted_never_mined"})
      <4>1. {"auto_created", "mined_no_credit", "reverted"}
              = {"auto_created", "mined_no_credit"} \cup {"reverted"}
        OBVIOUS
      <4> QED
        BY <3>3, <4>1, FS_AddElement
    <3>5. {"auto_created", "mined_no_credit", "reverted", "accepted_never_mined"}
            = {"auto_created", "mined_no_credit", "reverted"} \cup {"accepted_never_mined"}
      OBVIOUS
    <3> QED
      BY <3>4, <3>5, FS_AddElement
  <2>3. S \in SUBSET ({"auto_created", "mined_no_credit", "reverted", "accepted_never_mined"}
                      \cup {"rejected_by_rpc"})
    BY <2>1
  <2> QED
    BY <2>2, <2>3, FS_Subset
<1>2. Cardinality(S) > 1 <=> \E x, y \in S : x # y
  <2> HIDE DEF S
  <2> QED
    BY <1>1, MoreThanOne
<1>3. (\E x, y \in S : x # y) <=> Varied
  BY DEF Varied, Tested
<1> QED
  BY <1>2, <1>3

LEMMA VerdictStep == ShapeInv /\ VerdictInv /\ PlaceInv /\ [Next]_vars => VerdictInv'
<1> SUFFICES ASSUME ShapeInv, VerdictInv, PlaceInv, [Next]_vars PROVE VerdictInv'
  OBVIOUS
<1>a. "verdict" \in Fields /\ Eps' = Eps
  BY DEF Fields, Eps, N
<1>1. \A s : Verdict(s) \in Verdicts
  BY DEF Verdict, Verdicts
<1>2. ASSUME NEW e \in Eps, NEW f \in Fields, NEW v, probe' = [probe EXCEPT ![e][f] = v],
             f = "verdict" => v \in Verdicts
      PROVE  VerdictInv'
  BY <1>2, <1>a DEF ShapeInv, VerdictInv
<1>3. CASE BeginIteration \/ Prepare
  <2>1. \A e \in Eps : probe'[e].verdict \in {"none", "unknown"}
    BY <1>3 DEF BeginIteration, Prepare, NoProbe
  <2> QED
    BY <2>1, <1>a DEF VerdictInv, Verdicts, Untested
<1>4. CASE Score
  <2>1. \A e \in Eps : probe'[e] = probe[e]
                       \/ probe'[e] = [probe[e] EXCEPT !.verdict = Verdict(probe[e].seen)]
    BY <1>4 DEF Score
  <2>2. \A e \in Eps : probe'[e].verdict \in {probe[e].verdict, Verdict(probe[e].seen)}
    BY <2>1, <1>a DEF ShapeInv
  <2> QED
    BY <2>2, <1>1, <1>a DEF VerdictInv
<1>5. CASE BroadcastProbe
  <2>1. Ep \in Eps
    BY DEF PlaceInv, Ep, Eps
  <2>2. \/ probe' = probe
        \/ \E f \in Fields : \E v : probe' = [probe EXCEPT ![Ep][f] = v] /\ (f = "verdict" => v \in Verdicts)
    BY <1>5 DEF BroadcastProbe, Fields, Verdicts, Untested
  <2> QED
    BY <1>2, <1>a, <2>1, <2>2 DEF VerdictInv
<1>6. CASE FundSender
  <2>1. Ep \in Eps
    BY DEF PlaceInv, Ep, Eps
  <2>2. \/ probe' = probe
        \/ \E f \in Fields : \E v : probe' = [probe EXCEPT ![Ep][f] = v] /\ (f = "verdict" => v \in Verdicts)
    BY <1>6 DEF FundSender, Unfunded, Fields, Verdicts, Untested
  <2> QED
    BY <1>2, <1>a, <2>1, <2>2 DEF VerdictInv
<1>7. ASSUME NEW e \in Eps, MineProbe(e) \/ CreditProbe(e) \/ AwaitFunding(e) \/ AwaitProbe(e)
      PROVE  VerdictInv'
  <2>1. \E f \in Fields : \E v : probe' = [probe EXCEPT ![e][f] = v] /\ (f = "verdict" => v \in Verdicts)
    BY <1>7 DEF MineProbe, CreditProbe, AwaitFunding, AwaitProbe, Unfunded, See, Fields, Verdicts, Untested
  <2> QED
    BY <1>2, <2>1
<1>8. CASE \/ SendCreate \/ Created \/ SendDeposit \/ Deposited \/ Credit \/ SendImplicit
           \/ ImplicitReceipt \/ ClearGap \/ ImplicitCredit \/ FundingOver \/ Leave \/ Stop
           \/ Finished \/ UNCHANGED vars \/ \E i \in 1 .. Len(master) : MineMaster(i) \/ CreditMaster(i)
  <2>1. UNCHANGED probe
    BY <1>8 DEF SendCreate, Created, SendDeposit, Deposited, Credit, SendImplicit, ImplicitReceipt,
         ClearGap, ImplicitCredit, VariantStep, FundingOver, MatrixStep, Leave, Stop, Finished, vars,
         MineMaster, CreditMaster, ChainStep
  <2> QED
    BY <2>1, <1>a DEF VerdictInv
<1> QED
  BY <1>3, <1>4, <1>5, <1>6, <1>7, <1>8 DEF Next, Chain, Worker

LEMMA DivergedStep == ShapeInv /\ VerdictInv' /\ DivergedInv /\ [Next]_vars => DivergedInv'
<1> SUFFICES ASSUME ShapeInv, VerdictInv', DivergedInv, [Next]_vars PROVE DivergedInv'
  OBVIOUS
<1>a. Eps' = Eps /\ "stage" \in Fields
  BY DEF Eps, N, Fields
<1>1. CASE BeginIteration
  BY <1>1 DEF BeginIteration, Goto, DivergedInv
<1>2. CASE Prepare
  <2>1. PICK ready \in SUBSET Eps :
          /\ pc = "prepare" /\ pc' = (IF ready = {} THEN "idle" ELSE "fund") /\ diverged' = diverged
          /\ probe' = [e \in Eps |-> IF e \in ready THEN [NoProbe EXCEPT !.verdict = "unknown"] ELSE NoProbe]
    BY <1>2 DEF Prepare, Goto
  <2>2. diverged' = FALSE
    BY <2>1 DEF DivergedInv
  <2>3. ~Varied'
    <3>1. \A e \in Eps : probe'[e].verdict \in Untested
      BY <2>1 DEF NoProbe, Untested
    <3> QED
      BY <3>1, <1>a DEF Varied, Tested
  <2> QED
    BY <2>1, <2>2, <2>3 DEF DivergedInv
<1>3. CASE Score
  <2>1. /\ diverged' = (Cardinality({probe'[e].verdict : e \in Eps} \ Untested) > 1)
        /\ pc' \in {"idle", "end"}
    BY <1>3 DEF Score, Goto, After
  <2>2. Cardinality({probe'[e].verdict : e \in Eps} \ Untested) > 1 <=> Varied'
    <3>1. (Cardinality({probe[e].verdict : e \in Eps} \ Untested) > 1 <=> Varied)'
      BY ScoredDiverged, PTL
    <3> QED
      BY <3>1, <1>a
  <2> QED
    BY <2>1, <2>2 DEF DivergedInv
<1>4. CASE \/ SendCreate \/ Created \/ SendDeposit \/ Deposited \/ Credit \/ SendImplicit
           \/ ImplicitReceipt \/ ClearGap \/ ImplicitCredit \/ FundSender \/ FundingOver \/ BroadcastProbe
           \/ \E e \in Eps : AwaitFunding(e) \/ AwaitProbe(e)
  <2>1. pc \notin {"idle", "end"} /\ pc' # "idle" /\ diverged' = diverged
    BY <1>4 DEF SendCreate, Created, SendDeposit, Deposited, Credit, SendImplicit, ImplicitReceipt,
         ClearGap, ImplicitCredit, VariantStep, FundSender, FundingOver, BroadcastProbe, AwaitFunding,
         AwaitProbe, MatrixStep, Walk, Goto, After
  <2> QED
    BY <2>1 DEF DivergedInv
<1>5. ASSUME NEW e \in Eps, MineProbe(e) \/ CreditProbe(e) PROVE DivergedInv'
  <2>1. PICK v : probe' = [probe EXCEPT ![e].stage = v] /\ UNCHANGED <<pc, diverged>>
    BY <1>5 DEF MineProbe, CreditProbe, ChainStep
  <2>2. \A d \in Eps : probe'[d].verdict = probe[d].verdict
    BY <2>1, <1>a DEF ShapeInv, Fields
  <2>3. Varied' <=> Varied
    BY <2>2, <1>a DEF Varied, Tested
  <2> QED
    BY <2>1, <2>3 DEF DivergedInv
<1>6. CASE \/ Stop \/ Finished \/ UNCHANGED vars \/ \E i \in 1 .. Len(master) : MineMaster(i) \/ CreditMaster(i)
  <2>1. UNCHANGED <<probe, pc, diverged>>
    BY <1>6 DEF Stop, Finished, vars, MineMaster, CreditMaster, ChainStep
  <2> QED
    BY <2>1, <1>a DEF DivergedInv, Varied, Tested
<1>7. CASE Leave
  BY <1>7 DEF Leave, Goto, DivergedInv
<1> QED
  BY <1>1, <1>2, <1>3, <1>4, <1>5, <1>6, <1>7 DEF Next, Chain, Worker

LEMMA DivergedInit == Init => VerdictInv /\ DivergedInv
BY DEF Init, VerdictInv, DivergedInv, NoProbe, Verdicts, Untested, Varied, Tested

\* Two verdicts mean two ways to treat the deposit.
LEMMA MeansApart ==
  ASSUME NEW u \in Verdicts \ Untested, NEW v \in Verdicts \ Untested, Means(u) = Means(v)
  PROVE  u = v
BY DEF Means, Verdicts, Untested

(***************************************************************************)
(* ProxyBuilder!DivergenceExact: where no endpoint refuses a probe for its *)
(* fee, funds or nonce, and whatever else goes wrong, with windows long    *)
(* enough the matrix reports a divergence exactly when two endpoints it    *)
(* tested treat the deposit differently (proxy_builder.py:706-716).        *)
(***************************************************************************)
THEOREM DivergenceCorrect == Spec => []DivergenceExact
<1> DEFINE Inv == FullInv /\ VerdictInv /\ DivergedInv
<1>1. Init => Inv
  BY InitFits, DivergedInit DEF Init
<1>2. Inv /\ [Next]_vars => Inv'
  <2> SUFFICES ASSUME Inv, [Next]_vars PROVE Inv'
    OBVIOUS
  <2>1. FullInv'
    BY TrialsStep, PlaceStep, FreshStep DEF FullInv, IInv
  <2>2. VerdictInv'
    BY VerdictStep DEF FullInv, IInv
  <2>3. DivergedInv'
    BY <2>2, DivergedStep DEF FullInv, IInv
  <2> QED
    BY <2>1, <2>2, <2>3
<1>3. Inv => DivergenceExact
  <2> SUFFICES ASSUME Inv, Patient, "refused" \notin trouble, pc = "idle"
               PROVE  diverged <=> \E e, f \in Tested : policy[e] # policy[f]
    BY DEF DivergenceExact
  <2>1. \A e \in Tested : /\ probe[e].verdict \in Verdicts \ Untested
                          /\ Means(probe[e].verdict) = policy[e]
    BY DEF FullInv, IInv, TrialsInv, Clear, VerdictFits, VerdictInv, Tested
  <2>2. Varied <=> \E e, f \in Tested : policy[e] # policy[f]
    BY <2>1, MeansApart DEF Varied
  <2> QED
    BY <2>2 DEF DivergedInv
<1> QED
  BY <1>1, <1>2, <1>3, PTL DEF Spec

-----------------------------------------------------------------------------
(***************************************************************************)
(* The types.  A trial's funding is one of the master key's transactions,  *)
(* which are forgotten only when every trial is.                           *)
(***************************************************************************)
Stages == TxStages \cup {"none"}
Seen == {"none", "unmined", "ok", "reverted", "credited", "uncredited"}
Places == {"idle", "create", "created", "deposit", "deposited", "credit", "v2", "v2sent",
           "v2clear", "v2credit", "prepare", "fund", "funding", "broadcast", "await", "end"}
Trial == [verdict : Verdicts, fund : Nat, funded : BOOLEAN, stage : Stages, seen : Seen]

ProbeInv == probe \in [Eps -> Trial]
FundInv == \A e \in Eps : probe[e].fund <= Len(master)
FlowInv ==
    /\ trouble \in Troubles /\ stop \in BOOLEAN /\ diverged \in BOOLEAN
    /\ pc \in Places /\ iterations \in 0 .. MaxIterations
    /\ stats \in [Eps -> [Counts -> Nat]]

\* One field of one trial.
LEMMA TrialChanges ==
  ASSUME ProbeInv, NEW e \in Eps, NEW t \in Trial, probe' = [probe EXCEPT ![e] = t]
  PROVE  ProbeInv' /\ \A d \in Eps : probe'[d] = IF d = e THEN t ELSE probe[d]
<1>1. Eps' = Eps
  BY DEF Eps, N
<1> QED
  BY <1>1 DEF ProbeInv

\* What becomes of the master key's transactions: none is forgotten but when an
\* iteration begins.
LEMMA MasterGrows ==
  ASSUME SeqInv, [Next]_vars
  PROVE  \/ Len(master') \in Nat /\ Len(master) \in Nat /\ Len(master) <= Len(master')
         \/ BeginIteration
<1>1. master \in Seq(Txs) /\ Len(master) \in Nat
  BY DEF SeqInv
<1>2. CASE \E i \in 1 .. Len(master) : MineMaster(i) \/ CreditMaster(i)
  <2>1. PICK i \in 1 .. Len(master) : \E v : master' = [master EXCEPT ![i].stage = v]
    BY <1>2 DEF MineMaster, CreditMaster
  <2>2. Len(master') = Len(master)
    BY <1>1, <2>1
  <2> QED
    BY <1>1, <2>2
<1>3. CASE SendCreate \/ SendDeposit \/ SendImplicit \/ FundSender
  <2>1. \/ master' = master \/ \E kind \in Kinds : MasterSend(kind)
        \/ master' = [master EXCEPT ![ImplicitAt].kind = "again"]
    BY <1>3 DEF SendCreate, SendDeposit, SendImplicit, FundSender, Kinds
  <2>2. CASE master' = [master EXCEPT ![ImplicitAt].kind = "again"]
    BY <1>1, <2>2
  <2> QED
    BY <1>1, <2>1, <2>2, Appended
<1>4. CASE ClearGap
  <2>1. master' = master \/ \E tx : master' = [master EXCEPT ![ImplicitAt] = tx]
    BY <1>4 DEF ClearGap, Replace
  <2>2. Len(master') = Len(master)
    BY <1>1, <2>1
  <2> QED
    BY <1>1, <2>2
<1>5. CASE \/ \E e \in Eps : MineProbe(e) \/ CreditProbe(e) \/ AwaitFunding(e) \/ AwaitProbe(e)
           \/ Created \/ Deposited \/ Credit \/ ImplicitReceipt \/ ImplicitCredit
           \/ Prepare \/ FundingOver \/ BroadcastProbe \/ Score \/ Leave \/ Stop \/ Finished
           \/ UNCHANGED vars
  <2>1. master' = master
    BY <1>5 DEF MineProbe, CreditProbe, AwaitFunding, AwaitProbe, Created, Deposited, Credit,
         ImplicitReceipt, ImplicitCredit, Prepare, FundingOver, BroadcastProbe, Score, Leave, Stop,
         Finished, vars
  <2> QED
    BY <1>1, <2>1
<1> QED
  BY <1>2, <1>3, <1>4, <1>5 DEF Next, Chain, Worker

\* Each step of a trial, with the transaction that funds it.
LEMMA ProbeSteps ==
  ASSUME ProbeInv, SeqInv, PlaceInv, [Next]_vars
  PROVE  \/ BeginIteration \/ Prepare \/ Score \/ probe' = probe
         \/ \E e \in Eps : \E t \in Trial :
              /\ probe' = [probe EXCEPT ![e] = t]
              /\ t.fund = probe[e].fund \/ t.fund = Len(master')
<1>a. ASSUME NEW e \in Eps
      PROVE  /\ probe[e] \in Trial
             /\ \A v \in Verdicts : /\ [probe[e] EXCEPT !.verdict = v] \in Trial
                                    /\ [probe[e] EXCEPT !.verdict = v].fund = probe[e].fund
             /\ \A v \in Stages : /\ [probe[e] EXCEPT !.stage = v] \in Trial
                                  /\ [probe[e] EXCEPT !.stage = v].fund = probe[e].fund
             /\ \A v \in Seen : /\ [probe[e] EXCEPT !.seen = v] \in Trial
                                /\ [probe[e] EXCEPT !.seen = v].fund = probe[e].fund
             /\ /\ [probe[e] EXCEPT !.funded = TRUE] \in Trial
                /\ [probe[e] EXCEPT !.funded = TRUE].fund = probe[e].fund
             /\ \A n \in Nat : /\ [probe[e] EXCEPT !.fund = n] \in Trial
                               /\ [probe[e] EXCEPT !.fund = n].fund = n
  BY DEF ProbeInv, Trial
<1>b. Ep \in Eps
  BY DEF PlaceInv, Ep, Eps
<1>1. ASSUME NEW e \in Eps, MineProbe(e) \/ CreditProbe(e)
      PROVE  \E t \in Trial : probe' = [probe EXCEPT ![e] = t] /\ t.fund = probe[e].fund
  <2>1. PICK v \in Stages : probe' = [probe EXCEPT ![e].stage = v]
    <3>1. \A p : Outcomes(p) \subseteq Stages
      BY DEF Outcomes, Stages, TxStages
    <3> QED
      BY <1>1, <3>1 DEF MineProbe, CreditProbe, Stages, TxStages
  <2> QED
    BY <1>a, <2>1
<1>2. ASSUME NEW e \in Eps, AwaitProbe(e)
      PROVE  \E t \in Trial : probe' = [probe EXCEPT ![e] = t] /\ t.fund = probe[e].fund
  <2>1. PICK v \in Seen : probe' = [probe EXCEPT ![e].seen = v]
    BY <1>2 DEF AwaitProbe, See, Seen
  <2> QED
    BY <1>a, <2>1
<1>3. ASSUME NEW e \in Eps, AwaitFunding(e)
      PROVE  \E t \in Trial : probe' = [probe EXCEPT ![e] = t] /\ t.fund = probe[e].fund
  <2>1. \/ probe' = [probe EXCEPT ![e].funded = TRUE]
        \/ probe' = [probe EXCEPT ![e].verdict = "inconclusive_unfunded"]
    BY <1>3 DEF AwaitFunding, Unfunded
  <2>2. "inconclusive_unfunded" \in Verdicts
    BY DEF Verdicts, Untested
  <2> QED
    BY <1>a, <2>1, <2>2, ZenonT(40)
<1>4. CASE FundSender
  <2>1. \/ probe' = probe
        \/ MasterSend("plain") /\ probe' = [probe EXCEPT ![Ep].fund = Len(master')]
        \/ probe' = [probe EXCEPT ![Ep].verdict = "inconclusive_unfunded"]
    BY <1>4 DEF FundSender, Unfunded
  <2>2. "inconclusive_unfunded" \in Verdicts /\ "plain" \in Kinds
    BY DEF Verdicts, Untested, Kinds
  <2>3. MasterSend("plain") => Len(master') \in Nat
    BY <2>2, Appended
  <2>4. CASE MasterSend("plain") /\ probe' = [probe EXCEPT ![Ep].fund = Len(master')]
    <3>1. /\ [probe[Ep] EXCEPT !.fund = Len(master')] \in Trial
          /\ [probe[Ep] EXCEPT !.fund = Len(master')].fund = Len(master')
      BY <1>a, <1>b, <2>3, <2>4
    <3> QED
      BY <1>b, <2>4, <3>1
  <2>5. CASE probe' = [probe EXCEPT ![Ep].verdict = "inconclusive_unfunded"]
    <3>1. /\ [probe[Ep] EXCEPT !.verdict = "inconclusive_unfunded"] \in Trial
          /\ [probe[Ep] EXCEPT !.verdict = "inconclusive_unfunded"].fund = probe[Ep].fund
      BY <1>a, <1>b, <2>2
    <3> QED
      BY <1>b, <2>5, <3>1
  <2> QED
    BY <2>1, <2>4, <2>5
<1>5. CASE BroadcastProbe
  <2>1. \/ probe' = probe
        \/ probe' = [probe EXCEPT ![Ep].stage = "sent"]
        \/ \E v \in Verdicts : probe' = [probe EXCEPT ![Ep].verdict = v]
    BY <1>5 DEF BroadcastProbe, Verdicts, Untested
  <2>2. "sent" \in Stages
    BY DEF Stages, TxStages
  <2>3. CASE probe' = [probe EXCEPT ![Ep].stage = "sent"]
    <3>1. /\ [probe[Ep] EXCEPT !.stage = "sent"] \in Trial
          /\ [probe[Ep] EXCEPT !.stage = "sent"].fund = probe[Ep].fund
      BY <1>a, <1>b, <2>2
    <3> QED
      BY <1>b, <2>3, <3>1
  <2>4. ASSUME NEW v \in Verdicts, probe' = [probe EXCEPT ![Ep].verdict = v]
        PROVE  \E t \in Trial : probe' = [probe EXCEPT ![Ep] = t] /\ t.fund = probe[Ep].fund
    <3>1. /\ [probe[Ep] EXCEPT !.verdict = v] \in Trial
          /\ [probe[Ep] EXCEPT !.verdict = v].fund = probe[Ep].fund
      BY <1>a, <1>b
    <3> QED
      BY <2>4, <3>1
  <2> QED
    BY <1>b, <2>1, <2>3, <2>4
<1>6. CASE \/ SendCreate \/ Created \/ SendDeposit \/ Deposited \/ Credit \/ SendImplicit
           \/ ImplicitReceipt \/ ClearGap \/ ImplicitCredit \/ FundingOver \/ Leave \/ Stop
           \/ Finished \/ UNCHANGED vars \/ \E i \in 1 .. Len(master) : MineMaster(i) \/ CreditMaster(i)
  BY <1>6 DEF SendCreate, Created, SendDeposit, Deposited, Credit, SendImplicit, ImplicitReceipt,
       ClearGap, ImplicitCredit, VariantStep, FundingOver, MatrixStep, Leave, Stop, Finished, vars,
       MineMaster, CreditMaster, ChainStep
<1> QED
  BY <1>1, <1>2, <1>3, <1>4, <1>5, <1>6 DEF Next, Chain, Worker

LEMMA ProbeTypes ==
  ASSUME ProbeInv, FundInv, SeqInv, SeqInv', PlaceInv, [Next]_vars
  PROVE  ProbeInv' /\ FundInv'
<1>a. Eps' = Eps /\ Len(master') \in Nat
  BY DEF Eps, N, SeqInv
<1>b. NoProbe \in Trial /\ NoProbe.fund = 0
      /\ [NoProbe EXCEPT !.verdict = "unknown"] \in Trial
      /\ [NoProbe EXCEPT !.verdict = "unknown"].fund = 0
  BY DEF NoProbe, Trial, Verdicts, Untested, Stages, Seen
<1>1. CASE BeginIteration \/ Prepare
  <2>1. probe' \in [Eps -> {NoProbe, [NoProbe EXCEPT !.verdict = "unknown"]}]
    BY <1>1 DEF BeginIteration, Prepare
  <2>2. \A e \in Eps : probe'[e] \in Trial /\ probe'[e].fund = 0
    BY <1>b, <2>1
  <2>3. probe' \in [Eps -> Trial] /\ \A e \in Eps : probe'[e].fund <= Len(master')
    BY <1>a, <2>1, <2>2
  <2> QED
    BY <1>a, <2>3 DEF ProbeInv, FundInv
<1>2. CASE \/ probe' = probe /\ ~BeginIteration
           \/ \E e \in Eps : \E t \in Trial :
                /\ probe' = [probe EXCEPT ![e] = t]
                /\ t.fund = probe[e].fund \/ t.fund = Len(master')
  <2>1. CASE BeginIteration
    BY <1>1, <2>1
  <2>2. CASE ~BeginIteration
    <3>1. Len(master) \in Nat /\ Len(master) <= Len(master')
      BY <2>2, MasterGrows
    <3>2. \A e \in Eps : probe[e].fund \in Nat /\ probe[e].fund <= Len(master')
      BY <1>a, <3>1 DEF ProbeInv, Trial, FundInv
    <3>3. CASE probe' = probe
      BY <1>a, <3>2, <3>3 DEF ProbeInv, FundInv
    <3>4. CASE \E e \in Eps : \E t \in Trial :
                 /\ probe' = [probe EXCEPT ![e] = t]
                 /\ t.fund = probe[e].fund \/ t.fund = Len(master')
      <4>1. PICK e \in Eps : \E t \in Trial :
              /\ probe' = [probe EXCEPT ![e] = t]
              /\ t.fund = probe[e].fund \/ t.fund = Len(master')
        BY <3>4
      <4>2. PICK t \in Trial :
              /\ probe' = [probe EXCEPT ![e] = t]
              /\ t.fund = probe[e].fund \/ t.fund = Len(master')
        BY <4>1
      <4>3. ProbeInv' /\ \A d \in Eps : probe'[d] = IF d = e THEN t ELSE probe[d]
        BY <4>2, TrialChanges
      <4>4. \A d \in Eps : probe'[d].fund <= Len(master')
        BY <1>a, <3>2, <4>2, <4>3
      <4> QED
        BY <1>a, <4>3, <4>4 DEF FundInv
    <3> QED
      BY <1>2, <2>2, <3>3, <3>4
  <2> QED
    BY <2>1, <2>2
<1>3. CASE Score
  <2>1. /\ master' = master
        /\ probe' = [e \in Eps |-> IF e \in Accepted
                                   THEN [probe[e] EXCEPT !.verdict = Verdict(probe[e].seen)]
                                   ELSE probe[e]]
    BY <1>3 DEF Score
  <2>2. ASSUME NEW e \in Eps PROVE probe'[e] \in Trial /\ probe'[e].fund = probe[e].fund
    <3>1. \A s : Verdict(s) \in Verdicts
      BY DEF Verdict, Verdicts
    <3>2. probe[e] \in Trial
      BY DEF ProbeInv
    <3>3. [probe[e] EXCEPT !.verdict = Verdict(probe[e].seen)] \in Trial
          /\ [probe[e] EXCEPT !.verdict = Verdict(probe[e].seen)].fund = probe[e].fund
      BY <3>1, <3>2 DEF Trial
    <3> QED
      BY <2>1, <3>2, <3>3
  <2>3. probe' \in [Eps -> Trial]
    BY <2>1, <2>2
  <2> QED
    BY <1>a, <2>1, <2>2, <2>3 DEF ProbeInv, FundInv
<1> QED
  BY <1>1, <1>2, <1>3, ProbeSteps

LEMMA CountTypes ==
  ASSUME FlowInv, [Next]_vars
  PROVE  stats' \in [Eps -> [Counts -> Nat]]
<1>1. ASSUME NEW e \in Eps, NEW cs PROVE Plus(stats[e], cs) \in [Counts -> Nat]
  BY PlusCounts DEF FlowInv
<1>2. ASSUME NEW e, NEW cs, Count(e, cs) PROVE stats' \in [Eps -> [Counts -> Nat]]
  BY <1>1, <1>2 DEF Count, FlowInv
<1>3. CASE BeginIteration
  BY <1>3 DEF BeginIteration
<1>4. CASE Prepare
  <2>1. PICK ready \in SUBSET Eps :
          stats' = [e \in Eps |-> IF e \in ready THEN [stats[e] EXCEPT !.probes = stats[e].probes + 1]
                                  ELSE stats[e]]
    BY <1>4 DEF Prepare
  <2>2. \A e \in Eps : stats[e] \in [Counts -> Nat] /\ "probes" \in Counts
    BY DEF FlowInv, Counts
  <2>3. \A e \in Eps : [stats[e] EXCEPT !.probes = stats[e].probes + 1] \in [Counts -> Nat]
    BY <2>2
  <2> QED
    BY <2>1, <2>2, <2>3
<1>5. CASE Score
  <2>1. stats' = [e \in Eps |-> IF e \in Accepted THEN Plus(stats[e], Counted(Verdict(probe[e].seen)))
                                ELSE stats[e]]
    BY <1>5 DEF Score
  <2> QED
    BY <1>1, <2>1 DEF FlowInv
<1>6. CASE FundSender \/ BroadcastProbe \/ \E e \in Eps : AwaitFunding(e)
  <2>1. stats' = stats \/ \E e, cs : Count(e, cs)
    BY <1>6 DEF FundSender, BroadcastProbe, AwaitFunding, Unfunded
  <2> QED
    BY <1>2, <2>1 DEF FlowInv
<1>7. CASE \/ SendCreate \/ Created \/ SendDeposit \/ Deposited \/ Credit \/ SendImplicit
           \/ ImplicitReceipt \/ ClearGap \/ ImplicitCredit \/ FundingOver \/ Leave \/ Stop
           \/ Finished \/ UNCHANGED vars \/ (\E i \in 1 .. Len(master) : MineMaster(i) \/ CreditMaster(i))
           \/ \E e \in Eps : MineProbe(e) \/ CreditProbe(e) \/ AwaitProbe(e)
  <2>1. stats' = stats
    BY <1>7 DEF SendCreate, Created, SendDeposit, Deposited, Credit, SendImplicit, ImplicitReceipt,
         ClearGap, ImplicitCredit, VariantStep, FundingOver, Leave, Stop, Finished, vars,
         MineMaster, CreditMaster, MineProbe, CreditProbe, AwaitProbe, ChainStep
  <2> QED
    BY <2>1 DEF FlowInv
<1> QED
  BY <1>3, <1>4, <1>5, <1>6, <1>7 DEF Next, Chain, Worker

LEMMA FlowTypes ==
  ASSUME FlowInv, [Next]_vars
  PROVE  FlowInv'
<1>1. trouble' = trouble
  BY DEF Next, Chain, Worker, Stop, Finished, vars, MineMaster, CreditMaster, MineProbe, CreditProbe,
       ChainStep, chainVars, BeginIteration, SendCreate, Created, SendDeposit, Deposited, Credit,
       SendImplicit, ImplicitReceipt, ClearGap, ImplicitCredit, VariantStep, Prepare, FundSender,
       FundingOver, BroadcastProbe, Score, Leave, AwaitFunding, AwaitProbe, MatrixStep
<1>2. stop' \in {stop, TRUE}
  BY DEF Next, Chain, Worker, Stop, Finished, vars, MineMaster, CreditMaster, MineProbe, CreditProbe,
       ChainStep, chainVars, BeginIteration, SendCreate, Created, SendDeposit, Deposited, Credit,
       SendImplicit, ImplicitReceipt, ClearGap, ImplicitCredit, VariantStep, Prepare, FundSender,
       FundingOver, BroadcastProbe, Score, Leave, AwaitFunding, AwaitProbe, MatrixStep
<1>3. diverged' = diverged \/ diverged' = FALSE \/ Score
  BY DEF Next, Chain, Worker, Stop, Finished, vars, MineMaster, CreditMaster, MineProbe, CreditProbe,
       ChainStep, chainVars, BeginIteration, SendCreate, Created, SendDeposit, Deposited, Credit,
       SendImplicit, ImplicitReceipt, ClearGap, ImplicitCredit, VariantStep, Prepare, FundSender,
       FundingOver, BroadcastProbe, Leave, AwaitFunding, AwaitProbe, MatrixStep
<1>4. Score => diverged' \in BOOLEAN
  BY DEF Score
<1>5. diverged' \in BOOLEAN
  BY <1>3, <1>4 DEF FlowInv
<1>6. iterations' \in 0 .. MaxIterations
  <2>1. iterations' = iterations \/ (iterations < MaxIterations /\ iterations' = iterations + 1)
    BY DEF Next, Chain, Worker, Stop, Finished, vars, MineMaster, CreditMaster, MineProbe, CreditProbe,
         ChainStep, chainVars, BeginIteration, SendCreate, Created, SendDeposit, Deposited, Credit,
         SendImplicit, ImplicitReceipt, ClearGap, ImplicitCredit, VariantStep, Prepare, FundSender,
         FundingOver, BroadcastProbe, Score, Leave, AwaitFunding, AwaitProbe, MatrixStep
  <2> QED
    BY <2>1, ProxyBuilderAssumption DEF FlowInv
<1>7. pc' \in Places
  BY SMTT(30) DEF Next, Chain, Worker, Stop, Finished, vars, MineMaster, CreditMaster, MineProbe, CreditProbe,
       ChainStep, chainVars, BeginIteration, SendCreate, Created, SendDeposit, Deposited, Credit,
       SendImplicit, ImplicitReceipt, ClearGap, ImplicitCredit, VariantStep, Prepare, FundSender,
       FundingOver, BroadcastProbe, Score, Leave, AwaitFunding, AwaitProbe, MatrixStep, Goto, Walk,
       After, FlowInv, Places
<1>8. stats' \in [Eps -> [Counts -> Nat]]'
  <2>1. stats' \in [Eps -> [Counts -> Nat]]
    BY CountTypes
  <2> QED
    BY <2>1 DEF Eps, N
<1>9. stop' \in BOOLEAN
  BY <1>2 DEF FlowInv
<1> QED
  BY <1>1, <1>5, <1>6, <1>7, <1>8, <1>9 DEF FlowInv

LEMMA TypesInit == Init => ProbeInv /\ FundInv /\ FlowInv
<1> SUFFICES ASSUME Init PROVE ProbeInv /\ FundInv /\ FlowInv
  OBVIOUS
<1>1. NoProbe \in Trial /\ NoProbe.fund = 0
  BY DEF NoProbe, Trial, Verdicts, Untested, Stages, Seen
<1>2. ProbeInv
  BY <1>1 DEF Init, ProbeInv
<1>3. FundInv
  BY <1>1 DEF Init, FundInv
<1>4. FlowInv
  <2>1. 0 \in 0 .. MaxIterations /\ stats \in [Eps -> [Counts -> Nat]]
    BY ProxyBuilderAssumption DEF Init
  <2> QED
    BY <2>1 DEF Init, FlowInv, Places
<1> QED
  BY <1>2, <1>3, <1>4

(***************************************************************************)
(* ProxyBuilder!TypeOK, for any endpoints and troubles: among its bounds,  *)
(* that the funding a trial waits for is a transaction the master key has  *)
(* sent in this iteration (proxy_builder.py:537-575).                      *)
(***************************************************************************)
THEOREM TypeCorrect == Spec => []TypeOK
<1> DEFINE Inv == FullInv /\ ControlIInv /\ ProbeInv /\ FundInv /\ FlowInv
<1>1. Init => Inv
  BY InitFits, ControlInit, TypesInit
<1>2. Inv /\ [Next]_vars => Inv'
  <2> SUFFICES ASSUME Inv, [Next]_vars PROVE Inv'
    OBVIOUS
  <2>1. FullInv'
    BY TrialsStep, PlaceStep, FreshStep DEF FullInv, IInv
  <2>2. ControlIInv'
    BY ControlStep
  <2>3. SeqInv /\ SeqInv' /\ PlaceInv
    BY <2>2 DEF ControlIInv, FullInv
  <2>4. ProbeInv' /\ FundInv'
    BY <2>3, ProbeTypes
  <2>5. FlowInv'
    BY FlowTypes
  <2> QED
    BY <2>1, <2>2, <2>4, <2>5
<1>3. Inv => TypeOK
  <2> SUFFICES ASSUME Inv PROVE TypeOK
    OBVIOUS
  <2>1. policy \in [Eps -> Policies] /\ j \in 1 .. N + 1
    BY ProxyBuilderAssumption DEF FullInv, IInv, ShapeInv, PlaceInv, N
  <2>2. master \in Seq(Tx) /\ Len(master) \in Nat
    <3>1. Txs = Tx
      BY DEF Txs, Tx, Kinds
    <3> QED
      BY <3>1 DEF ControlIInv, SeqInv
  <2>3. \A e \in Eps : probe[e] \in [verdict : Verdicts, fund : 0 .. Len(master), funded : BOOLEAN,
                                     stage : Stages, seen : Seen]
    <3>1. \A e \in Eps : probe[e] \in Trial /\ probe[e].fund \in 0 .. Len(master)
      BY <2>2 DEF ProbeInv, FundInv, Trial
    <3> QED
      BY <3>1 DEF Trial
  <2>4. probe \in [Eps -> [verdict : Verdicts, fund : 0 .. Len(master), funded : BOOLEAN,
                           stage : Stages, seen : Seen]]
    BY <2>3 DEF ProbeInv
  <2> QED
    BY <2>1, <2>2, <2>4 DEF FlowInv, TypeOK, Stages, Seen, Places
<1> QED
  BY <1>1, <1>2, <1>3, PTL DEF Spec
=============================================================================
