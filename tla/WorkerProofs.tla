---------------------------- MODULE WorkerProofs ----------------------------
(***************************************************************************)
(* The workers' life (Lifecycle) and the contract-caller's verdicts        *)
(* (ContractCaller): two models of one subject, with no name in common, so *)
(* that their proofs share a module.                                       *)
(*                                                                         *)
(* The report of Lifecycle, for any number of workers, enabled or not,     *)
(* that hang or not, and of findings and failures: it reflects reality     *)
(* because a worker whose thread has ended cannot change any more          *)
(* (QuietInv), and the report names every worker it could not see end      *)
(* (NoteInv): what it copies of the others, at two different moments, is   *)
(* final (CopyInv).                                                        *)
(*                                                                         *)
(* The verdicts of ContractCaller, for any number of rounds, deploy stages *)
(* and late effects, and for every combination of troubles: once a         *)
(* combination has begun with nothing on its way, the only effect that can *)
(* land is the hop's own (LandInv), so that the new entry is the one that  *)
(* was called for (EntryInv, SenderInv), and the receipt, the wait and the *)
(* entry each say what the chain did (ReceiptInv, TruthInv): a finding is  *)
(* not a false alarm, and what passes was delivered (PassInv).  If the     *)
(* chains are never late the converse holds as well (HeardInv).            *)
(***************************************************************************)
EXTENDS Lifecycle, ContractCaller, TLAPS

Places == {"none", "begin", "retry", "setup", "backoff", "loop", "step", "pause", "crashed",
           "ending", "hung", "dead"}
Final == {"done", "error", "disabled"}
Reporting == {"snapping", "listing", "reported"}

\* The types of what follows, without TypeOK's bounds.
ShapeInv ==
    /\ thread \in [Workers -> Places] /\ status \in [Workers -> Status]
    /\ findings \in [Workers -> Nat]
    /\ snap \in [Workers -> [status : Status, findings : Int]] /\ listed \in [Workers -> Int]

\* A thread that has ended, or was never to run, leaves a final status.
QuietInv ==
    /\ main # "starting" => created = Workers
    /\ created \subseteq Workers /\ joined \subseteq Workers
    /\ \A w \in Workers :
         /\ w \in created /\ thread[w] \in {"none", "dead", "ending"} => status[w] \in Final
         /\ thread[w] = "crashed" => status[w] = "error"
         /\ w \notin created => thread[w] = "none"

\* The report names every worker whose thread was seen to run at its join.
NoteInv ==
    /\ joined \subseteq created
    /\ \A w \in joined \ alive : ~Running(w)
    /\ main \in Reporting => note = alive /\ joined = created

\* What the report has copied of a worker that it does not name is what is true.
CopyInv ==
    /\ main \notin Reporting => \A w \in Workers : snap[w] = NoSnap /\ listed[w] = -1
    /\ \A w \in Workers \ note :
         /\ snap[w] # NoSnap =>
              main \in Reporting /\ snap[w].status = status[w] /\ snap[w].findings = findings[w]
         /\ listed[w] # -1 => main \in Reporting /\ listed[w] = findings[w]
    /\ main \in {"listing", "reported"} => \A w \in Workers : snap[w] # NoSnap
    /\ main = "reported" => \A w \in Workers : listed[w] # -1

ReportIInv == ShapeInv /\ QuietInv /\ NoteInv /\ CopyInv

-----------------------------------------------------------------------------
LEMMA IInvInit == Init => ReportIInv
BY LifecycleAssumption
DEF Init, ReportIInv, ShapeInv, QuietInv, NoteInv, CopyInv, Places, Status, NoSnap, Reporting

\* What a worker's step does: it runs, and changes nothing but its own state.
LEMMA WorkerSteps ==
  ASSUME ShapeInv, QuietInv, NEW w \in Workers, WorkerStep(w) \/ Hang(w)
  PROVE  /\ UNCHANGED mainVars
         /\ thread[w] \notin {"none", "dead"}
         /\ \E to \in Places \ {"none"} : thread' = [thread EXCEPT ![w] = to]
         /\ \E st \in Status : status' = [status EXCEPT ![w] = st]
         /\ \E n \in Nat : findings' = [findings EXCEPT ![w] = n]
         /\ thread'[w] \in {"dead", "ending"} => status'[w] \in Final
         /\ thread'[w] = "crashed" => status'[w] = "error"
<1>1. w \in created
  BY DEF QuietInv, WorkerStep, Hang, Begin, TrySetup, SetupFails, SetupReturns, BackoffEnds, BeginStep,
         Record, StepEnds, PauseEnds, Leave, Crash, CrashFinding, ThreadEnds, Move
<1>2. /\ status = [status EXCEPT ![w] = status[w]] /\ status[w] \in Status
      /\ findings = [findings EXCEPT ![w] = findings[w]] /\ findings[w] \in Nat
      /\ findings[w] + 1 \in Nat
      /\ thread = [thread EXCEPT ![w] = thread[w]] /\ thread[w] \in Places
  BY DEF ShapeInv
<1>3. CASE Begin(w) \/ TrySetup(w) \/ SetupFails(w) \/ SetupReturns(w) \/ BackoffEnds(w)
           \/ BeginStep(w) \/ StepEnds(w) \/ PauseEnds(w) \/ Hang(w)
  <2>1. /\ UNCHANGED mainVars /\ findings' = findings /\ thread[w] \notin {"none", "dead"}
        /\ \E to \in Places \ {"none", "dead", "ending", "crashed"} : thread' = [thread EXCEPT ![w] = to]
        /\ status' = status \/ status' = [status EXCEPT ![w] = "running"]
    BY <1>3 DEF Begin, TrySetup, SetupFails, SetupReturns, BackoffEnds, BeginStep, StepEnds, PauseEnds,
         Hang, Move, EnvUnchanged, Places
  <2> QED
    BY <1>2, <2>1 DEF ShapeInv, Status
<1>4. CASE Record(w)
  BY <1>2, <1>4 DEF Record, EnvUnchanged, ShapeInv, Places
<1>5. CASE Leave(w)
  BY <1>2, <1>5 DEF Leave, EnvUnchanged, ShapeInv, Places, Status, Final
<1>6. CASE Crash(w)
  BY <1>2, <1>6 DEF Crash, Move, EnvUnchanged, ShapeInv, Places, Status, Final
<1>7. CASE CrashFinding(w)
  BY <1>2, <1>7 DEF CrashFinding, Move, EnvUnchanged, ShapeInv, QuietInv, Places, Status, Final
<1>8. CASE ThreadEnds(w)
  BY <1>1, <1>2, <1>8 DEF ThreadEnds, Move, EnvUnchanged, ShapeInv, QuietInv, Places
<1> QED
  BY <1>3, <1>4, <1>5, <1>6, <1>7, <1>8 DEF WorkerStep

\* The types and what is settled about threads that have ended.
LEMMA QuietStep == ShapeInv /\ QuietInv /\ [Next]_vars => ShapeInv' /\ QuietInv'
<1> SUFFICES ASSUME ShapeInv, QuietInv, [Next]_vars PROVE ShapeInv' /\ QuietInv'
  OBVIOUS
<1>1. ASSUME NEW w \in Workers, WorkerStep(w) \/ Hang(w) PROVE ShapeInv' /\ QuietInv'
  <2>1. /\ UNCHANGED mainVars
        /\ thread[w] \notin {"none", "dead"}
        /\ \E to \in Places \ {"none"} : thread' = [thread EXCEPT ![w] = to]
        /\ \E st \in Status : status' = [status EXCEPT ![w] = st]
        /\ \E n \in Nat : findings' = [findings EXCEPT ![w] = n]
        /\ thread'[w] \in {"dead", "ending"} => status'[w] \in Final
        /\ thread'[w] = "crashed" => status'[w] = "error"
    BY <1>1, WorkerSteps
  <2>2. thread'[w] # "none"
    BY <2>1 DEF ShapeInv
  <2>3. \A v \in Workers : v # w => thread'[v] = thread[v] /\ status'[v] = status[v]
    BY <2>1 DEF ShapeInv
  <2>4. w \in created
    BY <2>1 DEF QuietInv
  <2>5. ShapeInv'
    BY <2>1 DEF ShapeInv, mainVars
  <2> QED
    BY <2>1, <2>2, <2>3, <2>4, <2>5 DEF QuietInv, mainVars
<1> USE DEF ShapeInv, QuietInv, workerVars
<1>2. ASSUME NEW w \in Workers, StartWorker(w) PROVE ShapeInv' /\ QuietInv'
  <2>1. w \notin created /\ thread[w] = "none"
    BY <1>2 DEF StartWorker, Turn
  <2>2. CASE w \in Enabled
    BY <1>2, <2>1, <2>2 DEF StartWorker, Places
  <2>3. CASE w \notin Enabled
    BY <1>2, <2>1, <2>3 DEF StartWorker, Status, Final
  <2> QED
    BY <2>2, <2>3
<1>3. CASE Started \/ StopWorkers \/ Note
  BY <1>3 DEF Started, StopWorkers, Note
<1>4. ASSUME NEW w \in Workers, JoinWorker(w) PROVE ShapeInv' /\ QuietInv'
  BY <1>4 DEF JoinWorker
<1>5. ASSUME NEW w \in Workers, Snapshot(w) PROVE ShapeInv' /\ QuietInv'
  BY <1>5 DEF Snapshot
<1>6. ASSUME NEW w \in Workers, ListFindings(w) PROVE ShapeInv' /\ QuietInv'
  BY <1>6 DEF ListFindings
<1>7. CASE Signal \/ DurationPasses \/ DeadlinePasses \/ UNCHANGED vars
  BY <1>7 DEF Signal, DurationPasses, DeadlinePasses, vars, mainVars
<1> QED
  BY <1>1, <1>2, <1>3, <1>4, <1>5, <1>6, <1>7 DEF Next, MainStep

LEMMA NoteStep ==
  ASSUME Mode = "run"
  PROVE  ShapeInv /\ QuietInv /\ NoteInv /\ [Next]_vars => NoteInv'
<1> SUFFICES ASSUME Mode = "run", ShapeInv, QuietInv, NoteInv, [Next]_vars PROVE NoteInv'
  OBVIOUS
<1> USE DEF NoteInv, Reporting
<1>1. ASSUME NEW w \in Workers, WorkerStep(w) \/ Hang(w) PROVE NoteInv'
  <2>1. /\ UNCHANGED mainVars /\ Running(w)
        /\ \A v \in Workers : v # w => thread'[v] = thread[v]
    BY <1>1, WorkerSteps DEF Running, ShapeInv
  <2>2. joined \subseteq Workers
    BY DEF QuietInv
  <2> QED
    BY <2>1, <2>2 DEF mainVars, Running
<1>2. ASSUME NEW w \in Workers, StartWorker(w) PROVE NoteInv'
  <2>1. /\ w \notin created /\ main = "starting" /\ main' = main
        /\ UNCHANGED <<joined, alive, note>> /\ created' = created \cup {w}
        /\ \A v \in Workers : v # w => thread'[v] = thread[v]
    BY <1>2 DEF StartWorker, Turn, ShapeInv
  <2>2. joined \subseteq Workers
    BY DEF QuietInv
  <2> QED
    BY <2>1, <2>2 DEF Running
<1>3. CASE Started \/ StopWorkers
  BY <1>3 DEF Started, StopWorkers, workerVars, Running
<1>4. CASE Note
  BY <1>4 DEF Note, ShutdownNote, workerVars, Running
<1>5. ASSUME NEW w \in Workers, JoinWorker(w) PROVE NoteInv'
  BY <1>5 DEF JoinWorker, Turn, StillAlive, workerVars, Running, QuietInv
<1>6. ASSUME NEW w \in Workers, Snapshot(w) PROVE NoteInv'
  BY <1>6 DEF Snapshot, workerVars, Running
<1>7. ASSUME NEW w \in Workers, ListFindings(w) PROVE NoteInv'
  BY <1>7 DEF ListFindings, workerVars, Running
<1>8. CASE Signal \/ DurationPasses \/ DeadlinePasses \/ UNCHANGED vars
  BY <1>8 DEF Signal, DurationPasses, DeadlinePasses, vars, mainVars, workerVars, Running
<1> QED
  BY <1>1, <1>2, <1>3, <1>4, <1>5, <1>6, <1>7, <1>8 DEF Next, MainStep

\* Of a worker that the report does not name, no thread runs any more.
LEMMA Unnamed ==
  ASSUME QuietInv, NoteInv, main \in Reporting, NEW w \in Workers \ note
  PROVE  ~Running(w) /\ status[w] \in Final
<1>1. created = Workers /\ joined = created /\ note = alive
  BY DEF QuietInv, NoteInv, Reporting
<1>2. ~Running(w)
  BY <1>1 DEF NoteInv
<1> QED
  BY <1>1, <1>2 DEF QuietInv, Running

LEMMA CopyStep == ReportIInv /\ [Next]_vars => CopyInv'
<1> SUFFICES ASSUME ShapeInv, QuietInv, NoteInv, CopyInv, [Next]_vars PROVE CopyInv'
  BY DEF ReportIInv
<1>1. ASSUME NEW w \in Workers, WorkerStep(w) \/ Hang(w) PROVE CopyInv'
  <2>1. /\ UNCHANGED mainVars /\ Running(w)
        /\ \A v \in Workers : v # w => status'[v] = status[v] /\ findings'[v] = findings[v]
    BY <1>1, WorkerSteps DEF Running, ShapeInv
  <2>2. main \in Reporting => w \in note
    BY <2>1, Unnamed
  <2> QED
    BY <2>1, <2>2 DEF CopyInv, mainVars
<1>2. ASSUME NEW w \in Workers, StartWorker(w) PROVE CopyInv'
  BY <1>2 DEF StartWorker, CopyInv, Reporting
<1>3. CASE Started \/ StopWorkers
  BY <1>3 DEF Started, StopWorkers, workerVars, CopyInv, Reporting
<1>4. CASE Note
  <2>1. main = "joining" /\ main' = "snapping" /\ UNCHANGED <<snap, listed>>
    BY <1>4 DEF Note
  <2>2. \A w \in Workers : snap'[w] = NoSnap /\ listed'[w] = -1
    BY <2>1 DEF CopyInv, Reporting
  <2> QED
    BY <2>1, <2>2 DEF CopyInv, Reporting
<1>5. ASSUME NEW w \in Workers, JoinWorker(w) PROVE CopyInv'
  BY <1>5 DEF JoinWorker, workerVars, CopyInv, Reporting
<1>6. ASSUME NEW w \in Workers, Snapshot(w) PROVE CopyInv'
  <2>1. /\ main = "snapping" /\ UNCHANGED <<note, listed, status, findings>>
        /\ snap' = [snap EXCEPT ![w] = [status |-> status[w], findings |-> findings[w]]]
        /\ main' = IF \A v \in Workers \ {w} : snap[v] # NoSnap THEN "listing" ELSE main
    BY <1>6 DEF Snapshot, workerVars
  <2>2. /\ snap'[w] = [status |-> status[w], findings |-> findings[w]]
        /\ \A v \in Workers : v # w => snap'[v] = snap[v]
    BY <2>1 DEF ShapeInv
  <2>3. snap'[w] # NoSnap
    BY <2>2 DEF ShapeInv, NoSnap
  <2>4. main' = "listing" => \A v \in Workers : snap'[v] # NoSnap
    BY <2>1, <2>2, <2>3
  <2> QED
    BY <2>1, <2>2, <2>4 DEF CopyInv, Reporting
<1>7. ASSUME NEW w \in Workers, ListFindings(w) PROVE CopyInv'
  <2>1. /\ main = "listing" /\ UNCHANGED <<note, snap, status, findings>>
        /\ listed' = [listed EXCEPT ![w] = findings[w]]
        /\ main' = IF \A v \in Workers \ {w} : listed[v] # -1 THEN "reported" ELSE main
    BY <1>7 DEF ListFindings, workerVars
  <2>2. /\ listed'[w] = findings[w] /\ findings[w] # -1
        /\ \A v \in Workers : v # w => listed'[v] = listed[v]
    BY <2>1 DEF ShapeInv
  <2> QED
    BY <2>1, <2>2 DEF CopyInv, Reporting
<1>8. CASE Signal \/ DurationPasses \/ DeadlinePasses \/ UNCHANGED vars
  BY <1>8 DEF Signal, DurationPasses, DeadlinePasses, vars, mainVars, workerVars, CopyInv
<1> QED
  BY <1>1, <1>2, <1>3, <1>4, <1>5, <1>6, <1>7, <1>8 DEF Next, MainStep

(***************************************************************************)
(* Lifecycle!ReportReflectsReality under Runner.run, for any number of     *)
(* workers and whichever of them hang: of each one the report does not     *)
(* name as still active it shows the final status and every finding        *)
(* (runner.py:93-96).                                                      *)
(***************************************************************************)
THEOREM ReportCorrect == ASSUME Mode = "run" PROVE Spec => []ReportReflectsReality
<1>1. ReportIInv /\ [Next]_vars => ReportIInv'
  BY QuietStep, NoteStep, CopyStep DEF ReportIInv
<1>2. ReportIInv => ReportReflectsReality
  <2> SUFFICES ASSUME ReportIInv, main = "reported", NEW w \in Workers \ note
               PROVE  /\ snap[w].status \in Final
                      /\ snap[w].findings = listed[w] /\ listed[w] = findings[w]
    BY DEF ReportReflectsReality, Final
  <2>1. snap[w] # NoSnap /\ listed[w] # -1
    BY DEF ReportIInv, CopyInv
  <2>2. status[w] \in Final
    BY Unnamed DEF ReportIInv, Reporting
  <2> QED
    BY <2>1, <2>2 DEF ReportIInv, CopyInv
<1> QED
  BY <1>1, <1>2, IInvInit, PTL DEF Spec

-----------------------------------------------------------------------------
\* The types.  Only a thread that is ending may have the one finding more that
\* a crash leaves behind.
BoundInv == \A w \in Workers : thread[w] \notin {"ending", "dead"} => findings[w] <= MaxFindings

\* A step of one worker's thread, as far as the types go.
LEMMA ThreadTypes ==
  ASSUME TypeOK, BoundInv, NEW w \in Workers, WorkerStep(w) \/ Hang(w)
  PROVE  TypeOK' /\ BoundInv'
<1>1. /\ UNCHANGED <<stop, over, expired, mainVars>>
      /\ thread \in [Workers -> Places] /\ findings \in [Workers -> 0 .. MaxFindings + 1]
      /\ status \in [Workers -> Status] /\ ready \in [Workers -> BOOLEAN]
      /\ failures \in [Workers -> 0 .. MaxFailures]
      /\ MaxFindings \in Nat /\ MaxFailures \in Nat
  BY LifecycleAssumption
  DEF WorkerStep, Hang, Begin, TrySetup, SetupFails, SetupReturns, BackoffEnds, BeginStep, Record,
      StepEnds, PauseEnds, Leave, Crash, CrashFinding, ThreadEnds, EnvUnchanged, TypeOK, Places
<1>2. /\ thread' = thread \/ \E p \in Places : thread' = [thread EXCEPT ![w] = p]
      /\ status' = status \/ \E v \in Status : status' = [status EXCEPT ![w] = v]
      /\ ready' = ready \/ ready' = [ready EXCEPT ![w] = TRUE]
      /\ failures' = failures
         \/ (failures[w] < MaxFailures /\ failures' = [failures EXCEPT ![w] = failures[w] + 1])
  BY DEF WorkerStep, Hang, Begin, TrySetup, SetupFails, SetupReturns, BackoffEnds, BeginStep, Record,
      StepEnds, PauseEnds, Leave, Crash, CrashFinding, ThreadEnds, Move, Places, Status
<1>3. \/ findings' = findings /\ (thread[w] \in {"ending", "dead"} => thread'[w] \in {"ending", "dead"})
      \/ /\ thread[w] \notin {"ending", "dead"} /\ findings' = [findings EXCEPT ![w] = findings[w] + 1]
         /\ findings[w] < MaxFindings \/ thread'[w] = "ending"
  BY <1>1
  DEF WorkerStep, Hang, Begin, TrySetup, SetupFails, SetupReturns, BackoffEnds, BeginStep, Record,
      StepEnds, PauseEnds, Leave, Crash, CrashFinding, ThreadEnds, Move, Places
<1>4. thread' \in [Workers -> Places] /\ status' \in [Workers -> Status] /\ ready' \in [Workers -> BOOLEAN]
  BY <1>1, <1>2, ZenonT(40)
<1>5. failures' \in [Workers -> 0 .. MaxFailures]
  <2>1. failures[w] < MaxFailures => failures[w] + 1 \in 0 .. MaxFailures
    BY <1>1
  <2> QED
    BY <1>1, <1>2, <2>1
<1>6. /\ findings' \in [Workers -> 0 .. MaxFindings + 1]
      /\ \A v \in Workers : v # w => findings'[v] = findings[v] /\ thread'[v] = thread[v]
  <2>1. thread[w] \notin {"ending", "dead"} => findings[w] + 1 \in 0 .. MaxFindings + 1
    BY <1>1 DEF BoundInv
  <2> QED
    BY <1>1, <1>2, <1>3, <2>1
<1>7. thread'[w] \notin {"ending", "dead"} => findings'[w] <= MaxFindings
  BY <1>1, <1>3 DEF BoundInv
<1>8. BoundInv'
  BY <1>6, <1>7 DEF BoundInv
<1> QED
  BY <1>1, <1>4, <1>5, <1>6, <1>8 DEF TypeOK, mainVars, Places

LEMMA MainTypes ==
  ASSUME TypeOK, BoundInv, QuietInv, MainStep
  PROVE  TypeOK' /\ BoundInv'
<1>1. CASE \E w \in Workers : StartWorker(w)
  <2>1. PICK w \in Workers : StartWorker(w)
    BY <1>1
  <2>2. /\ created' = created \cup {w}
        /\ UNCHANGED <<stop, over, expired, main, joined, alive, note, snap, listed, findings, ready, failures>>
        /\ thread' = thread \/ thread' = [thread EXCEPT ![w] = "begin"]
        /\ status' = status \/ status' = [status EXCEPT ![w] = "disabled"]
        /\ w \notin created
    BY <2>1 DEF StartWorker, Turn
  <2>3. thread' \in [Workers -> Places] /\ status' \in [Workers -> Status]
    BY <2>2 DEF TypeOK, Places, Status
  <2>4. \A v \in Workers : thread'[v] = thread[v] \/ (v = w /\ thread'[v] = "begin")
    BY <2>2 DEF TypeOK
  <2>5. findings[w] <= MaxFindings
    BY <2>2 DEF QuietInv, BoundInv
  <2> QED
    BY <2>2, <2>3, <2>4, <2>5 DEF TypeOK, BoundInv, Places
<1>2. CASE Started \/ StopWorkers \/ Note
  BY <1>2 DEF Started, StopWorkers, Note, ShutdownNote, workerVars, TypeOK, BoundInv
<1>3. CASE \E w \in Workers : JoinWorker(w)
  <2>1. PICK w \in Workers : JoinWorker(w)
    BY <1>3
  <2>2. w \in created
    BY <2>1 DEF JoinWorker, Turn, QuietInv
  <2> QED
    BY <2>1, <2>2 DEF JoinWorker, Turn, workerVars, TypeOK, BoundInv
<1>4. CASE \E w \in Workers : Snapshot(w)
  BY <1>4 DEF Snapshot, workerVars, TypeOK, BoundInv
<1>5. CASE \E w \in Workers : ListFindings(w)
  BY <1>5 DEF ListFindings, workerVars, TypeOK, BoundInv
<1> QED
  BY <1>1, <1>2, <1>3, <1>4, <1>5 DEF MainStep

(***************************************************************************)
(* Lifecycle!TypeOK, for any workers and in both modes: among its bounds,  *)
(* that only workers still alive at their join are named, and that a       *)
(* worker adds one finding at most to its steps' when it crashes           *)
(* (base.py:234-247).                                                      *)
(***************************************************************************)
THEOREM LifecycleTypeCorrect == Spec => []TypeOK
<1> DEFINE Inv == TypeOK /\ BoundInv /\ ShapeInv /\ QuietInv
<1>1. Init => Inv
  <2>1. Init => ShapeInv /\ QuietInv
    BY IInvInit DEF ReportIInv
  <2>2. Init => TypeOK /\ BoundInv
    <3>1. /\ MaxFindings \in Nat /\ MaxFailures \in Nat
          /\ -1 \in -1 .. MaxFindings + 1 /\ 0 \in 0 .. MaxFindings + 1 /\ 0 \in 0 .. MaxFailures
          /\ 0 <= MaxFindings
      BY LifecycleAssumption
    <3>2. NoSnap \in [status : Status, findings : -1 .. MaxFindings + 1] /\ "init" \in Status
      BY <3>1 DEF NoSnap, Status
    <3> SUFFICES ASSUME Init PROVE TypeOK /\ BoundInv
      OBVIOUS
    <3>3. snap \in [Workers -> [status : Status, findings : -1 .. MaxFindings + 1]]
      BY <3>2 DEF Init
    <3>4. listed \in [Workers -> -1 .. MaxFindings + 1] /\ findings \in [Workers -> 0 .. MaxFindings + 1]
          /\ failures \in [Workers -> 0 .. MaxFailures]
      BY <3>1 DEF Init
    <3>5. status \in [Workers -> Status] /\ ready \in [Workers -> BOOLEAN]
          /\ thread \in [Workers -> Places] /\ BoundInv
      BY <3>1, <3>2 DEF Init, Places, BoundInv
    <3> QED
      BY <3>3, <3>4, <3>5 DEF Init, TypeOK, Places
  <2> QED
    BY <2>1, <2>2
<1>2. Inv /\ [Next]_vars => Inv'
  <2> SUFFICES ASSUME Inv, [Next]_vars PROVE Inv'
    OBVIOUS
  <2>1. ShapeInv' /\ QuietInv'
    BY QuietStep
  <2>2. CASE MainStep \/ \E w \in Workers : WorkerStep(w) \/ Hang(w)
    BY <2>1, <2>2, MainTypes, ThreadTypes
  <2>3. CASE Signal \/ DurationPasses \/ DeadlinePasses \/ UNCHANGED vars
    BY <2>1, <2>3 DEF Signal, DurationPasses, DeadlinePasses, vars, mainVars, workerVars, TypeOK, BoundInv
  <2> QED
    BY <2>2, <2>3 DEF Next
<1> QED
  BY <1>1, <1>2, PTL DEF Spec

-----------------------------------------------------------------------------
\* The contract-caller.

Findings == {"unsent", "exception", "never_mined", "reverted", "partial", "not_applied", "no_call",
             "empty", "disagrees", "sender", "mismatch", "unstable", "drift"}
Truths == {"empty", "wrong", "stranger", "revert", "drop", "lost", "partial", "unmined", "unapplied"}
Hop == {"receipt", "await", "judge"}
Walk == {"pre", "send"} \cup Hop
Between == {"settle", "combo", "idle", "deploy", "end", "dead"}

Effects == [by : 1 .. sent, side : Sides, mode : {"logger", "direct"}, who : {"eoa", "proxy"}, on : SUBSET Both]

\* The call of the hop under way.
Mine == [by |-> sent, side |-> Here, mode |-> mode, who |-> Caller, on |-> Both]

\* Nothing is on its way, and nothing that has landed is without its receipt.
Still == due = {} /\ (receipt = "none" => ~landed)

CallShape ==
    /\ CallerTypeOK
    /\ found \subseteq Findings /\ truth \subseteq Truths
    /\ \A s \in Sides : /\ calls[s].len > 0 => calls[s].last.who # "nobody"
                        /\ incs[s].len > 0 => incs[s].last.who # "nobody"
    /\ sent = 0 => due = {} /\ ~landed
    /\ Combo = "a" => /\ pc \in Walk => mode = "logger" /\ expected
                      /\ pc # "settle"
    /\ pc \in Walk => Len(observed) = (IF mode = "logger" THEN 0 ELSE 1)
    /\ pc \in Walk => book.pass = 0 /\ book.fail = 0 /\ book.inc <= Len(observed)
    /\ pc = "settle" => /\ book.pass = 0 /\ book.fail <= 1 /\ book.inc <= 2
                        /\ Len(observed) = 2 => book.fail = 0
    /\ pc \notin {"idle", "end", "dead"} => round < Rounds
    /\ pc \in {"receipt", "await"} => got = NoEntry
    /\ pc = "judge" /\ got # NoEntry => got.who # "nobody"
    /\ pc = "await" => Combo # "a"
    /\ pc \in {"await", "judge"} => rc \in {"none", receipt} /\ (rc = "none" => "unmined" \in truth)

\* Only the hop's own effect can have landed since its first read.
Solo == clean \/ ~strange
LandInv ==
    /\ pc = "send" /\ Solo => due = {} /\ Entries.len = base /\ incs[Here].len = pre
    /\ pc \in Hop /\ Solo =>
         /\ due \subseteq {Mine}
         /\ landed \/ receipt \in {"reverted", "dropped"} => due = {}
         /\ landed => Entries.len = base + 1 /\ incs[Here].len = pre + 1
         /\ ~landed => Entries.len = base /\ incs[Here].len = pre
         /\ Combo = "a" /\ receipt = "ok" => landed
    /\ pc = "judge" /\ Solo /\ got # NoEntry => landed /\ got = Entries.last

\* What has landed is what was called for, but for what truth says.
EntryInv ==
    pc \in Hop /\ clean /\ landed =>
      /\ \/ Entries.last.who = Caller
         \/ Entries.last.who = "stranger" /\ Caller = "proxy" /\ "stranger" \in truth
      /\ mode = "logger" =>
           \/ calls[Here].last.ret = incs[Here].len
           \/ calls[Here].last.ret = Empty /\ "empty" \in truth
           \/ calls[Here].last.ret = 0 /\ "wrong" \in truth

\* Without a stranger every sender is the proxy.
SenderInv == ~strange =>
    /\ \A d \in {"b", "c"} : seen[d] \subseteq {"proxy"}
    /\ pc \in Hop /\ landed => Entries.last.who = Caller

\* What the receipts and the waits tell of the chain.
ReceiptInv ==
    /\ clean /\ pc \in {"pre", "send"} => Still
    /\ clean /\ pc \in Hop /\ receipt = "reverted" => "revert" \in truth /\ (landed => "partial" \in truth)
    /\ clean /\ ~stopped /\ "blackout" \notin trouble =>
         (pc = "judge" /\ got = NoEntry /\ rc = "ok" /\ Combo # "a" => "unapplied" \in truth)
    /\ clean /\ pc \notin {"deploy", "combo", "idle", "end", "dead"} =>
         \A i \in 1 .. Len(observed) : observed[i] = "proxy" \/ "stranger" \in truth

\* Conversely, what the chain did is what the hops have shown.
Strangers == \E i \in 1 .. Len(observed) : observed[i] # "proxy"
TruthInv ==
    /\ clean /\ pc \in {"pre", "send"} =>
         /\ truth \subseteq {"stranger", "wrong"}
         /\ "stranger" \in truth => Strangers
         /\ "wrong" \in truth => mode = "direct" /\ book.inc > 0
    /\ clean /\ pc \in Hop =>
         /\ "empty" \in truth => landed /\ mode = "logger" /\ calls[Here].last.ret = Empty
         /\ "wrong" \in truth => \/ mode = "direct" /\ book.inc > 0
                                 \/ landed /\ mode = "logger" /\ calls[Here].last.ret = 0
         /\ "stranger" \in truth => Strangers \/ (landed /\ Entries.last.who = "stranger")
         /\ "revert" \in truth => receipt = "reverted"
         /\ "partial" \in truth => receipt = "reverted" /\ landed
         /\ "drop" \in truth => receipt = "dropped"
         /\ "lost" \in truth => receipt = "ok" /\ ~landed /\ due = {}
         /\ "unmined" \in truth => pc # "receipt" /\ rc = "none"
         /\ "unapplied" \in truth => pc = "judge" /\ got = NoEntry /\ Combo # "a"

\* A pass needs two hops delivered, or the baseline.
PassInv ==
    /\ clean /\ pc = "settle" /\ Len(observed) = 2 =>
         /\ Still
         /\ truth \subseteq {"stranger", "wrong"}
         /\ "stranger" \in truth => Strangers
         /\ "wrong" \in truth => book.inc > 0
    /\ clean /\ book.pass > 0 =>
         /\ Still
         /\ truth \subseteq (IF expected THEN {} ELSE {"stranger"}) \cup (IF book.inc > 0 THEN {"wrong"} ELSE {})

Quiet == clean /\ ~stopped
           /\ trouble \intersect {"late", "readFails", "blackout", "sendFails", "pollRaises"} = {}

\* Nothing is judged before it has settled, and then all of it is.
Wrongs == {"drop", "revert", "lost"} \cup (IF "revert" \in truth THEN {} ELSE {"empty", "wrong"})
Heard ==
    /\ \A t \in truth \intersect Wrongs : \E f \in found : t \in Says(f)
    /\ pc = "settle" /\ Combo = "c" /\ "partial" \in truth => "partial" \in found

HeardInv == Quiet =>
    /\ pc \in Walk => book.inc = 0
    /\ pc \in {"await", "judge"} => receipt # "none" /\ (rc = "none" => receipt = "dropped")
    /\ pc \in Hop /\ receipt = "dropped" => ~landed
    /\ pc = "judge" => /\ due = {} /\ (Combo # "a" /\ rc = "ok" => readable)
                       /\ landed /\ (Combo = "c" \/ (Combo = "b" /\ rc = "ok")) => got # NoEntry
    /\ pc \in Between => Still /\ Heard

-----------------------------------------------------------------------------
\* The combination under way: where its calls go, and who makes them.
LEMMA ComboFacts ==
  ASSUME CallerTypeOK
  PROVE  /\ Combo \in {"a", "b", "c"} /\ Here \in Sides /\ Caller \in {"eoa", "proxy"}
         /\ Caller = "eoa" <=> Combo = "a"
         /\ next = 1 <=> Combo = "a"
         /\ next = 2 <=> Combo = "b"
         /\ next = 3 <=> Combo = "c"
BY DEF CallerTypeOK, Combo, Combos, Here, Caller, Sides

\* What a call leaves behind.
CounterEntry(e, who) ==
    [len |-> incs[e.side].len + 1,
     last |-> [who |-> IF e.mode = "logger" THEN "logger" ELSE who, ret |-> incs[e.side].len + 1]]
LoggerEntry(e, who, ret) == [len |-> calls[e.side].len + 1, last |-> [who |-> who, ret |-> ret]]

Lists == [Sides -> [len : Nat, last : Entry]]

\* Exactly one contract of each kind, on one side, gets an entry.
LEMMA LandEffect ==
  ASSUME CallerTypeOK, NEW e \in due, NEW who \in Senders, NEW ret \in Int, Land(e, who, ret)
  PROVE  /\ due' = due \ {e} /\ incs' \in Lists /\ calls' \in Lists /\ e.side \in Sides
         /\ \A s \in Sides \ {e.side} : incs'[s] = incs[s] /\ calls'[s] = calls[s]
         /\ incs'[e.side] = IF "Counter" \in e.on THEN CounterEntry(e, who) ELSE incs[e.side]
         /\ calls'[e.side] = IF e.mode = "logger" /\ "Logger" \in e.on THEN LoggerEntry(e, who, ret)
                             ELSE calls[e.side]
<1>1. /\ e.side \in Sides /\ calls \in Lists /\ incs \in Lists
      /\ incs[e.side].len \in Nat /\ calls[e.side].len \in Nat
  BY DEF CallerTypeOK, Lists
<1>2. /\ CounterEntry(e, who) \in [len : Nat, last : Entry]
      /\ LoggerEntry(e, who, ret) \in [len : Nat, last : Entry]
  BY <1>1 DEF CounterEntry, LoggerEntry, Entry, Senders
<1>3. incs' = IF "Counter" \in e.on THEN [incs EXCEPT ![e.side] = CounterEntry(e, who)] ELSE incs
  BY <1>1 DEF Land, Increment, Add, CounterEntry, Lists
<1>4. calls' = IF e.mode = "logger" /\ "Logger" \in e.on
               THEN [calls EXCEPT ![e.side] = LoggerEntry(e, who, ret)] ELSE calls
  BY <1>1 DEF Land, Execute, Add, LoggerEntry, Lists
<1>5. due' = due \ {e}
  BY DEF Land
<1>6. incs' \in Lists /\ calls' \in Lists
  BY <1>1, <1>2, <1>3, <1>4 DEF Lists
<1> QED BY <1>1, <1>3, <1>4, <1>5, <1>6 DEF Lists

\* What the chain does: a call lands, the last one or an older, or only the
\* fate of the last one is decided.
LandsAs(e, who, ret, flaw) ==
    /\ Land(e, who, ret)
    /\ flaw = "stranger" <=> who = "stranger"
    /\ flaw # "stranger" => who = e.who
    /\ CASE flaw = "empty" -> ret = Empty [] flaw = "wrong" -> ret = 0
         [] OTHER -> ret = incs[e.side].len + 1
    /\ \/ /\ e.by = sent /\ receipt \in {"none", "ok"}
          /\ flaw \in {"empty", "wrong"} => e.mode = "logger"
          /\ flaw = "stranger" => e.who = "proxy"
          /\ flaw # "none" => flaw \in trouble
          /\ landed' = TRUE
          /\ receipt' = (IF e.who = "eoa" THEN "ok" ELSE receipt)
          /\ truth' = truth \cup ({flaw} \ {"none"})
          /\ strange' = (strange \/ flaw = "stranger")
       \/ /\ e.by # sent /\ flaw = "none"
          /\ UNCHANGED <<receipt, landed, truth, strange>>

FlawKinds == {"none", "empty", "wrong", "stranger"}
Lands == \E e \in due, who \in Senders, ret \in Int, flaw \in FlawKinds : LandsAs(e, who, ret, flaw)

Decides ==
    /\ UNCHANGED <<calls, incs, landed, strange>>
    /\ receipt = "none"
    /\ \/ /\ receipt' = "ok" /\ due' = due /\ truth' = truth /\ sent > 0
          /\ landed \/ \E e \in Latest : e.who = "proxy"
       \/ /\ Latest # {} /\ due' = due \ Latest
          /\ \/ receipt' = "reverted" /\ truth' = truth \cup {"revert"}
             \/ receipt' = "dropped" /\ truth' = truth \cup {"drop"}
             \/ receipt' = "ok" /\ truth' = truth \cup {"lost"} /\ \E e \in Latest : e.who = "proxy"
       \/ landed /\ receipt' = "reverted" /\ due' = due /\ truth' = truth \cup {"revert", "partial"}

\* Each step of the chain is one of these two, and the worker stands still.
LEMMA ChainMoves ==
  ASSUME CallerTypeOK, Chain
  PROVE  ChainStep /\ (Lands \/ Decides)
<1>1. \A e \in due : e.who \in {"eoa", "proxy"} /\ e.side \in Sides /\ e.mode \in {"logger", "direct"}
                     /\ incs[e.side].len + 1 \in Int
  BY DEF CallerTypeOK
<1>2. ASSUME Apply PROVE ChainStep /\ Lands
  <2>1. PICK e \in due, flaw \in FlawKinds :
          /\ e \in Latest /\ flaw \in {"none"} \cup Flaws(e) /\ receipt \in {"none", "ok"}
          /\ Land(e, IF flaw = "stranger" THEN "stranger" ELSE e.who,
                  CASE flaw = "empty" -> Empty [] flaw = "wrong" -> 0 [] OTHER -> incs[e.side].len + 1)
          /\ landed' = TRUE
          /\ receipt' = (IF e.who = "eoa" THEN "ok" ELSE receipt)
          /\ truth' = truth \cup ({flaw} \ {"none"})
          /\ strange' = (strange \/ flaw = "stranger")
          /\ ChainStep
    BY <1>2 DEF Apply, Latest, Flaws, FlawKinds
  <2>2. e \in due /\ e.by = sent
    BY <2>1 DEF Latest
  <2>3. /\ flaw \in FlawKinds
        /\ flaw \in {"empty", "wrong"} => e.mode = "logger"
        /\ flaw = "stranger" => e.who = "proxy"
        /\ flaw # "none" => flaw \in trouble
    BY <2>1 DEF Flaws, FlawKinds
  <2> DEFINE who == IF flaw = "stranger" THEN "stranger" ELSE e.who
             ret == CASE flaw = "empty" -> Empty [] flaw = "wrong" -> 0 [] OTHER -> incs[e.side].len + 1
  <2>4. who \in Senders /\ ret \in Int /\ (flaw = "stranger" <=> who = "stranger") /\ (flaw # "stranger" => who = e.who)
    BY <1>1, <2>2, <2>3 DEF Senders, Empty
  <2>5. (CASE flaw = "empty" -> ret = Empty [] flaw = "wrong" -> ret = 0
           [] OTHER -> ret = incs[e.side].len + 1)
    BY <2>3 DEF FlawKinds
  <2>6. Land(e, who, ret)
    BY <2>1
  <2> HIDE DEF who, ret
  <2> QED BY <2>1, <2>2, <2>3, <2>4, <2>5, <2>6 DEF Lands, LandsAs
<1>3. ASSUME ApplyOlder PROVE ChainStep /\ Lands
  <2>1. PICK e \in due \ Latest : Land(e, e.who, incs[e.side].len + 1)
    BY <1>3 DEF ApplyOlder
  <2>2. e \in due /\ e.by # sent /\ e.who \in Senders /\ e.who # "stranger" /\ incs[e.side].len + 1 \in Int
    BY <1>1 DEF Latest, Senders
  <2> QED BY <1>3, <2>1, <2>2 DEF ApplyOlder, Lands, LandsAs, FlawKinds
<1>4. ASSUME Confirm \/ Revert \/ DropTx \/ LoseEffect \/ RevertApplied PROVE ChainStep /\ Decides
  BY <1>4 DEF Confirm, Revert, DropTx, LoseEffect, RevertApplied, Fails, Pending, Decides
<1> QED BY <1>2, <1>3, <1>4 DEF Chain

\* The shape of every state.
LEMMA CallInit == CallerInit => CallShape
<1> SUFFICES ASSUME CallerInit PROVE CallShape
  OBVIOUS
<1>1. NoEntries \in [len : Nat, last : Entry] /\ NoEntries.len = 0 /\ NoEntry \in Entry
  BY DEF NoEntries, NoEntry, Entry, Senders
<1>2. NoVerdict \in [pass : 0 .. 2, fail : 0 .. 2, inc : 0 .. 3] /\ NoVerdict.pass = 0
  BY DEF NoVerdict
<1>3. /\ observed = <<>> /\ observed \in Seq(Senders) /\ Len(observed) = 0
      /\ MaxPasses \in Nat \ {0} /\ Rounds \in Nat \ {0}
  BY ContractCallerAssumption DEF CallerInit
<1>4. CallerTypeOK
  <2>1. /\ calls \in Lists /\ incs \in Lists /\ seen \in [{"b", "c"} -> SUBSET Senders]
        /\ got \in Entry /\ book \in [pass : 0 .. 2, fail : 0 .. 2, inc : 0 .. 3]
    BY <1>1, <1>2 DEF CallerInit, Lists
  <2>2. /\ due = {} /\ deployed = {} /\ done = {} /\ pass = 1 /\ 1 \in 1 .. MaxPasses /\ 0 \in 0 .. Rounds
    BY <1>3 DEF CallerInit
  <2>3. /\ trouble \in Troubles /\ stopped \in BOOLEAN /\ receipt = "none" /\ landed \in BOOLEAN
        /\ pc = "deploy" /\ mode = "logger" /\ base = 0 /\ pre = 0 /\ rc = "none" /\ k = 1 /\ next = 1 /\ round = 0
        /\ sent = 0 /\ expected \in BOOLEAN /\ readable \in BOOLEAN /\ clean \in BOOLEAN /\ strange \in BOOLEAN
    BY DEF CallerInit
  <2> QED BY <1>3, <2>1, <2>2, <2>3 DEF CallerTypeOK, Lists
<1> QED BY <1>1, <1>2, <1>3, <1>4 DEF CallerInit, CallShape, Hop, Walk

LEMMA CallChain ==
  ASSUME CallShape, Chain
  PROVE  CallShape'
<1> USE DEF CallShape
<1>1. ChainStep /\ (Lands \/ Decides) /\ UNCHANGED <<Combo, Here, Caller>>
  BY ChainMoves DEF ChainStep, placeVars, Combo, Here, Caller
<1>2. /\ UNCHANGED <<trouble, stopped, deployed, pass, k, pc, round, next, mode, base, pre, expected, rc,
                     got, readable, observed, seen, book, found, sent, done, clean>>
  BY <1>1 DEF ChainStep, deployVars, placeVars, hopVars, verdictVars
<1>3. CASE Lands
  <2>1. PICK e \in due, who \in Senders, ret \in Int, flaw \in FlawKinds : LandsAs(e, who, ret, flaw)
    BY <1>3 DEF Lands
  <2>2. /\ due' = due \ {e} /\ incs' \in Lists /\ calls' \in Lists
        /\ \A s \in Sides : /\ incs'[s].last.who # "nobody" \/ incs'[s] = incs[s]
                            /\ calls'[s].last.who # "nobody" \/ calls'[s] = calls[s]
    <3>1. /\ CounterEntry(e, who).last.who # "nobody" /\ LoggerEntry(e, who, ret).last.who # "nobody"
      BY DEF CounterEntry, LoggerEntry, Senders
    <3> QED BY <2>1, <3>1, LandEffect DEF LandsAs
  <2>3. sent # 0
    BY <2>1
  <2>4. /\ truth' \subseteq Truths /\ truth \subseteq truth'
        /\ landed' \in BOOLEAN /\ strange' \in BOOLEAN
        /\ receipt' = receipt \/ (receipt = "none" /\ receipt' = "ok")
    BY <2>1 DEF LandsAs, FlawKinds, Truths, CallerTypeOK
  <2>5. CallerTypeOK'
    BY <1>2, <2>2, <2>4 DEF CallerTypeOK, Lists
  <2> QED BY <1>1, <1>2, <2>2, <2>3, <2>4, <2>5
<1>4. CASE Decides
  <2>1. /\ UNCHANGED <<calls, incs, landed, strange>> /\ due' \subseteq due /\ sent # 0
        /\ truth' \subseteq Truths /\ truth \subseteq truth'
        /\ receipt = "none" /\ receipt' \in {"ok", "reverted", "dropped"}
    BY <1>4 DEF Decides, Truths, Latest
  <2>2. CallerTypeOK'
    BY <1>2, <2>1 DEF CallerTypeOK
  <2> QED BY <1>1, <1>2, <2>1, <2>2
<1> QED BY <1>1, <1>3, <1>4

\* Where the worker is next, and what it has counted.
LEMMA Leaving ==
  ASSUME CallShape, pc \notin {"idle", "end", "dead"}, AfterCombo \/ (pc # "settle" /\ AfterHop)
  PROVE  /\ pc' \in {"settle", "combo", "idle"} /\ next' \in 1 .. 3 /\ round' \in 0 .. Rounds
         /\ pc' # "idle" => round' < Rounds
         /\ pc' = "settle" => Combo # "a" /\ next' = next /\ Combo' = Combo
         /\ AfterCombo => pc' # "settle"
<1>1. next \in 1 .. 3 /\ round \in 0 .. Rounds /\ round < Rounds /\ Rounds \in Nat
  BY ContractCallerAssumption DEF CallShape, CallerTypeOK
<1>2. CASE AfterCombo
  BY <1>1, <1>2 DEF AfterCombo
<1>3. CASE ~AfterCombo
  BY <1>1, <1>3 DEF AfterHop, placeVars, Combo
<1> QED BY <1>2, <1>3

\* The verdicts add up.
LEMMA Counting ==
  ASSUME CallShape, NEW p \in Nat, NEW f \in Nat, NEW i \in Nat, Booked(p, f, i),
         book.pass + p <= 2, book.fail + f <= 2, book.inc + i <= 3
  PROVE  /\ book' \in [pass : 0 .. 2, fail : 0 .. 2, inc : 0 .. 3]
         /\ book'.pass = book.pass + p /\ book'.fail = book.fail + f /\ book'.inc = book.inc + i
BY DEF Booked, CallShape, CallerTypeOK

\* A combination is judged once at most while its hops go on.
LEMMA Counted ==
  ASSUME CallShape, pc \in Walk
  PROVE  /\ book.pass = 0 /\ book.fail = 0 /\ book.inc \in Nat /\ book.inc <= 1
         /\ Len(observed) \in {0, 1}
<1>1. book.inc \in 0 .. 3 /\ mode \in {"logger", "direct"}
  BY DEF CallShape, CallerTypeOK
<1>2. Len(observed) \in {0, 1}
  BY <1>1 DEF CallShape
<1>3. book.pass = 0 /\ book.fail = 0 /\ book.inc <= Len(observed)
  BY DEF CallShape
<1>4. book.inc <= 1
  <2>1. ASSUME Len(observed) = 0 PROVE book.inc <= 1
    BY <1>1, <1>3, <2>1
  <2>2. ASSUME Len(observed) = 1 PROVE book.inc <= 1
    BY <1>3, <2>2
  <2> QED BY <1>2, <2>1, <2>2
<1> QED BY <1>1, <1>2, <1>3, <1>4

\* The steps between the combinations.
Rests == {"deploy", "combo", "idle", "end", "dead"}

LEMMA CallRests ==
  ASSUME CallShape, Deploy \/ DeployFails \/ DeployRaises \/ Retry \/ LeaveSuite \/ SkipCombo
  PROVE  /\ CallShape'
         /\ pc \in Rests /\ pc' \in Rests
         /\ due = {} => due' = {}
         /\ UNCHANGED <<trouble, stopped, hopVars, verdictVars, receipt, landed, sent, done, truth, clean, strange>>
<1> USE ContractCallerAssumption DEF CallShape
<1>1. /\ pc \in Rests /\ pc' \in Rests /\ round' \in 0 .. Rounds /\ next' \in 1 .. 3
      /\ pc' \notin {"idle", "end", "dead"} => round' < Rounds
      /\ deployed' \subseteq Sides \X Both /\ pass' \in 1 .. MaxPasses /\ k' \in 1 .. 4
  <2>1. CASE Deploy \/ DeployFails
    <3>1. pc' \in Rests /\ pass' = pass /\ k' \in 1 .. 4
      BY <2>1 DEF Deploy, DeployFails, PlanNext, AfterDeploy, Rests, CallerTypeOK
    <3>2. Plan[k] \in Sides \X Both
      BY DEF Plan, Sides, Both, CallerTypeOK
    <3> QED BY <2>1, <3>1, <3>2, SMTT(30)
        DEF Deploy, DeployFails, PlanNext, DeployStep, placeVars, Rests, CallerTypeOK
  <2>2. CASE DeployRaises \/ Retry \/ LeaveSuite
    BY <2>2 DEF DeployRaises, Retry, LeaveSuite, Goto, DeployStep, deployVars, placeVars, Rests, CallerTypeOK
  <2>3. CASE SkipCombo
    BY <2>3, Leaving DEF SkipCombo, CallStep, deployVars, Rests, CallerTypeOK
  <2> QED BY <2>1, <2>2, <2>3
<1>2. UNCHANGED <<trouble, stopped, hopVars, verdictVars, receipt, landed, sent, done, truth, clean, strange>>
  BY DEF Deploy, DeployFails, DeployRaises, Retry, LeaveSuite, SkipCombo, DeployStep, CallStep, chainVars
<1>3. /\ due' \subseteq Effects
      /\ due = {} => due' = {}
      /\ incs' \in Lists /\ calls' \in Lists
      /\ \A s \in Sides : /\ calls'[s].len > 0 => calls'[s].last.who # "nobody"
                          /\ incs'[s].len > 0 => incs'[s].last.who # "nobody"
  <2>1. CASE Deploy
    <3> DEFINE s == Plan[k][1]  name == Plan[k][2]
    <3>1. /\ due' = {IF e.side = s THEN [e EXCEPT !.on = @ \ {name}] ELSE e : e \in due}
          /\ incs' = IF name = "Counter" THEN [incs EXCEPT ![s] = NoEntries] ELSE incs
          /\ calls' = IF name = "Logger" THEN [calls EXCEPT ![s] = NoEntries] ELSE calls
      BY <2>1 DEF Deploy
    <3>2. NoEntries \in [len : Nat, last : Entry] /\ NoEntries.len = 0
      BY DEF NoEntries, NoEntry, Entry, Senders
    <3> HIDE DEF s, name
    <3>3. ASSUME NEW e \in due PROVE [e EXCEPT !.on = @ \ {name}] \in Effects
      <4>1. /\ e \in Effects
            /\ e.on \ {name} \in SUBSET Both
        BY DEF CallerTypeOK, Effects
      <4> QED BY <4>1 DEF Effects
    <3>4. incs' \in Lists /\ calls' \in Lists
      BY <3>1, <3>2 DEF Lists, CallerTypeOK
    <3>5. \A d \in Sides : incs'[d] = incs[d] \/ incs'[d].len = 0
      BY <3>1, <3>2 DEF CallerTypeOK, Effects
    <3>6. \A d \in Sides : calls'[d] = calls[d] \/ calls'[d].len = 0
      BY <3>1, <3>2 DEF CallerTypeOK, Effects
    <3>7. due' \subseteq Effects
      <4> SUFFICES ASSUME NEW d \in due'
                   PROVE  d \in Effects
        OBVIOUS
      <4>1. PICK e \in due : d = IF e.side = s THEN [e EXCEPT !.on = @ \ {name}] ELSE e
        BY <3>1
      <4> QED BY <3>3, <4>1 DEF CallerTypeOK, Effects
    <3>8. due = {} => due' = {}
      BY <3>1
    <3>9. \A d \in Sides : incs'[d].len > 0 => incs'[d].last.who # "nobody"
      BY <3>5
    <3>10. \A d \in Sides : calls'[d].len > 0 => calls'[d].last.who # "nobody"
      BY <3>6
    <3> QED BY <3>4, <3>7, <3>8, <3>9, <3>10
  <2>2. CASE DeployFails \/ DeployRaises \/ Retry \/ LeaveSuite \/ SkipCombo
    <3>1. UNCHANGED <<due, incs, calls>>
      BY <2>2 DEF DeployFails, DeployRaises, Retry, LeaveSuite, SkipCombo, chainVars
    <3> QED BY <3>1 DEF CallerTypeOK, Effects, Lists
  <2> QED BY <2>1, <2>2
<1>4. CallerTypeOK'
  BY <1>1, <1>2, <1>3, SMTT(30) DEF CallerTypeOK, Effects, Lists, Rests, hopVars, verdictVars
<1> QED BY <1>1, <1>2, <1>3, <1>4 DEF Rests, hopVars, verdictVars, Hop, Walk

\* A transaction goes out.
LEMMA CallSends ==
  ASSUME CallShape, pc = "send", Broadcast
  PROVE  /\ sent' = sent + 1 /\ sent' \in Nat /\ sent' # 0 /\ due' \subseteq Effects'
         /\ receipt' = "none" /\ landed' = FALSE
         /\ due' = due \cup {[by |-> sent + 1, side |-> Here, mode |-> mode, who |-> Caller, on |-> Both]}
<1>1. sent \in Nat /\ sent + 1 \in Nat /\ sent + 1 # 0 /\ sent + 1 \in 1 .. sent + 1
  BY DEF CallShape, CallerTypeOK
<1>2. \A x \in 1 .. sent : x \in 1 .. sent + 1
  BY <1>1
<1>3. due \subseteq Effects
  BY DEF CallShape, CallerTypeOK, Effects
<1>4. Here \in Sides /\ Caller \in {"eoa", "proxy"} /\ mode \in {"logger", "direct"}
  BY ComboFacts DEF CallShape, CallerTypeOK
<1>5. /\ sent' = sent + 1 /\ receipt' = "none" /\ landed' = FALSE
      /\ due' = due \cup {[by |-> sent + 1, side |-> Here, mode |-> mode, who |-> Caller, on |-> Both]}
  BY DEF Broadcast
<1>6. due' \subseteq Effects'
  BY <1>2, <1>3, <1>4, <1>5, <1>1 DEF Effects
<1> QED BY <1>1, <1>5, <1>6

\* The steps of a hop up to its verdict.
LEMMA CallHops ==
  ASSUME CallShape, StartCombo \/ PreRead \/ Send \/ SendRaises \/ Receipt \/ ComboRaises \/ AwaitEntry
  PROVE  CallShape'
<1> USE DEF CallShape, Walk, Hop
<1>1. CASE StartCombo
  <2>1. /\ pc' = "pre" /\ mode' = "logger" /\ observed' = <<>> /\ book' = NoVerdict /\ found' = {} /\ truth' = {}
        /\ pc = "combo" /\ expected' \in BOOLEAN /\ (Combo = "a" => expected') /\ clean' \in BOOLEAN
        /\ done' \subseteq {"a", "b", "c"} /\ Combo' = Combo
        /\ UNCHANGED <<trouble, stopped, chainVars, deployVars, placeVars, base, pre, rc, got, readable, seen,
                       sent, strange>>
    <3>1. done' = done \cup {Combo} /\ Combo \in {"a", "b", "c"}
      BY <1>1, ComboFacts DEF StartCombo
    <3>2. expected' \in BOOLEAN /\ (Combo = "a" => expected') /\ clean' \in BOOLEAN
      <4>1. PICK known \in {TRUE, Combo = "a" \/ "readFails" \notin trouble} : expected' = known
        BY <1>1 DEF StartCombo
      <4>2. known \in BOOLEAN /\ (Combo = "a" => known)
        BY <4>1, Zenon
      <4>3. clean' = (due = {} /\ (sent = 0 \/ receipt # "none"))
        BY <1>1 DEF StartCombo
      <4>4. clean' \in BOOLEAN
        BY <4>3, Zenon
      <4> QED BY <4>1, <4>2, <4>4
    <3>3. UNCHANGED placeVars => Combo' = Combo
      BY DEF placeVars, Combo
    <3>4. done \subseteq {"a", "b", "c"}
      BY DEF CallerTypeOK
    <3> QED BY <1>1, <3>1, <3>2, <3>3, <3>4 DEF StartCombo, Goto, CallStep
  <2>2. NoVerdict \in [pass : 0 .. 2, fail : 0 .. 2, inc : 0 .. 3] /\ NoVerdict.pass = 0
        /\ NoVerdict.fail = 0 /\ NoVerdict.inc = 0
    BY DEF NoVerdict
  <2>3. observed' \in Seq(Senders) /\ Len(observed') = 0
    BY <2>1
  <2>4. CallerTypeOK'
    BY <2>1, <2>2, <2>3 DEF CallerTypeOK, chainVars, deployVars, placeVars
  <2> QED BY <2>1, <2>2, <2>3, <2>4 DEF chainVars, placeVars
<1>2. CASE PreRead
  <2>1. PICK n \in Reads(Entries.len) :
          /\ pc = "pre"
          /\ IF n = Unknown THEN AfterHop /\ Inconclusive /\ UNCHANGED <<base, pre>>
             ELSE /\ pc' = "send" /\ base' = n /\ pre' = incs[Here].len
                  /\ UNCHANGED <<placeVars, book, found>>
          /\ clean' = (clean /\ due = {}) /\ strange' = (strange \/ due # {})
          /\ UNCHANGED <<trouble, stopped, deployVars, chainVars, mode, expected, rc, got, readable, observed,
                         seen, sent, done, truth>>
    BY <1>2 DEF PreRead, CallStep
  <2>2. CASE n = Unknown
    <3>1. AfterHop /\ Booked(0, 0, 1) /\ UNCHANGED <<base, pre, found>>
      BY <2>1, <2>2 DEF Inconclusive
    <3>2. /\ pc' \in {"settle", "combo", "idle"} /\ next' \in 1 .. 3 /\ round' \in 0 .. Rounds
          /\ pc' # "idle" => round' < Rounds
          /\ pc' = "settle" => Combo # "a" /\ next' = next /\ Combo' = Combo
      BY <2>1, <3>1, Leaving
    <3>3. Len(observed) \in {0, 1} /\ book.inc \in Nat /\ book.inc + 1 <= 2
      BY <2>1, Counted
    <3>4. /\ book' \in [pass : 0 .. 2, fail : 0 .. 2, inc : 0 .. 3]
          /\ book'.pass = 0 /\ book'.fail = 0 /\ book'.inc <= 2
      BY <2>1, <3>1, <3>3, Counting
    <3>5. CallerTypeOK'
      BY <2>1, <3>1, <3>2, <3>4 DEF CallerTypeOK, chainVars, deployVars
    <3> QED BY <2>1, <3>1, <3>2, <3>4, <3>5 DEF chainVars
  <2>3. CASE n # Unknown
    <3>1. n \in Nat /\ incs[Here].len \in Nat /\ Combo' = Combo
      BY <2>1, <2>3, ComboFacts, SMTT(30) DEF Reads, Entries, CallerTypeOK, Combo, placeVars
    <3>2. CallerTypeOK'
      BY <2>1, <2>3, <3>1, SMTT(30) DEF CallerTypeOK, chainVars, deployVars, placeVars
    <3> QED BY <2>1, <2>3, <3>1, <3>2 DEF chainVars, placeVars
  <2> QED BY <2>2, <2>3
<1>3. CASE Send
  <2>1. /\ pc = "send" /\ pc' = "receipt" /\ Broadcast /\ got' = NoEntry /\ rc' = "none" /\ Combo' = Combo
        /\ UNCHANGED <<trouble, stopped, deployVars, calls, incs, placeVars, mode, base, pre, expected, readable,
                       verdictVars, done, truth, clean, strange>>
    BY <1>3 DEF Send, Goto, CallStep, placeVars, Combo
  <2>2. NoEntry \in Entry
    BY DEF NoEntry, Entry
  <2>3. CallerTypeOK'
    BY <2>1, <2>2, CallSends DEF CallerTypeOK, deployVars, placeVars, verdictVars, Effects
  <2> QED BY <2>1, <2>2, <2>3, CallSends DEF placeVars, verdictVars
<1>4. CASE SendRaises
  <2>1. /\ pc = "send" /\ AfterHop /\ Fail({"unsent"})
        /\ Broadcast \/ UNCHANGED <<sent, due, receipt, landed>>
        /\ UNCHANGED <<trouble, stopped, deployVars, calls, incs, hopVars, observed, seen, done, truth, clean, strange>>
    BY <1>4 DEF SendRaises, CallStep
  <2>2. /\ pc' \in {"settle", "combo", "idle"} /\ next' \in 1 .. 3 /\ round' \in 0 .. Rounds
        /\ pc' # "idle" => round' < Rounds
        /\ pc' = "settle" => Combo # "a" /\ next' = next /\ Combo' = Combo
    BY <2>1, Leaving
  <2>3. Len(observed) \in {0, 1} /\ book.inc \in Nat /\ book.inc <= 1 /\ book.pass = 0 /\ book.fail = 0
    BY <2>1, Counted
  <2>4. /\ book' \in [pass : 0 .. 2, fail : 0 .. 2, inc : 0 .. 3]
        /\ book'.pass = 0 /\ book'.fail <= 1 /\ book'.inc <= 2 /\ found' \subseteq Findings
    BY <2>1, <2>3, Counting DEF Fail, Findings
  <2>5. /\ sent' \in Nat /\ due' \subseteq Effects' /\ (sent' = 0 => due' = {} /\ ~landed')
        /\ receipt' \in {"none", "ok", "reverted", "dropped"} /\ landed' \in BOOLEAN
    <3>1. CASE Broadcast
      BY <2>1, <3>1, CallSends
    <3>2. CASE UNCHANGED <<sent, due, receipt, landed>>
      BY <3>2 DEF CallerTypeOK, Effects
    <3> QED BY <2>1, <3>1, <3>2
  <2>6. CallerTypeOK'
    BY <2>1, <2>2, <2>4, <2>5 DEF CallerTypeOK, hopVars, deployVars, Effects
  <2> QED BY <2>1, <2>2, <2>3, <2>4, <2>5, <2>6, SMTT(60) DEF hopVars
<1>5. CASE Receipt
  <2>1. /\ pc = "receipt" /\ rc' \in {"none", "ok", "reverted"} /\ rc' \in {"none", receipt}
        /\ pc' = (IF Combo = "c" \/ (Combo = "b" /\ rc' = "ok") THEN "await" ELSE "judge")
        /\ truth' = truth \cup (IF rc' = "none" THEN {"unmined"} ELSE {}) /\ Combo' = Combo
        /\ UNCHANGED <<trouble, stopped, deployVars, chainVars, placeVars, mode, base, pre, expected, got, readable,
                       verdictVars, sent, done, clean, strange>>
    BY <1>5 DEF Receipt, CallStep, placeVars, Combo
  <2>2. CallerTypeOK' /\ truth' \subseteq Truths
    BY <2>1 DEF CallerTypeOK, chainVars, deployVars, placeVars, verdictVars, Truths
  <2> QED BY <2>1, <2>2 DEF chainVars, placeVars, verdictVars
<1>6. CASE ComboRaises
  <2>1. /\ pc = "receipt" /\ AfterCombo /\ Booked(0, 1, 0) /\ found' = found \cup {"exception"}
        /\ UNCHANGED <<trouble, stopped, deployVars, chainVars, hopVars, observed, seen, sent, done, truth, clean, strange>>
    BY <1>6 DEF ComboRaises, CallStep, Fail
  <2>2. /\ pc' \in {"combo", "idle"} /\ next' \in 1 .. 3 /\ round' \in 0 .. Rounds
        /\ pc' # "idle" => round' < Rounds
    BY <2>1, Leaving
  <2>3. book.inc \in Nat /\ book.inc <= 1 /\ book.pass = 0 /\ book.fail = 0
    BY <2>1, Counted
  <2>4. book' \in [pass : 0 .. 2, fail : 0 .. 2, inc : 0 .. 3] /\ found' \subseteq Findings
    BY <2>1, <2>3, Counting DEF Findings
  <2>5. CallerTypeOK'
    BY <2>1, <2>2, <2>4 DEF CallerTypeOK, hopVars, deployVars, chainVars
  <2> QED BY <2>1, <2>2, <2>4, <2>5 DEF hopVars, chainVars
<1>7. CASE AwaitEntry
  <2>1. /\ pc = "await" /\ pc' = "judge" /\ got' \in {NoEntry, Entries.last} /\ readable' \in BOOLEAN
        /\ truth' \in {truth, truth \cup {"unapplied"}} /\ Combo' = Combo
        /\ UNCHANGED <<trouble, stopped, deployVars, chainVars, placeVars, mode, base, pre, expected, rc,
                       verdictVars, sent, done, clean, strange>>
    BY <1>7 DEF AwaitEntry, Goto, CallStep, placeVars, Combo
  <2>2. NoEntry \in Entry /\ Entries.last \in Entry
    BY ComboFacts, SMTT(30) DEF NoEntry, Entry, Entries, CallerTypeOK
  <2>3. CallerTypeOK' /\ truth' \subseteq Truths
    BY <2>1, <2>2 DEF CallerTypeOK, chainVars, deployVars, placeVars, verdictVars, Truths
  <2>4. got' = NoEntry \/ got'.who # "nobody"
    <3>1. Longer => got' = NoEntry \/ (Entries.len > base /\ got' = Entries.last)
      BY <2>1 DEF Longer
    <3>2. ~Longer => got' = NoEntry
      BY <1>7 DEF AwaitEntry
    <3>3. Entries.len > base => Entries.len > 0
      BY ComboFacts DEF CallerTypeOK, Entries
    <3>4. Entries.len > 0 => Entries.last.who # "nobody"
      BY ComboFacts DEF Entries
    <3> QED BY <3>1, <3>2, <3>3, <3>4
  <2> QED BY <2>1, <2>3, <2>4 DEF chainVars, placeVars, verdictVars
<1> QED BY <1>1, <1>2, <1>3, <1>4, <1>5, <1>6, <1>7

\* The verdicts on what was returned.
LEMMA BadKinds ==
  \A ret, expect : BadReturn(ret, expect) \in {{}, {"empty"}, {"disagrees"}}
BY DEF BadReturn

\* The verdict on a hop that ends the probes of its combination.
LEMMA CallFails ==
  ASSUME CallShape, pc = "judge", JudgeReceipt \/ JudgeUnapplied
  PROVE  CallShape'
<1> USE DEF CallShape, Walk, Hop
<1>1. /\ AfterHop /\ found' \subseteq Findings /\ (Booked(0, 1, 0) \/ Booked(0, 0, 1))
      /\ UNCHANGED <<trouble, stopped, deployVars, chainVars, base, pre, expected, rc, got, readable, sent, done,
                     truth, clean, strange, mode, observed, seen>>
  BY DEF JudgeReceipt, JudgeUnapplied, JudgeStep, CallStep, Fail, Inconclusive, Findings
<1>2. /\ pc' \in {"settle", "combo", "idle"} /\ next' \in 1 .. 3 /\ round' \in 0 .. Rounds
      /\ pc' # "idle" => round' < Rounds
      /\ pc' = "settle" => Combo # "a" /\ next' = next /\ Combo' = Combo
  BY <1>1, Leaving
<1>3. /\ book' \in [pass : 0 .. 2, fail : 0 .. 2, inc : 0 .. 3]
      /\ book'.pass = 0 /\ book'.fail <= 1 /\ book'.inc <= 2
  BY <1>1, Counted, Counting
<1>4. CallerTypeOK'
  BY <1>1, <1>2, <1>3 DEF CallerTypeOK, chainVars, deployVars
<1>5. Len(observed) # 2
  BY Counted
<1> QED BY <1>1, <1>2, <1>3, <1>4, <1>5 DEF chainVars

LEMMA CallBaseline ==
  ASSUME CallShape, JudgeBaseline
  PROVE  CallShape'
<1> USE DEF CallShape, Walk, Hop
<1>1. /\ pc = "judge" /\ AfterCombo /\ found' \subseteq Findings
      /\ Booked(0, 1, 0) \/ Booked(0, 0, 1) \/ Booked(1, 0, 0)
      /\ UNCHANGED <<trouble, stopped, deployVars, chainVars, base, pre, expected, rc, got, readable, sent, done,
                     truth, clean, strange, mode, observed, seen>>
  <2>1. PICK post \in Reads(incs[Here].len), n \in Reads(calls[Here].len) :
          LET last == calls[Here].last  bad == BadReturn(last.ret, post) IN
          /\ pc = "judge" /\ AfterCombo
          /\ IF post = Unknown THEN Inconclusive
             ELSE IF post # pre + 1 THEN Fail({"not_applied"})
             ELSE IF n = Unknown THEN Inconclusive
             ELSE IF n <= base THEN Fail({"no_call"})
             ELSE IF bad # {} THEN Fail(bad)
             ELSE Booked(1, 0, 0) /\ found' = found \cup (IF last.who = "eoa" THEN {} ELSE {"sender"})
          /\ JudgeStep /\ UNCHANGED <<mode, observed, seen>>
    BY DEF JudgeBaseline
  <2>2. BadReturn(calls[Here].last.ret, post) \subseteq Findings
    BY BadKinds DEF Findings
  <2>3. found' \subseteq Findings /\ (Booked(0, 1, 0) \/ Booked(0, 0, 1) \/ Booked(1, 0, 0))
    BY <2>1, <2>2 DEF Fail, Inconclusive, Findings
  <2> QED BY <2>1, <2>3 DEF JudgeStep, CallStep
<1>2. /\ pc' \in {"combo", "idle"} /\ next' \in 1 .. 3 /\ round' \in 0 .. Rounds
      /\ pc' # "idle" => round' < Rounds
  BY <1>1, Leaving
<1>3. book' \in [pass : 0 .. 2, fail : 0 .. 2, inc : 0 .. 3]
  BY <1>1, Counted, Counting
<1>4. CallerTypeOK'
  BY <1>1, <1>2, <1>3 DEF CallerTypeOK, chainVars, deployVars
<1> QED BY <1>1, <1>2, <1>4 DEF chainVars

LEMMA CallEntry ==
  ASSUME CallShape, JudgeEntry
  PROVE  CallShape'
<1> USE DEF CallShape, Walk, Hop
<1>1. PICK expect \in Reads(incs[Here].len) :
        LET bad == IF mode = "logger" THEN BadReturn(got.ret, expect) ELSE {}
            blind == IF mode = "logger" /\ expect = Unknown THEN 1 ELSE 0 IN
        /\ pc = "judge" /\ rc = "ok" /\ Combo # "a" /\ got # NoEntry
        /\ seen' = [seen EXCEPT ![Combo] = @ \cup {got.who}]
        /\ found' = found \cup Drift \cup bad
        /\ Booked(0, IF bad = {} THEN 0 ELSE 1, blind)
        /\ IF bad = {} THEN NextHop /\ observed' = Append(observed, got.who)
           ELSE pc' = "settle" /\ UNCHANGED <<mode, observed>>
        /\ JudgeStep /\ UNCHANGED placeVars
  BY DEF JudgeEntry
<1> DEFINE bad == IF mode = "logger" THEN BadReturn(got.ret, expect) ELSE {}
           blind == IF mode = "logger" /\ expect = Unknown THEN 1 ELSE 0
<1>2. /\ bad \subseteq {"empty", "disagrees"} /\ Drift \subseteq {"drift"}
      /\ blind \in {0, 1} /\ (mode = "direct" => blind = 0)
  BY BadKinds DEF Drift
<1>3. /\ pc = "judge" /\ Combo # "a" /\ got.who \in Senders
      /\ seen' = [seen EXCEPT ![Combo] = @ \cup {got.who}]
      /\ found' = found \cup Drift \cup bad
      /\ Booked(0, IF bad = {} THEN 0 ELSE 1, blind)
      /\ \/ bad = {} /\ NextHop /\ observed' = Append(observed, got.who)
         \/ bad # {} /\ pc' = "settle" /\ UNCHANGED <<mode, observed>>
      /\ UNCHANGED <<trouble, stopped, deployVars, chainVars, placeVars, base, pre, expected, rc, got, readable, sent,
                     done, truth, clean, strange>>
      /\ Combo' = Combo
  BY <1>1 DEF JudgeStep, CallStep, placeVars, CallerTypeOK, Entry, Combo
<1> HIDE DEF bad, blind
<1>4. found' \subseteq Findings /\ seen' \in [{"b", "c"} -> SUBSET Senders]
  BY <1>2, <1>3, ComboFacts DEF CallerTypeOK, Findings
<1>5. /\ book' \in [pass : 0 .. 2, fail : 0 .. 2, inc : 0 .. 3]
      /\ book'.pass = 0 /\ book'.fail <= 1 /\ book'.inc = book.inc + blind /\ book'.inc <= 2
      /\ bad = {} => book'.fail = 0
  BY <1>2, <1>3, Counted, Counting
<1>6. CASE bad = {}
  <2>1. /\ observed \in Seq(Senders) /\ observed' = Append(observed, got.who)
        /\ Len(observed) = (IF mode = "logger" THEN 0 ELSE 1)
    BY <1>3, <1>6 DEF CallerTypeOK
  <2>2. /\ observed' \in Seq(Senders) /\ Len(observed') = (IF mode = "logger" THEN 1 ELSE 2)
    BY <1>3, <2>1
  <2>3. \/ pc' = "settle" /\ mode' = mode
        \/ pc' = "pre" /\ mode = "logger" /\ mode' = "direct"
    BY <1>3, <1>6 DEF NextHop, CallerTypeOK
  <2>4. CallerTypeOK'
    BY <1>3, <1>4, <1>5, <2>2, <2>3 DEF CallerTypeOK, chainVars, deployVars, placeVars
  <2>5. pc' = "pre" => book'.inc <= 1 /\ Len(observed') = 1
    <3>1. mode = "logger" => book.inc \in Nat /\ book.inc <= 0
      BY <1>3, <2>1, Counted
    <3>2. mode = "logger" => book.inc + blind <= 1
      BY <1>2, <3>1
    <3> QED BY <1>5, <2>2, <2>3, <3>2
  <2> QED BY <1>3, <1>4, <1>5, <1>6, <2>2, <2>3, <2>4, <2>5 DEF chainVars, placeVars
<1>7. CASE bad # {}
  <2>1. pc' = "settle" /\ UNCHANGED <<mode, observed>> /\ Len(observed) \in {0, 1}
    BY <1>3, <1>7, Counted
  <2>2. CallerTypeOK'
    BY <1>3, <1>4, <1>5, <2>1 DEF CallerTypeOK, chainVars, deployVars, placeVars
  <2> QED BY <1>3, <1>4, <1>5, <2>1, <2>2, SMTT(30) DEF chainVars, placeVars
<1> QED BY <1>6, <1>7

LEMMA CallSettle ==
  ASSUME CallShape, Settle
  PROVE  CallShape'
<1> USE DEF CallShape, Walk, Hop
<1>1. /\ pc = "settle" /\ AfterCombo /\ Settlement /\ found' \subseteq Findings
      /\ UNCHANGED <<trouble, stopped, deployVars, chainVars, base, pre, expected, rc, got, readable, sent, done,
                     truth, clean, strange, mode, observed, seen>>
  BY DEF Settle, JudgeStep, CallStep, Findings
<1>2. /\ pc' \in {"combo", "idle"} /\ next' \in 1 .. 3 /\ round' \in 0 .. Rounds
      /\ pc' # "idle" => round' < Rounds
  BY <1>1, Leaving
<1>3. book' \in [pass : 0 .. 2, fail : 0 .. 2, inc : 0 .. 3]
  <2>1. /\ Len(observed) \in {0, 1, 2} /\ book.pass = 0 /\ book.fail <= 1 /\ book.inc <= 2
        /\ book.fail \in Nat /\ book.inc \in Nat /\ (Len(observed) = 2 => book.fail = 0)
    <3>1. /\ observed \in Seq(Senders) /\ Len(observed) <= 2 /\ book.fail \in 0 .. 2 /\ book.inc \in 0 .. 3
      BY DEF CallerTypeOK
    <3>2. Len(observed) \in Nat
      BY <3>1
    <3>3. \A n \in Nat : n <= 2 => n \in {0, 1, 2}
      OBVIOUS
    <3>4. Len(observed) \in {0, 1, 2}
      BY <3>1, <3>2, <3>3
    <3> QED BY <1>1, <3>1, <3>4
  <2>2. \E p \in {0, 2}, f \in {0, 1, 2}, i \in {0, 1} :
          /\ Booked(p, f, i) /\ book.fail + f <= 2
    <3>1. CASE Len(observed) = 2
      <4>1. Booked(0, 2, 0) \/ Booked(2, 0, 0)
        BY <1>1, <3>1 DEF Settlement
      <4> QED BY <2>1, <3>1, <4>1
    <3>2. CASE Len(observed) = 1
      <4>1. Booked(0, 1, 1) \/ Booked(0, 0, 1)
        BY <1>1, <3>2 DEF Settlement
      <4> QED BY <2>1, <4>1
    <3>3. CASE Len(observed) = 0
      <4>1. Booked(0, 0, 0)
        BY <1>1, <3>3 DEF Settlement
      <4> QED BY <2>1, <4>1
    <3> QED BY <2>1, <3>1, <3>2, <3>3
  <2> QED BY <2>1, <2>2, Counting
<1>4. CallerTypeOK'
  BY <1>1, <1>2, <1>3 DEF CallerTypeOK, chainVars, deployVars
<1> QED BY <1>1, <1>2, <1>4 DEF chainVars

\* The run is stopped, or nothing happens.
LEMMA CallStays ==
  ASSUME CallShape, Stop \/ UNCHANGED callerVars
  PROVE  /\ CallShape'
         /\ UNCHANGED <<trouble, chainVars, deployVars, pc, placeVars, hopVars, verdictVars, sent, done, truth, clean,
                        strange>>
         /\ ~stopped' => ~stopped
<1>1. UNCHANGED <<trouble, chainVars, deployVars, pc, placeVars, hopVars, verdictVars, sent, done, truth, clean,
                  strange>>
  BY DEF Stop, callerVars
<1>2. stopped' = TRUE \/ stopped' = stopped
  BY DEF Stop, callerVars
<1>5. stopped' \in BOOLEAN
  BY <1>2 DEF CallShape, CallerTypeOK
<1>3. CallerTypeOK'
  BY <1>1, <1>5 DEF CallShape, CallerTypeOK, chainVars, deployVars, placeVars, hopVars, verdictVars
<1>4. CallShape'
  BY <1>1, <1>3 DEF CallShape, chainVars, placeVars, hopVars, verdictVars, Combo
<1> QED BY <1>1, <1>2, <1>4

\* The shape is kept by every step.
LEMMA CallStepped == CallShape /\ [CallerNext]_callerVars => CallShape'
<1> SUFFICES ASSUME CallShape, [CallerNext]_callerVars PROVE CallShape'
  OBVIOUS
<1>1. JudgeReceipt \/ JudgeUnapplied => pc = "judge"
  BY DEF JudgeReceipt, JudgeUnapplied
<1> QED BY <1>1, CallChain, CallRests, CallHops, CallFails, CallBaseline, CallEntry, CallSettle, CallStays
        DEF CallerNext, Worker, Finished

-----------------------------------------------------------------------------
\* The hop's own call.
LEMMA MineFacts ==
  ASSUME CallerTypeOK
  PROVE  /\ Mine.by = sent /\ Mine.side = Here /\ Mine.mode = mode /\ Mine.who = Caller /\ Mine.on = Both
         /\ Here \in Sides /\ mode \in {"logger", "direct"}
         /\ incs[Here].len \in Nat /\ calls[Here].len \in Nat /\ Entries.len \in Nat
BY ComboFacts DEF Mine, CallerTypeOK, Entries

\* The hop's own call lands.
LEMMA MineLands ==
  ASSUME CallerTypeOK, ChainStep, Lands, due \subseteq {Mine}
  PROVE  /\ due' = {} /\ landed' = TRUE /\ incs'[Here].len = incs[Here].len + 1 /\ Entries'.len = Entries.len + 1
         /\ receipt \in {"none", "ok"} /\ receipt' = (IF Caller = "eoa" THEN "ok" ELSE receipt)
         /\ truth \subseteq truth'
         /\ strange => strange'
         /\ \E flaw \in FlawKinds :
              /\ truth' = truth \cup ({flaw} \ {"none"}) /\ strange' = (strange \/ flaw = "stranger")
              /\ IF flaw = "stranger" THEN Entries'.last.who = "stranger" /\ Caller = "proxy"
                                      ELSE Entries'.last.who = Caller
              /\ flaw # "none" => flaw \in trouble
              /\ flaw \in {"empty", "wrong"} => mode = "logger"
              /\ mode = "logger" =>
                   calls'[Here].last.ret = (CASE flaw = "empty" -> Empty [] flaw = "wrong" -> 0
                                              [] OTHER -> incs'[Here].len)
<1>1. UNCHANGED <<next, mode, Here, Caller>>
  BY DEF ChainStep, placeVars, hopVars, Here, Caller, Combo
<1>2. PICK e \in due, who \in Senders, ret \in Int, flaw \in FlawKinds : LandsAs(e, who, ret, flaw)
  BY DEF Lands
<1>3. e = Mine /\ e.by = sent /\ e.side = Here /\ e.mode = mode /\ e.who = Caller /\ e.on = Both
  BY <1>2, MineFacts
<1>4. due' = due \ {e} /\ incs'[Here] = CounterEntry(e, who)
      /\ calls'[Here] = IF mode = "logger" THEN LoggerEntry(e, who, ret) ELSE calls[Here]
  BY <1>2, <1>3, LandEffect DEF LandsAs, Both
<1>5. /\ incs'[Here].len = incs[Here].len + 1
      /\ mode = "direct" => incs'[Here].last.who = who
      /\ mode = "logger" => /\ calls'[Here].len = calls[Here].len + 1
                            /\ calls'[Here].last.who = who /\ calls'[Here].last.ret = ret
  BY <1>3, <1>4 DEF CounterEntry, LoggerEntry
<1>6. Entries'.len = Entries.len + 1 /\ Entries'.last.who = who
  BY <1>1, <1>5, MineFacts DEF Entries
<1>7. due' = {}
  BY <1>3, <1>4
<1> QED BY <1>2, <1>3, <1>5, <1>6, <1>7 DEF LandsAs, FlawKinds

\* With nothing on its way, all there can be is a receipt that is still due.
LEMMA Undecided ==
  ASSUME CallerTypeOK, Chain, due = {}
  PROVE  ~Still /\ UNCHANGED <<calls, incs, due, landed, strange>>
<1>1. Decides
  BY ChainMoves DEF Lands
<1> QED BY <1>1 DEF Decides, Latest, Still

\* The fate of the hop's own call.
LEMMA MineDecided ==
  ASSUME CallerTypeOK, Decides, due \subseteq {Mine}
  PROVE  /\ UNCHANGED <<calls, incs, landed, strange>> /\ receipt = "none" /\ receipt' # "none"
         /\ truth \subseteq truth'
         /\ \/ due' = due /\ truth' = truth /\ receipt' = "ok" /\ (landed \/ (Caller = "proxy" /\ due = {Mine}))
            \/ /\ due = {Mine} /\ due' = {}
               /\ \/ receipt' = "reverted" /\ truth' = truth \cup {"revert"}
                  \/ receipt' = "dropped" /\ truth' = truth \cup {"drop"}
                  \/ receipt' = "ok" /\ truth' = truth \cup {"lost"} /\ Caller = "proxy"
            \/ landed /\ receipt' = "reverted" /\ due' = due /\ truth' = truth \cup {"revert", "partial"}
<1>1. Latest = due
  BY MineFacts DEF Latest
<1>2. due = {} \/ due = {Mine}
  OBVIOUS
<1> QED BY <1>1, <1>2, MineFacts DEF Decides

WitnessInv == LandInv /\ EntryInv /\ SenderInv

\* No other effect than the hop's own is mistaken for it.
LEMMA WitnessChain ==
  ASSUME CallShape, WitnessInv, Chain
  PROVE  WitnessInv'
<1> USE DEF WitnessInv
<1>1. CallerTypeOK /\ ChainStep /\ (Lands \/ Decides)
  BY ChainMoves DEF CallShape
<1>2. UNCHANGED <<stopped, pc, next, mode, base, pre, got, seen, observed, clean, rc, Here, Caller, Combo>>
  BY <1>1 DEF ChainStep, placeVars, hopVars, verdictVars, Here, Caller, Combo
<1>3. CASE pc \in Hop /\ Solo
  <2>1. due \subseteq {Mine} /\ (landed => due = {})
    BY <1>3 DEF LandInv
  <2>2. CASE Lands
    <3>1. ~landed
      BY <2>1, <2>2 DEF Lands
    <3>2. Entries.len = base /\ incs[Here].len = pre /\ ~(pc = "judge" /\ got # NoEntry)
      BY <1>3, <3>1 DEF LandInv
    <3>3. LandInv'
      BY <1>1, <1>2, <1>3, <2>1, <2>2, <3>2, MineLands DEF LandInv, Hop
    <3>4. EntryInv' /\ SenderInv'
      BY <1>1, <1>2, <1>3, <2>1, <2>2, MineLands DEF EntryInv, SenderInv, FlawKinds
    <3> QED BY <3>3, <3>4
  <2>3. CASE Decides
    <3>1. UNCHANGED Entries /\ UNCHANGED <<calls, incs, landed, strange>>
      BY <1>1, <1>2, <2>1, <2>3, MineDecided DEF Entries
    <3>2. /\ due' \subseteq due /\ truth \subseteq truth' /\ receipt = "none"
          /\ receipt' \in {"reverted", "dropped"} => landed \/ due' = {}
          /\ receipt' = "ok" /\ Caller = "eoa" => landed
      BY <1>1, <2>1, <2>3, MineDecided
    <3>3. Mine' = Mine
      BY <1>1, <1>2 DEF Mine, ChainStep
    <3>4. LandInv'
      BY <1>1, <1>2, <1>3, <2>1, <3>1, <3>2, <3>3, ComboFacts DEF LandInv, Solo, Hop
    <3>5. EntryInv' /\ SenderInv'
      BY <1>2, <1>3, <3>1, <3>2 DEF EntryInv, SenderInv
    <3> QED BY <3>4, <3>5
  <2> QED BY <1>1, <2>2, <2>3
<1>4. CASE ~(pc \in Hop /\ Solo)
  <2>1. strange => strange'
    BY <1>1, ZenonT(40) DEF Lands, LandsAs, Decides
  <2>2. EntryInv' /\ SenderInv'
    BY <1>2, <1>4, <2>1 DEF EntryInv, SenderInv, Solo
  <2>3. CASE pc = "send" /\ Solo
    <3>1. UNCHANGED <<calls, incs, due, landed, strange>> /\ due = {}
      BY <1>1, <2>3, Undecided DEF LandInv
    <3> QED BY <1>2, <1>4, <2>2, <2>3, <3>1 DEF LandInv, Entries, Hop, Solo
  <2>4. CASE ~(pc = "send" /\ Solo)
    BY <1>2, <1>4, <2>1, <2>2, <2>4 DEF LandInv, Solo, Hop
  <2> QED BY <2>3, <2>4
<1> QED BY <1>3, <1>4

LEMMA WitnessWorker ==
  ASSUME CallShape, WitnessInv, Worker
  PROVE  WitnessInv'
<1> USE DEF WitnessInv
<1>1. CASE Deploy \/ DeployFails \/ DeployRaises \/ Retry \/ LeaveSuite \/ SkipCombo
  <2>1. pc' \in Rests /\ UNCHANGED <<seen, strange>>
    BY <1>1, CallRests DEF verdictVars
  <2> QED BY <2>1 DEF LandInv, EntryInv, SenderInv, Rests, Hop
<1>2. CASE StartCombo \/ SendRaises \/ ComboRaises \/ JudgeReceipt \/ JudgeBaseline \/ JudgeUnapplied \/ Settle
  <2>1. pc' \in {"pre", "settle", "combo", "idle"}
    <3>1. CASE StartCombo
      BY <3>1 DEF StartCombo, Goto
    <3>2. CASE SendRaises \/ ComboRaises \/ JudgeReceipt \/ JudgeBaseline \/ JudgeUnapplied \/ Settle
      BY <3>2, Leaving DEF SendRaises, ComboRaises, JudgeReceipt, JudgeBaseline, JudgeUnapplied, Settle
    <3> QED BY <1>2, <3>1, <3>2
  <2>2. UNCHANGED <<seen, strange>>
    BY <1>2 DEF StartCombo, SendRaises, ComboRaises, JudgeReceipt, JudgeBaseline, JudgeUnapplied, Settle, JudgeStep,
                hopVars, verdictVars
  <2> QED BY <2>1, <2>2 DEF LandInv, EntryInv, SenderInv, Hop
<1>3. CASE PreRead
  <2>1. /\ pc' \in {"send", "settle", "combo", "idle"}
        /\ pc' = "send" => base' = Entries.len /\ pre' = incs[Here].len /\ UNCHANGED placeVars
        /\ clean' = (clean /\ due = {}) /\ strange' = (strange \/ due # {})
        /\ UNCHANGED <<calls, incs, due, mode, seen>>
    <3>1. PICK n \in Reads(Entries.len) :
            /\ pc = "pre"
            /\ IF n = Unknown THEN AfterHop /\ Inconclusive /\ UNCHANGED <<base, pre>>
               ELSE /\ pc' = "send" /\ base' = n /\ pre' = incs[Here].len
                    /\ UNCHANGED <<placeVars, book, found>>
            /\ clean' = (clean /\ due = {}) /\ strange' = (strange \/ due # {})
            /\ UNCHANGED <<calls, incs, due, mode, seen>>
      BY <1>3 DEF PreRead, CallStep, chainVars
    <3>2. CASE n = Unknown
      BY <3>1, <3>2, Leaving
    <3>3. CASE n # Unknown
      BY <3>1, <3>3 DEF Reads
    <3> QED BY <3>1, <3>2, <3>3
  <2>2. Solo' => due = {}
    BY <2>1 DEF Solo
  <2>3. pc' = "send" => Entries' = Entries /\ incs'[Here'].len = incs[Here].len
    BY <2>1 DEF Entries, Here, Combo, placeVars
  <2>4. LandInv'
    BY <2>1, <2>2, <2>3 DEF LandInv, Hop
  <2>5. EntryInv' /\ SenderInv'
    BY <2>1 DEF EntryInv, SenderInv, Hop
  <2> QED BY <2>4, <2>5
<1>4. CASE Send
  <2>1. /\ pc = "send" /\ pc' = "receipt" /\ sent' = sent + 1 /\ receipt' = "none" /\ landed' = FALSE
        /\ due' = due \cup {Mine'}
        /\ UNCHANGED <<calls, incs, base, pre, seen, clean, strange, Entries, Here, Combo>>
    BY <1>4 DEF Send, Goto, Broadcast, placeVars, verdictVars, Mine, Entries, Here, Combo, Caller
  <2> QED BY <2>1 DEF LandInv, EntryInv, SenderInv, Hop, Solo
<1>5. CASE Receipt \/ AwaitEntry
  <2>1. /\ pc \in {"receipt", "await"} /\ pc' \in {"await", "judge"}
        /\ UNCHANGED <<chainVars, placeVars, mode, base, pre, seen, sent, clean, strange>>
        /\ truth \subseteq truth'
    BY <1>5 DEF Receipt, AwaitEntry, Goto, verdictVars
  <2>2. UNCHANGED <<calls, incs, due, receipt, landed, Mine, Entries, Here, Combo, Caller, Solo>>
    BY <2>1 DEF chainVars, placeVars, Mine, Entries, Here, Combo, Caller, Solo
  <2>3. pc' = "judge" /\ Solo /\ got' # NoEntry => landed /\ got' = Entries.last
    <3>1. CASE Receipt
      BY <3>1 DEF Receipt, CallShape
    <3>2. CASE AwaitEntry
      <4>1. got' # NoEntry => Longer /\ got' = Entries.last
        BY <3>2 DEF AwaitEntry
      <4>2. Solo /\ ~landed => Entries.len = base
        BY <2>1 DEF LandInv, Hop
      <4>3. Entries.len = base => ~Longer
        BY MineFacts DEF Longer, CallShape
      <4> QED BY <4>1, <4>2, <4>3
    <3> QED BY <1>5, <3>1, <3>2
  <2>4. LandInv'
    BY <2>1, <2>2, <2>3 DEF LandInv, Hop
  <2>5. EntryInv' /\ SenderInv'
    BY <2>1, <2>2 DEF EntryInv, SenderInv, Hop
  <2> QED BY <2>4, <2>5
<1>6. CASE JudgeEntry
  <2>1. /\ pc = "judge" /\ got # NoEntry /\ Combo # "a" /\ pc' \in {"pre", "settle"} /\ strange' = strange
        /\ seen' = [seen EXCEPT ![Combo] = @ \cup {got.who}]
    BY <1>6 DEF JudgeEntry, NextHop, JudgeStep
  <2>2. ~strange => got.who = "proxy"
    BY <2>1, ComboFacts DEF LandInv, SenderInv, Solo, Hop, CallShape
  <2>3. SenderInv'
    BY <2>1, <2>2, ComboFacts DEF SenderInv, Hop, CallShape, CallerTypeOK
  <2> QED BY <2>1, <2>3 DEF LandInv, EntryInv, Hop
<1> QED BY <1>1, <1>2, <1>3, <1>4, <1>5, <1>6 DEF Worker

LEMMA WitnessStep == CallShape /\ WitnessInv /\ [CallerNext]_callerVars => WitnessInv'
<1>1. ASSUME CallShape, WitnessInv, Stop \/ UNCHANGED callerVars PROVE WitnessInv'
  <2>1. UNCHANGED <<calls, incs, due, receipt, landed, pc, next, mode, base, pre, got, seen, clean, strange, truth, sent>>
    BY <1>1, CallStays DEF chainVars, placeVars, hopVars, verdictVars
  <2>2. UNCHANGED <<Mine, Entries, Here, Caller, Combo, Solo>>
    BY <2>1 DEF Mine, Entries, Here, Caller, Combo, Solo
  <2> QED BY <1>1, <2>1, <2>2 DEF WitnessInv, LandInv, EntryInv, SenderInv
<1> QED BY <1>1, WitnessChain, WitnessWorker DEF CallerNext, Finished

\* The receipts, step by step.
LEMMA ReceiptChain ==
  ASSUME CallShape, WitnessInv, ReceiptInv, Chain
  PROVE  ReceiptInv'
<1>1. CallerTypeOK /\ ChainStep /\ (Lands \/ Decides)
  BY ChainMoves DEF CallShape
<1>2. UNCHANGED <<stopped, trouble, pc, next, mode, base, pre, got, observed, clean, rc, Here, Caller, Combo>>
  BY <1>1 DEF ChainStep, placeVars, hopVars, verdictVars, Here, Caller, Combo
<1>3. truth \subseteq truth'
  BY <1>1 DEF Lands, LandsAs, Decides
<1>4. ASSUME clean, pc \in {"pre", "send"} PROVE FALSE
  BY <1>1, <1>4, Undecided DEF ReceiptInv, Still
<1>5. ASSUME clean, pc \in Hop, receipt' = "reverted"
      PROVE  "revert" \in truth' /\ (landed' => "partial" \in truth')
  <2>1. due \subseteq {Mine} /\ (landed => due = {})
    BY <1>5 DEF WitnessInv, LandInv, Solo
  <2>2. CASE Lands
    BY <1>1, <1>5, <2>1, <2>2, MineLands
  <2>3. CASE Decides
    BY <1>1, <1>5, <2>1, <2>3, MineDecided
  <2> QED BY <1>1, <2>2, <2>3
<1> QED BY <1>2, <1>3, <1>4, <1>5 DEF ReceiptInv

\* A sender that is not the proxy's is a stranger's.
LEMMA EntrySender ==
  ASSUME CallShape, WitnessInv, clean, JudgeEntry
  PROVE  /\ Still /\ landed /\ got = Entries.last /\ due = {} /\ receipt = "ok"
         /\ got.who = "proxy" \/ (got.who = "stranger" /\ "stranger" \in truth)
<1>1. pc = "judge" /\ rc = "ok" /\ Combo # "a" /\ got # NoEntry
  BY DEF JudgeEntry
<1>2. landed /\ got = Entries.last /\ due = {}
  BY <1>1 DEF WitnessInv, LandInv, Solo, Hop
<1>3. receipt = "ok"
  BY <1>1 DEF CallShape
<1>4. got.who = "proxy" \/ (got.who = "stranger" /\ "stranger" \in truth)
  BY <1>1, <1>2, ComboFacts DEF WitnessInv, EntryInv, Hop, CallShape
<1> QED BY <1>2, <1>3, <1>4 DEF Still

LEMMA ReceiptWorker ==
  ASSUME CallShape, WitnessInv, ReceiptInv, Worker
  PROVE  ReceiptInv'
<1>1. CASE Deploy \/ DeployFails \/ DeployRaises \/ Retry \/ LeaveSuite \/ SkipCombo
  BY <1>1, CallRests DEF ReceiptInv, Rests, Hop
<1>2. CASE StartCombo
  <2>1. /\ pc' = "pre" /\ observed' = <<>> /\ UNCHANGED <<due, receipt, landed>>
        /\ clean' = (due = {} /\ (sent = 0 \/ receipt # "none"))
    BY <1>2 DEF StartCombo, Goto, chainVars
  <2>2. clean' => Still'
    BY <2>1 DEF Still, CallShape
  <2> QED BY <2>1, <2>2 DEF ReceiptInv, Hop
<1>3. CASE PreRead
  <2>1. /\ pc = "pre" /\ clean' = (clean /\ due = {}) /\ UNCHANGED <<due, receipt, landed, observed, truth>>
        /\ pc' \in {"send", "settle", "combo", "idle"}
    <3>1. /\ pc = "pre" /\ clean' = (clean /\ due = {}) /\ UNCHANGED <<due, receipt, landed, observed, truth>>
          /\ AfterHop \/ pc' = "send"
      BY <1>3 DEF PreRead, chainVars
    <3> QED BY <3>1, Leaving
  <2> QED BY <2>1 DEF ReceiptInv, Still, Hop
<1>4. CASE Send
  BY <1>4 DEF Send, Goto, Broadcast, ReceiptInv, verdictVars, Hop
<1>5. CASE SendRaises \/ ComboRaises \/ JudgeReceipt \/ JudgeBaseline \/ JudgeUnapplied \/ Settle
  <2>1. pc' \in {"settle", "combo", "idle"} /\ UNCHANGED <<observed, truth, clean>>
    BY <1>5, Leaving DEF SendRaises, ComboRaises, JudgeReceipt, JudgeBaseline, JudgeUnapplied, Settle, JudgeStep
  <2>2. pc' = "settle" => pc \notin Rests
    BY <1>5 DEF SendRaises, ComboRaises, JudgeReceipt, JudgeBaseline, JudgeUnapplied, Settle, Rests
  <2> QED BY <2>1, <2>2 DEF ReceiptInv, Hop, Rests
<1>6. CASE Receipt
  <2>1. /\ pc = "receipt" /\ pc' = (IF Combo = "c" \/ (Combo = "b" /\ rc' = "ok") THEN "await" ELSE "judge")
        /\ truth \subseteq truth' /\ UNCHANGED <<receipt, landed, observed, clean, stopped, trouble, next>>
    BY <1>6 DEF Receipt, CallStep, chainVars, placeVars, verdictVars
  <2>2. pc' = "judge" /\ rc' = "ok" => Combo = "a"
    BY <2>1, ComboFacts DEF CallShape
  <2>3. Combo' = Combo
    BY <2>1 DEF Combo
  <2> QED BY <2>1, <2>2, <2>3 DEF ReceiptInv, Hop
<1>7. CASE AwaitEntry
  <2>1. /\ pc = "await" /\ pc' = "judge"
        /\ truth \subseteq truth' /\ UNCHANGED <<receipt, landed, observed, clean, stopped, trouble, next, rc>>
        /\ \/ Longer /\ got' = Entries.last
           \/ /\ ~Longer \/ stopped \/ "blackout" \in trouble
              /\ landed \/ "unapplied" \in truth'
    BY <1>7 DEF AwaitEntry, Goto, CallStep, chainVars, placeVars, verdictVars
  <2>2. Longer => Entries.last # NoEntry
    <3>1. Entries.len \in Nat /\ base \in Nat /\ Here \in Sides
      BY MineFacts DEF CallShape, CallerTypeOK
    <3>2. Longer => Entries.len > 0
      BY <3>1 DEF Longer
    <3>3. Entries.len > 0 => Entries.last.who # "nobody"
      BY <3>1 DEF CallShape, Entries
    <3> QED BY <3>2, <3>3 DEF NoEntry
  <2>3. clean /\ landed => Longer
    <3>1. clean /\ landed => Entries.len = base + 1 /\ base \in Nat
      BY <2>1 DEF WitnessInv, LandInv, Solo, Hop, CallShape, CallerTypeOK
    <3> QED BY <3>1 DEF Longer
  <2> QED BY <2>1, <2>2, <2>3 DEF ReceiptInv, Hop
<1>8. CASE JudgeEntry
  <2>1. /\ pc = "judge" /\ pc' \in {"pre", "settle"} /\ UNCHANGED <<due, receipt, landed, truth, clean>>
        /\ observed' = observed \/ observed' = Append(observed, got.who)
    BY <1>8 DEF JudgeEntry, NextHop, JudgeStep, chainVars
  <2>2. ASSUME clean, NEW i \in 1 .. Len(observed')
        PROVE  observed'[i] = "proxy" \/ "stranger" \in truth
    <3>1. \A j \in 1 .. Len(observed) : observed[j] = "proxy" \/ "stranger" \in truth
      BY <2>1, <2>2 DEF ReceiptInv
    <3>2. got.who = "proxy" \/ "stranger" \in truth
      BY <1>8, <2>2, EntrySender
    <3>3. CASE observed' = observed
      BY <2>2, <3>1, <3>3
    <3>4. CASE observed' = Append(observed, got.who)
      <4>1. observed \in Seq(Senders)
        BY DEF CallShape, CallerTypeOK
      <4> QED BY <2>2, <3>1, <3>2, <3>4, <4>1
    <3> QED BY <2>1, <3>3, <3>4
  <2>3. clean => Still
    BY <1>8, EntrySender
  <2> QED BY <2>1, <2>2, <2>3 DEF ReceiptInv, Still, Hop
<1> QED BY <1>1, <1>2, <1>3, <1>4, <1>5, <1>6, <1>7, <1>8 DEF Worker

LEMMA ReceiptStep == CallShape /\ WitnessInv /\ ReceiptInv /\ [CallerNext]_callerVars => ReceiptInv'
<1>1. ASSUME CallShape, ReceiptInv, Stop \/ UNCHANGED callerVars PROVE ReceiptInv'
  <2>1. /\ UNCHANGED <<due, receipt, landed, pc, next, got, rc, observed, clean, truth, trouble>>
        /\ ~stopped' => ~stopped
    BY <1>1, CallStays DEF chainVars, placeVars, hopVars, verdictVars
  <2> QED BY <1>1, <2>1 DEF ReceiptInv, Still, Combo
<1> QED BY <1>1, ReceiptChain, ReceiptWorker DEF CallerNext, Finished

-----------------------------------------------------------------------------
\* What the chain did, as the findings speak of it.
Told(f) == (truth \cup (IF strange THEN {"earlier"} ELSE {})) \intersect Says(f) # {}

LEMMA ToldFacts ==
  /\ "unmined" \in truth => Told("never_mined")
  /\ "revert" \in truth => Told("reverted")
  /\ "partial" \in truth => Told("partial")
  /\ "unapplied" \in truth => Told("not_applied")
  /\ "empty" \in truth => Told("empty")
  /\ "wrong" \in truth => Told("disagrees")
  /\ "stranger" \in truth => Told("mismatch") /\ Told("unstable")
  /\ strange => Told("drift")
BY DEF Told, Says

LEMMA StillTold ==
  ASSUME truth \subseteq truth', strange => strange', NEW f \in Findings \ {"unsent", "exception"}, Told(f)
  PROVE  Told(f)'
<1>1. PICK t \in truth \cup (IF strange THEN {"earlier"} ELSE {}) : t \in Says(f)
  BY DEF Told
<1>2. t \in truth' \cup (IF strange' THEN {"earlier"} ELSE {})
  BY <1>1, Zenon
<1>3. t \in Says(f)'
  <2>1. CASE f = "drift"
    <3>1. t \in (IF strange THEN {"stranger", "earlier"} ELSE {"stranger"})
      BY <1>1, <2>1 DEF Says
    <3>2. t \in (IF strange' THEN {"stranger", "earlier"} ELSE {"stranger"})
      BY <3>1, Zenon
    <3> QED BY <2>1, <3>2 DEF Says
  <2>2. CASE f # "drift"
    BY <1>1, <2>2 DEF Says, Findings
  <2> QED BY <2>1, <2>2
<1> QED BY <1>2, <1>3 DEF Told

\* An entry that holds something else than the counter's value was tampered with.
LEMMA BadTold ==
  ASSUME CallShape, WitnessInv, clean, pc \in Hop, landed, mode = "logger",
         NEW expect \in Reads(incs[Here].len), NEW f \in BadReturn(calls[Here].last.ret, expect)
  PROVE  Told(f)
<1>1. incs[Here].len \in Nat /\ calls[Here].last.ret \in Int
  BY MineFacts DEF CallShape, CallerTypeOK, Entry
<1>2. \/ calls[Here].last.ret = incs[Here].len
      \/ calls[Here].last.ret = Empty /\ "empty" \in truth
      \/ calls[Here].last.ret = 0 /\ "wrong" \in truth
  BY DEF WitnessInv, EntryInv
<1>3. CASE calls[Here].last.ret = incs[Here].len
  BY <1>1, <1>3 DEF BadReturn, Reads, Empty
<1>4. CASE calls[Here].last.ret = Empty /\ "empty" \in truth
  BY <1>4, ToldFacts DEF BadReturn
<1>5. CASE calls[Here].last.ret = 0 /\ "wrong" \in truth
  BY <1>5, ToldFacts DEF BadReturn, Empty
<1> QED BY <1>2, <1>3, <1>4, <1>5

\* The verdicts, one by one: each new finding has its reason.
LEMMA AlarmBaseline ==
  ASSUME CallShape, WitnessInv, clean, JudgeBaseline, NEW f \in found' \ found
  PROVE  Told(f)
<1>1. PICK post \in Reads(incs[Here].len), n \in Reads(calls[Here].len) :
        LET last == calls[Here].last  bad == BadReturn(last.ret, post) IN
        /\ pc = "judge" /\ rc = "ok" /\ Combo = "a"
        /\ IF post = Unknown THEN Inconclusive
           ELSE IF post # pre + 1 THEN Fail({"not_applied"})
           ELSE IF n = Unknown THEN Inconclusive
           ELSE IF n <= base THEN Fail({"no_call"})
           ELSE IF bad # {} THEN Fail(bad)
           ELSE Booked(1, 0, 0) /\ found' = found \cup (IF last.who = "eoa" THEN {} ELSE {"sender"})
  BY DEF JudgeBaseline
<1>2. /\ mode = "logger" /\ landed /\ Caller = "eoa" /\ Entries = calls[Here]
  BY <1>1, ComboFacts DEF CallShape, Walk, Hop, WitnessInv, LandInv, Solo, Entries
<1>3. /\ calls[Here].len = base + 1 /\ incs[Here].len = pre + 1 /\ base \in Nat
      /\ calls[Here].last.who = "eoa"
  BY <1>1, <1>2, ComboFacts DEF WitnessInv, LandInv, EntryInv, Solo, Hop, CallShape, CallerTypeOK
<1>4. post # Unknown => post = pre + 1
  BY <1>1, <1>3 DEF Reads
<1>5. n # Unknown => ~(n <= base)
  BY <1>1, <1>3 DEF Reads
<1>6. f \in BadReturn(calls[Here].last.ret, post)
  BY <1>1, <1>3, <1>4, <1>5 DEF Fail, Inconclusive
<1> QED BY <1>1, <1>2, <1>6, BadTold DEF Hop

LEMMA AlarmEntry ==
  ASSUME CallShape, WitnessInv, clean, JudgeEntry, NEW f \in found' \ found
  PROVE  Told(f)
<1>1. PICK expect \in Reads(incs[Here].len) :
        found' = found \cup Drift \cup (IF mode = "logger" THEN BadReturn(got.ret, expect) ELSE {})
  BY DEF JudgeEntry
<1>2. /\ pc = "judge" /\ Combo \in {"b", "c"} /\ landed /\ got = Entries.last /\ Caller = "proxy"
  BY EntrySender, ComboFacts DEF JudgeEntry, CallShape
<1>3. CASE mode = "logger" /\ f \in BadReturn(got.ret, expect)
  BY <1>1, <1>2, <1>3, BadTold DEF Entries, Hop
<1>4. CASE f \in Drift
  <2>1. f = "drift" /\ seen[Combo] # {} /\ got.who \notin seen[Combo]
    BY <1>4 DEF Drift
  <2>2. ~strange => got.who = "proxy" /\ seen[Combo] \subseteq {"proxy"}
    BY <1>2 DEF WitnessInv, SenderInv, Hop
  <2>3. strange
    BY <2>1, <2>2
  <2> QED BY <2>1, <2>3, ToldFacts
<1> QED BY <1>1, <1>3, <1>4

LEMMA AlarmSettle ==
  ASSUME CallShape, ReceiptInv, clean, Settle, NEW f \in found' \ found
  PROVE  Told(f)
<1>1. /\ \A i \in 1 .. Len(observed) : observed[i] = "proxy" \/ "stranger" \in truth
      /\ observed \in Seq(Senders) /\ Len(observed) \in Nat
      /\ found' = found \cup (IF Mismatch THEN {"mismatch"} ELSE {})
                        \cup (IF Stable THEN {} ELSE {"unstable"})
  BY DEF Settle, ReceiptInv, CallShape, CallerTypeOK
<1>2. observed # <<>> => 1 \in 1 .. Len(observed)
  BY <1>1
<1>3. Mismatch => "stranger" \in truth
  BY <1>1, <1>2 DEF Mismatch
<1>4. ~Stable => "stranger" \in truth
  <2>1. \A i \in 1 .. Len(observed) : 1 \in 1 .. Len(observed)
    BY <1>1
  <2> QED BY <1>1, <2>1 DEF Stable
<1> QED BY <1>1, <1>3, <1>4, ToldFacts

LEMMA AlarmVerdict ==
  ASSUME CallShape, WitnessInv, ReceiptInv, clean, ~stopped, "blackout" \notin trouble,
         JudgeReceipt \/ JudgeUnapplied, NEW f \in found' \ found
  PROVE  Told(f)
<1>1. CASE JudgeReceipt
  <2>1. /\ pc = "judge" /\ rc # "ok" /\ (rc = "none" => "unmined" \in truth) /\ rc \in {"none", "reverted"}
        /\ rc # "none" => rc = receipt
    BY <1>1 DEF JudgeReceipt, CallShape, CallerTypeOK
  <2>2. rc # "none" => "revert" \in truth /\ (got # NoEntry => "partial" \in truth)
    BY <2>1 DEF WitnessInv, LandInv, ReceiptInv, Solo, Hop
  <2>3. f \in (IF rc = "none" THEN {"never_mined"}
               ELSE {"reverted"} \cup (IF got # NoEntry THEN {"partial"} ELSE {}))
    BY <1>1 DEF JudgeReceipt, Fail
  <2> QED BY <2>1, <2>2, <2>3, ToldFacts
<1>2. CASE JudgeUnapplied
  <2>1. "unapplied" \in truth
    BY <1>2 DEF JudgeUnapplied, ReceiptInv
  <2>2. f = "not_applied"
    BY <1>2 DEF JudgeUnapplied, Fail, Inconclusive
  <2> QED BY <2>1, <2>2, ToldFacts
<1> QED BY <1>1, <1>2

\* No step makes a finding that the chain has not earned.
LEMMA AlarmStep ==
  CallShape /\ WitnessInv /\ ReceiptInv /\ NoFalseAlarm /\ "blackout" \notin trouble /\ [CallerNext]_callerVars
    => NoFalseAlarm'
<1> SUFFICES ASSUME CallShape, WitnessInv, ReceiptInv, NoFalseAlarm, "blackout" \notin trouble,
                    [CallerNext]_callerVars, clean', ~stopped', NEW f \in found' \ {"unsent", "exception"}
             PROVE  Told(f)'
  BY DEF NoFalseAlarm, Told
<1>1. CASE StartCombo
  BY <1>1 DEF StartCombo
<1>2. CASE ~StartCombo
  <2>1. truth \subseteq truth' /\ (strange => strange') /\ clean /\ ~stopped
    <3>1. CASE Chain
      <4>1. UNCHANGED <<clean, stopped>> /\ (Lands \/ Decides)
        BY <3>1, ChainMoves DEF ChainStep, CallShape
      <4>2. truth \subseteq truth'
        BY <4>1 DEF Lands, LandsAs, Decides
      <4>3. strange' = strange \/ \E flaw \in FlawKinds : strange' = (strange \/ flaw = "stranger")
        BY <4>1 DEF Lands, LandsAs, Decides
      <4>4. strange => strange'
        BY <4>3, Zenon
      <4>5. clean' = clean /\ stopped' = stopped
        BY <4>1
      <4>6. clean /\ ~stopped
        BY <4>5, Zenon
      <4> QED BY <4>2, <4>4, <4>6, Zenon
    <3>2. CASE PreRead
      <4>1. UNCHANGED <<stopped, truth>> /\ clean' = (clean /\ due = {}) /\ strange' = (strange \/ due # {})
        BY <3>2 DEF PreRead, CallStep
      <4> QED BY <4>1, Zenon
    <3>3. CASE ~Chain /\ ~PreRead
      <4>1. UNCHANGED <<clean, strange>> /\ truth \subseteq truth'
        BY <1>2, <3>3, CallRests, CallStays
           DEF CallerNext, Worker, Finished, Send, SendRaises, Receipt, ComboRaises, AwaitEntry, JudgeReceipt,
               JudgeBaseline, JudgeUnapplied, JudgeEntry, Settle, JudgeStep
      <4>2. stopped' = stopped \/ ~stopped
        BY <1>2, <3>3, CallRests
           DEF CallerNext, Worker, Finished, Stop, callerVars, Send, SendRaises, Receipt, ComboRaises, AwaitEntry,
               JudgeReceipt, JudgeBaseline, JudgeUnapplied, JudgeEntry, Settle, JudgeStep, CallStep
      <4>3. clean' = clean /\ strange' = strange
        BY <4>1
      <4>4. clean /\ (strange => strange')
        BY <4>3, Zenon
      <4>5. ~stopped
        BY <4>2, Zenon
      <4> QED BY <4>1, <4>4, <4>5, Zenon
    <3> QED BY <3>1, <3>2, <3>3
  <2>2. f \in found => Told(f)
    BY <2>1 DEF NoFalseAlarm, Told
  <2>3. f \notin found => Told(f)
    <3>1. CASE Chain
      BY <3>1, ChainMoves DEF ChainStep, verdictVars, CallShape
    <3>2. CASE Deploy \/ DeployFails \/ DeployRaises \/ Retry \/ LeaveSuite \/ SkipCombo
      BY <3>2, CallRests DEF verdictVars
    <3>3. CASE PreRead \/ Send \/ SendRaises \/ Receipt \/ ComboRaises \/ AwaitEntry
      BY <3>3 DEF PreRead, Send, SendRaises, Receipt, ComboRaises, AwaitEntry, Fail, Inconclusive, verdictVars
    <3>4. CASE JudgeReceipt \/ JudgeUnapplied
      BY <2>1, <3>4, AlarmVerdict
    <3>5. CASE JudgeBaseline \/ JudgeEntry \/ Settle
      BY <2>1, <3>5, AlarmBaseline, AlarmEntry, AlarmSettle
    <3>6. CASE Stop \/ UNCHANGED callerVars
      BY <3>6, CallStays DEF verdictVars
    <3> QED BY <1>2, <3>1, <3>2, <3>3, <3>4, <3>5, <3>6 DEF CallerNext, Worker, Finished
  <2>4. found' \subseteq Findings
    BY CallStepped DEF CallShape
  <2> QED BY <2>1, <2>2, <2>3, <2>4, StillTold
<1> QED BY <1>1, <1>2

(***************************************************************************)
(* The variables of ContractCaller have their types in every reachable     *)
(* state: the observed senders are at most two, the verdicts of a          *)
(* combination are counted within their bounds, and an effect on its way   *)
(* belongs to a transaction that was sent.                                 *)
(***************************************************************************)
THEOREM CallerTypeCorrect == CallerSpec => []CallerTypeOK
<1>1. CallShape => CallerTypeOK
  BY DEF CallShape
<1> QED BY <1>1, CallInit, CallStepped, PTL DEF CallerSpec

\* All of it holds at first.
LEMMA WitnessInit == CallerInit => WitnessInv /\ ReceiptInv /\ NoFalseAlarm
BY DEF CallerInit, WitnessInv, LandInv, EntryInv, SenderInv, ReceiptInv, NoFalseAlarm, Hop

(***************************************************************************)
(* What contract_caller.py:28-30 and 938-943 promise of the reads: unless a*)
(* whole window of reads fails and the next read succeeds (the trouble     *)
(* "blackout", whose false alarm the run ContractCallerBlind shows), a     *)
(* finding of a combination that began with nothing on its way states what *)
(* the chain did to one of its transactions. It holds for any number of    *)
(* rounds and of late effects, because the base of a hop is read when      *)
(* nothing else can land.                                                  *)
(***************************************************************************)
THEOREM CallerAlarmCorrect ==
  ASSUME \A t \in Troubles : "blackout" \notin t
  PROVE  CallerSpec => []NoFalseAlarm
<1> DEFINE Kept == CallShape /\ WitnessInv /\ ReceiptInv /\ NoFalseAlarm
<1>1. CallShape => "blackout" \notin trouble
  BY DEF CallShape, CallerTypeOK
<1>2. CallerInit => Kept
  BY CallInit, WitnessInit
<1>3. Kept /\ [CallerNext]_callerVars => Kept'
  BY <1>1, CallStepped, WitnessStep, ReceiptStep, AlarmStep
<1>4. Kept => NoFalseAlarm
  OBVIOUS
<1> QED BY <1>2, <1>3, <1>4, PTL DEF CallerSpec

-----------------------------------------------------------------------------
\* What the chain did, step by step, and what a pass leaves open.
Alarmed == CallShape /\ WitnessInv /\ ReceiptInv

LEMMA TruthChain ==
  ASSUME Alarmed, TruthInv, Chain
  PROVE  TruthInv'
<1> USE DEF Alarmed
<1>1. CallerTypeOK /\ ChainStep /\ (Lands \/ Decides)
  BY ChainMoves DEF CallShape
<1>2. UNCHANGED <<stopped, trouble, pc, next, mode, base, pre, got, observed, clean, rc, book, Here, Caller, Combo,
                  Strangers>>
  BY <1>1 DEF ChainStep, placeVars, hopVars, verdictVars, Here, Caller, Combo, Strangers
<1>3. ASSUME clean, pc \in {"pre", "send"} PROVE FALSE
  BY <1>1, <1>3, Undecided DEF ReceiptInv, Still
<1>4. CASE clean /\ pc \in Hop
  <2>1. due \subseteq {Mine} /\ (landed => due = {})
    BY <1>4 DEF WitnessInv, LandInv, Solo
  <2>2. CASE Lands
    <3>1. ~landed /\ due # {}
      BY <2>1, <2>2 DEF Lands
    <3>2. PICK flaw \in FlawKinds :
             /\ truth' = truth \cup ({flaw} \ {"none"})
             /\ flaw = "stranger" => Entries'.last.who = "stranger"
             /\ flaw \in {"empty", "wrong"} => mode = "logger"
             /\ mode = "logger" /\ flaw = "empty" => calls'[Here].last.ret = Empty
             /\ mode = "logger" /\ flaw = "wrong" => calls'[Here].last.ret = 0
      BY <1>1, <2>1, <2>2, MineLands
    <3>3. landed' = TRUE /\ receipt \in {"none", "ok"}
      BY <1>1, <2>1, <2>2, MineLands
    <3>4. /\ "empty" \notin truth /\ "revert" \notin truth /\ "partial" \notin truth /\ "drop" \notin truth
          /\ "lost" \notin truth
          /\ "wrong" \in truth => mode = "direct" /\ book.inc > 0
          /\ "stranger" \in truth => Strangers
          /\ "unmined" \in truth => pc # "receipt" /\ rc = "none"
          /\ "unapplied" \in truth => pc = "judge" /\ got = NoEntry /\ Combo # "a"
      BY <1>4, <3>1, <3>3 DEF TruthInv
    <3> QED BY <1>2, <1>4, <3>2, <3>3, <3>4 DEF TruthInv, FlawKinds, Hop
  <2>3. CASE Decides
    <3>1. UNCHANGED <<calls, incs, landed>> /\ receipt = "none" /\ Entries' = Entries
      BY <1>1, <1>2, <2>1, <2>3, MineDecided DEF Entries
    <3>2. "revert" \notin truth /\ "partial" \notin truth /\ "drop" \notin truth /\ "lost" \notin truth
      BY <1>4, <3>1 DEF TruthInv
    <3>3. \/ truth' = truth
          \/ receipt' = "reverted" /\ truth' = truth \cup {"revert"}
          \/ receipt' = "dropped" /\ truth' = truth \cup {"drop"}
          \/ receipt' = "ok" /\ truth' = truth \cup {"lost"} /\ ~landed /\ due' = {}
          \/ landed /\ receipt' = "reverted" /\ truth' = truth \cup {"revert", "partial"}
      BY <1>1, <2>1, <2>3, MineDecided
    <3> QED BY <1>2, <1>4, <3>1, <3>2, <3>3 DEF TruthInv, Hop
  <2> QED BY <1>1, <2>2, <2>3
<1> QED BY <1>2, <1>3, <1>4 DEF TruthInv

\* A call that was found good.
LEMMA GoodCall ==
  ASSUME Alarmed, TruthInv, clean, pc = "judge", rc = "ok", landed, Combo = "a" \/ got # NoEntry
  PROVE  /\ receipt = "ok" /\ due = {} /\ truth \subseteq {"empty", "wrong", "stranger"}
         /\ "empty" \in truth => mode = "logger" /\ calls[Here].last.ret = Empty
         /\ "wrong" \in truth => \/ mode = "direct" /\ book.inc > 0
                                 \/ mode = "logger" /\ calls[Here].last.ret = 0
         /\ "stranger" \in truth => Strangers \/ (Entries.last.who = "stranger" /\ Combo # "a")
         /\ incs[Here].len = pre + 1 /\ pre \in Nat
<1>1. receipt = "ok" /\ truth \subseteq Truths /\ pre \in Nat
  BY DEF Alarmed, CallShape, CallerTypeOK
<1>2. due = {} /\ incs[Here].len = pre + 1
  BY DEF Alarmed, WitnessInv, LandInv, Solo, Hop
<1>3. Entries.last.who = "stranger" => Combo # "a"
  BY ComboFacts DEF Alarmed, WitnessInv, EntryInv, Hop, CallShape
<1>4. truth \subseteq {"empty", "wrong", "stranger"}
  BY <1>1 DEF TruthInv, Truths, Hop
<1> QED BY <1>1, <1>2, <1>3, <1>4 DEF TruthInv, Hop

\* A return that is found good is the counter's value, or the counter was not read.
LEMMA GoodReturn ==
  ASSUME Alarmed, clean, NEW n \in Nat, NEW expect \in Reads(n + 1), NEW ret, BadReturn(ret, expect) = {}
  PROVE  ret # Empty /\ (ret = 0 => expect = Unknown)
BY DEF BadReturn, Reads, Empty, Unknown

\* What is known once a hop has been found good.
LEMMA GoodEntry ==
  ASSUME Alarmed, TruthInv, clean, JudgeEntry, Len(observed') # Len(observed)
  PROVE  /\ Still /\ truth \subseteq {"stranger", "wrong"}
         /\ "stranger" \in truth => Strangers'
         /\ "wrong" \in truth => book'.inc > 0
<1>1. CallShape
  BY DEF Alarmed
<1>2. PICK expect \in Reads(incs[Here].len) :
        /\ pc = "judge" /\ rc = "ok" /\ Combo # "a" /\ got # NoEntry
        /\ Booked(0, IF (IF mode = "logger" THEN BadReturn(got.ret, expect) ELSE {}) = {} THEN 0 ELSE 1,
                  IF mode = "logger" /\ expect = Unknown THEN 1 ELSE 0)
        /\ IF (IF mode = "logger" THEN BadReturn(got.ret, expect) ELSE {}) = {}
             THEN observed' = Append(observed, got.who) ELSE UNCHANGED <<mode, observed>>
  BY DEF JudgeEntry
<1>3. /\ mode = "logger" => BadReturn(got.ret, expect) = {}
      /\ observed' = Append(observed, got.who)
      /\ Booked(0, 0, IF mode = "logger" /\ expect = Unknown THEN 1 ELSE 0)
  BY <1>2
<1>4. Still /\ landed /\ got = Entries.last
  BY <1>1, EntrySender DEF Alarmed
<1>5. /\ truth \subseteq {"empty", "wrong", "stranger"}
      /\ "empty" \in truth => mode = "logger" /\ calls[Here].last.ret = Empty
      /\ "wrong" \in truth => \/ mode = "direct" /\ book.inc > 0
                              \/ mode = "logger" /\ calls[Here].last.ret = 0
      /\ "stranger" \in truth => Strangers \/ Entries.last.who = "stranger"
      /\ incs[Here].len = pre + 1 /\ pre \in Nat
  BY <1>2, <1>4, GoodCall
<1>6. mode = "logger" => /\ got = calls[Here].last /\ got.ret # Empty
                         /\ got.ret = 0 => expect = Unknown
  BY <1>2, <1>3, <1>4, <1>5, GoodReturn DEF Entries
<1>7. truth \subseteq {"stranger", "wrong"}
  BY <1>5, <1>6
<1>8. "wrong" \in truth => book'.inc > 0
  <2>1. /\ pc \in Walk /\ book.pass + 0 <= 2 /\ book.fail + 0 <= 2 /\ book.inc \in Nat /\ book.inc <= 1
        /\ book.pass = 0 /\ book.fail = 0
    BY <1>1, <1>2, Counted DEF Walk, Hop
  <2>2. \E i \in {0, 1} : /\ Booked(0, 0, i) /\ book.inc + i <= 3
                          /\ mode = "logger" /\ expect = Unknown => i = 1
    BY <1>3, <2>1
  <2>3. \E i \in {0, 1} : /\ book'.inc = book.inc + i
                          /\ mode = "logger" /\ expect = Unknown => i = 1
    BY <1>1, <2>1, <2>2, Counting
  <2> QED BY <1>5, <1>6, <2>1, <2>3
<1>9. "stranger" \in truth => Strangers'
  <2>1. observed \in Seq(Senders)
    BY <1>1 DEF CallShape, CallerTypeOK
  <2>2. /\ Len(observed') \in Nat /\ Len(observed') \in 1 .. Len(observed') /\ observed'[Len(observed')] = got.who
        /\ \A i \in 1 .. Len(observed) : i \in 1 .. Len(observed') /\ observed'[i] = observed[i]
    BY <1>3, <2>1
  <2>3. Strangers => Strangers'
    BY <2>2 DEF Strangers
  <2>4. got.who = "stranger" => Strangers'
    BY <2>2 DEF Strangers
  <2> QED BY <1>4, <1>5, <2>3, <2>4
<1> QED BY <1>4, <1>7, <1>8, <1>9

LEMMA TruthWorker ==
  ASSUME Alarmed, TruthInv, Worker
  PROVE  TruthInv'
<1>0. CallShape
  BY DEF Alarmed
<1>1. CASE Deploy \/ DeployFails \/ DeployRaises \/ Retry \/ LeaveSuite \/ SkipCombo
  BY <1>0, <1>1, CallRests DEF TruthInv, Rests, Hop
<1>2. CASE StartCombo
  BY <1>2 DEF StartCombo, Goto, TruthInv, Hop
<1>3. CASE PreRead
  <2>1. /\ pc = "pre" /\ clean' = (clean /\ due = {}) /\ UNCHANGED <<mode, observed, truth>>
        /\ (AfterHop \/ (pc' = "send" /\ book' = book))
    BY <1>3 DEF PreRead
  <2>2. pc' \in {"settle", "combo", "idle"} \/ (pc' = "send" /\ book' = book)
    BY <1>0, <2>1, Leaving
  <2>3. Strangers' = Strangers
    BY <2>1 DEF Strangers
  <2> QED BY <2>1, <2>2, <2>3 DEF TruthInv, Hop
<1>4. CASE Send
  <2>1. /\ pc = "send" /\ pc' = "receipt" /\ UNCHANGED <<clean, mode, observed, truth, book>>
    BY <1>4 DEF Send, Goto, verdictVars
  <2>2. Strangers' = Strangers
    BY <2>1 DEF Strangers
  <2> QED BY <2>1, <2>2 DEF TruthInv, Hop
<1>5. CASE SendRaises \/ ComboRaises \/ JudgeReceipt \/ JudgeBaseline \/ JudgeUnapplied \/ Settle
  <2>1. pc' \in {"settle", "combo", "idle"}
    BY <1>0, <1>5, Leaving DEF SendRaises, ComboRaises, JudgeReceipt, JudgeBaseline, JudgeUnapplied, Settle
  <2> QED BY <2>1 DEF TruthInv, Hop
<1>6. CASE Receipt
  <2>1. /\ pc = "receipt" /\ pc' \in {"await", "judge"}
        /\ truth' = truth \cup (IF rc' = "none" THEN {"unmined"} ELSE {})
        /\ UNCHANGED <<calls, incs, due, receipt, landed, next, mode, observed, clean, book>>
    BY <1>6 DEF Receipt, chainVars, placeVars, verdictVars
  <2>2. UNCHANGED <<Strangers, Entries, Here>>
    BY <2>1 DEF Strangers, Entries, Here, Combo
  <2> QED BY <2>1, <2>2 DEF TruthInv, Hop
<1>7. CASE AwaitEntry
  <2>1. /\ pc = "await" /\ pc' = "judge"
        /\ truth' = truth \/ (truth' = truth \cup {"unapplied"} /\ got' = NoEntry)
        /\ UNCHANGED <<calls, incs, due, receipt, landed, next, mode, observed, clean, book, rc>>
    BY <1>7 DEF AwaitEntry, Goto, chainVars, placeVars, verdictVars
  <2>2. UNCHANGED <<Strangers, Entries, Here, Combo>>
    BY <2>1 DEF Strangers, Entries, Here, Combo
  <2>3. Combo # "a"
    BY <1>0, <2>1 DEF CallShape
  <2>4. clean => "unapplied" \notin truth
    BY <2>1 DEF TruthInv, Hop
  <2> QED BY <2>1, <2>2, <2>3, <2>4 DEF TruthInv, Hop
<1>8. CASE JudgeEntry
  <2>1. /\ pc' = "settle" \/ (pc' = "pre" /\ mode' = "direct" /\ observed' = Append(observed, got.who))
        /\ UNCHANGED <<clean, truth>>
    BY <1>8 DEF JudgeEntry, NextHop, JudgeStep
  <2>2. pc' = "pre" => Len(observed') # Len(observed)
    <3>1. observed \in Seq(Senders)
      BY <1>0 DEF CallShape, CallerTypeOK
    <3> QED BY <2>1, <3>1
  <2> QED BY <1>8, <2>1, <2>2, GoodEntry DEF TruthInv, Hop
<1> QED BY <1>1, <1>2, <1>3, <1>4, <1>5, <1>6, <1>7, <1>8 DEF Worker

\* A pass is settled: the chain has no more to say.
LEMMA PassChain ==
  ASSUME Alarmed, PassInv, Chain
  PROVE  PassInv'
<1>1. CallerTypeOK /\ ChainStep
  BY ChainMoves DEF Alarmed, CallShape
<1>2. UNCHANGED <<pc, observed, clean, book, expected>>
  BY <1>1 DEF ChainStep, hopVars, verdictVars
<1>3. ~Still
  BY <1>1, Undecided DEF Still
<1> QED BY <1>2, <1>3 DEF PassInv

\* The baseline passes.
LEMMA PassBaseline ==
  ASSUME Alarmed, TruthInv, clean, JudgeBaseline, book'.pass > 0
  PROVE  Still /\ truth = {}
<1>1. PICK post \in Reads(incs[Here].len), n \in Reads(calls[Here].len) :
        LET last == calls[Here].last  bad == BadReturn(last.ret, post) IN
        /\ pc = "judge" /\ rc = "ok" /\ Combo = "a"
        /\ IF post = Unknown THEN Inconclusive
           ELSE IF post # pre + 1 THEN Fail({"not_applied"})
           ELSE IF n = Unknown THEN Inconclusive
           ELSE IF n <= base THEN Fail({"no_call"})
           ELSE IF bad # {} THEN Fail(bad)
           ELSE Booked(1, 0, 0) /\ found' = found \cup (IF last.who = "eoa" THEN {} ELSE {"sender"})
  BY DEF JudgeBaseline
<1>2. CallShape /\ pc \in Walk
  BY <1>1 DEF Alarmed, Walk, Hop
<1>3. ~Booked(0, 1, 0) /\ ~Booked(0, 0, 1)
  <2>1. book.pass = 0 /\ book.fail = 0 /\ book.inc \in Nat /\ book.inc <= 1
    BY <1>2, Counted
  <2> QED BY <1>2, <2>1, Counting
<1>4. post # Unknown /\ BadReturn(calls[Here].last.ret, post) = {}
  BY <1>1, <1>3 DEF Fail, Inconclusive
<1>5. mode = "logger" /\ observed = <<>>
  <2>1. mode = "logger" /\ Len(observed) = 0 /\ observed \in Seq(Senders)
    BY <1>1, <1>2 DEF CallShape, CallerTypeOK
  <2> QED BY <2>1
<1>6. landed
  BY <1>1, <1>2 DEF Alarmed, WitnessInv, LandInv, Solo, Hop, CallShape
<1>7. /\ receipt = "ok" /\ due = {} /\ truth \subseteq {"empty", "wrong", "stranger"}
      /\ "empty" \in truth => calls[Here].last.ret = Empty
      /\ "wrong" \in truth => calls[Here].last.ret = 0
      /\ "stranger" \in truth => Strangers
      /\ incs[Here].len = pre + 1 /\ pre \in Nat
  BY <1>1, <1>5, <1>6, GoodCall
<1>8. "stranger" \notin truth
  BY <1>5, <1>7 DEF Strangers
<1>9. calls[Here].last.ret # Empty /\ calls[Here].last.ret # 0
  BY <1>1, <1>4, <1>7, GoodReturn
<1> QED BY <1>7, <1>8, <1>9 DEF Still

\* The identity is settled, and passes.
LEMMA PassSettle ==
  ASSUME Alarmed, PassInv, clean, Settle, book'.pass > 0
  PROVE  /\ Still /\ book' = [book EXCEPT !.pass = book'.pass]
         /\ truth \subseteq (IF expected THEN {} ELSE {"stranger"}) \cup (IF book.inc > 0 THEN {"wrong"} ELSE {})
<1>1. /\ pc = "settle" /\ Settlement /\ book.pass = 0 /\ book.inc \in 0 .. 3 /\ book.fail \in 0 .. 2
      /\ observed \in Seq(Senders) /\ Len(observed) \in Nat /\ Len(observed) <= 2
      /\ book \in [pass : 0 .. 2, fail : 0 .. 2, inc : 0 .. 3]
  BY DEF Alarmed, CallShape, CallerTypeOK, Settle
<1>2. \A f \in Nat, i \in Nat : ~Booked(0, f, i)
  BY <1>1 DEF Booked
<1>3. /\ ~Mismatch /\ Stable /\ Len(observed) # 1 /\ Booked(Len(observed), 0, 0)
  BY <1>1, <1>2 DEF Settlement
<1>4. Len(observed) = 2
  <2>1. \A n \in Nat : n <= 2 /\ n # 1 => n \in {0, 2}
    OBVIOUS
  <2>2. Len(observed) # 0
    BY <1>2, <1>3
  <2> QED BY <1>1, <1>3, <2>1, <2>2
<1>5. Still /\ truth \subseteq {"stranger", "wrong"} /\ ("stranger" \in truth => Strangers)
      /\ ("wrong" \in truth => book.inc > 0)
  BY <1>1, <1>4 DEF PassInv
<1>6. Strangers => ~expected
  <2>1. Strangers => observed[1] # "proxy"
    BY <1>3 DEF Strangers, Stable
  <2> QED BY <1>3, <1>4, <2>1 DEF Mismatch
<1>7. book' = [book EXCEPT !.pass = book'.pass]
  BY <1>1, <1>3 DEF Booked
<1> QED BY <1>5, <1>6, <1>7

LEMMA PassWorker ==
  ASSUME Alarmed, TruthInv, PassInv, Worker
  PROVE  PassInv'
<1>0. CallShape /\ CallShape'
  BY CallStepped DEF Alarmed, CallerNext
<1>1. CASE Deploy \/ DeployFails \/ DeployRaises \/ Retry \/ LeaveSuite \/ SkipCombo
  <2>1. /\ pc' # "settle" /\ (due = {} => due' = {})
        /\ UNCHANGED <<receipt, landed, book, expected, clean, truth>>
    BY <1>0, <1>1, CallRests DEF hopVars, verdictVars, Rests
  <2> QED BY <2>1 DEF PassInv, Still
<1>2. CASE StartCombo \/ Send \/ Receipt \/ AwaitEntry
  <2>1. pc' \in Walk
    BY <1>2 DEF StartCombo, Send, Receipt, AwaitEntry, Goto, Walk, Hop
  <2> QED BY <1>0, <2>1 DEF PassInv, CallShape, Walk, Hop
<1>3. CASE PreRead \/ SendRaises \/ ComboRaises \/ JudgeReceipt \/ JudgeUnapplied
  <2>1. pc \in Walk /\ observed' = observed
        /\ \/ Booked(0, 0, 1) \/ Booked(0, 1, 0) \/ book' = book
    BY <1>3 DEF PreRead, SendRaises, ComboRaises, JudgeReceipt, JudgeUnapplied, Fail, Inconclusive, Walk, Hop
  <2>2. book'.pass = 0 /\ Len(observed') # 2
    <3>1. /\ book.pass = 0 /\ book.fail = 0 /\ book.inc \in Nat /\ book.inc <= 1 /\ Len(observed) \in {0, 1}
      BY <1>0, <2>1, Counted
    <3>2. Booked(0, 0, 1) => book'.pass = 0
      BY <1>0, <3>1, Counting
    <3>3. Booked(0, 1, 0) => book'.pass = 0
      BY <1>0, <3>1, Counting
    <3>4. book' = book => book'.pass = 0
      BY <3>1
    <3>5. Len(observed') # 2
      <4>1. Len(observed) # 2
        <5>1. CASE Len(observed) = 0
          BY <5>1
        <5>2. CASE Len(observed) = 1
          BY <5>2
        <5> QED BY <3>1, <5>1, <5>2
      <4>2. observed' = observed
        BY <2>1
      <4> QED BY <4>1, <4>2, Zenon
    <3> QED BY <2>1, <3>2, <3>3, <3>4, <3>5, Zenon
  <2> QED BY <2>2 DEF PassInv
<1>4. CASE JudgeBaseline
  <2>1. /\ pc' # "settle" /\ UNCHANGED <<due, receipt, landed, truth, clean>>
    <3>1. /\ pc = "judge" /\ AfterCombo /\ UNCHANGED <<due, receipt, landed, truth, clean>>
      BY <1>4 DEF JudgeBaseline, JudgeStep, chainVars
    <3> QED BY <1>0, <3>1, Leaving
  <2> QED BY <1>4, <2>1, PassBaseline DEF PassInv, Still
<1>5. CASE JudgeEntry
  <2>1. /\ pc' \in {"settle", "pre"} /\ UNCHANGED <<due, receipt, landed, truth, clean>> /\ pc = "judge"
    BY <1>5 DEF JudgeEntry, NextHop, JudgeStep, chainVars
  <2>2. book'.pass = 0 /\ Len(observed) # 2
    BY <1>0, <2>1, Counted, SMTT(30) DEF CallShape, Walk, Hop
  <2> QED BY <1>5, <2>1, <2>2, GoodEntry DEF PassInv, Still
<1>6. CASE Settle
  <2>1. pc' # "settle" /\ UNCHANGED <<due, receipt, landed, truth, clean, expected>>
    <3>1. /\ pc = "settle" /\ AfterCombo /\ UNCHANGED <<due, receipt, landed, truth, clean, expected>>
      BY <1>6 DEF Settle, JudgeStep, chainVars
    <3> QED BY <1>0, <3>1, Leaving
  <2>2. ASSUME clean, book'.pass > 0 PROVE book'.inc = book.inc
    BY <1>0, <1>6, <2>2, PassSettle DEF CallShape, CallerTypeOK
  <2> QED BY <1>6, <2>1, <2>2, PassSettle DEF PassInv, Still
<1> QED BY <1>1, <1>2, <1>3, <1>4, <1>5, <1>6 DEF Worker

Passed == Alarmed /\ TruthInv /\ PassInv

LEMMA PassStep == Passed /\ [CallerNext]_callerVars => Passed'
<1>1. ASSUME Alarmed, [CallerNext]_callerVars PROVE Alarmed'
  BY <1>1, CallStepped, WitnessStep, ReceiptStep DEF Alarmed
<1>2. ASSUME Passed, Stop \/ UNCHANGED callerVars PROVE TruthInv' /\ PassInv'
  <2>1. UNCHANGED <<calls, incs, due, receipt, landed, pc, next, mode, got, rc, observed, clean, truth, book, expected>>
    BY <1>2, CallStays DEF Passed, Alarmed, chainVars, placeVars, hopVars, verdictVars
  <2>2. UNCHANGED <<Still, Strangers, Entries, Here, Combo>>
    BY <2>1 DEF Still, Strangers, Entries, Here, Combo
  <2> QED BY <1>2, <2>1, <2>2 DEF Passed, TruthInv, PassInv
<1> QED BY <1>1, <1>2, TruthChain, TruthWorker, PassChain, PassWorker DEF Passed, CallerNext, Finished

LEMMA PassInit == CallerInit => Passed
<1>1. CallerInit => TruthInv
  BY DEF CallerInit, TruthInv, Hop
<1>2. CallerInit => PassInv
  BY DEF CallerInit, PassInv, NoVerdict
<1> QED BY <1>1, <1>2, CallInit, WitnessInit DEF Passed, Alarmed

(***************************************************************************)
(* "An unknown is not a pass" (contract_caller.py:106-107, 843-855): a     *)
(* combination that is booked as passed had its calls mined, applied,      *)
(* answered and sent by the computed proxy, whatever else may go wrong, and*)
(* even if the run is stopped meanwhile.                                   *)
(***************************************************************************)
THEOREM PassCorrect == CallerSpec => []PassMeansDelivered
<1>1. Passed => PassMeansDelivered
  BY DEF Passed, PassInv, PassMeansDelivered
<1> QED BY <1>1, PassInit, PassStep, PTL DEF CallerSpec

-----------------------------------------------------------------------------
\* What goes wrong is found.
LEMMA QuietFacts ==
  ASSUME Quiet
  PROVE  /\ clean /\ ~stopped /\ ~WindowOver
         /\ "readFails" \notin trouble /\ "blackout" \notin trouble /\ "sendFails" \notin trouble
         /\ "pollRaises" \notin trouble
         /\ \A v : Reads(v) = {v}
BY DEF Quiet, WindowOver, Reads

LEMMA HeardChain ==
  ASSUME Passed, HeardInv, Chain, Quiet
  PROVE  HeardInv'
<1> USE DEF Passed, Alarmed
<1>1. CallerTypeOK /\ ChainStep /\ (Lands \/ Decides)
  BY ChainMoves DEF CallShape
<1>2. UNCHANGED <<pc, next, got, rc, readable, book, Combo>>
  BY <1>1 DEF ChainStep, placeVars, hopVars, verdictVars, Combo
<1>3. ~Still
  BY <1>1, Undecided DEF Still
<1>4. pc \notin Between /\ pc \notin {"pre", "send", "judge"}
  BY <1>3, QuietFacts DEF HeardInv, ReceiptInv, Still
<1>5. ASSUME pc \in Hop
      PROVE  /\ receipt # "none" => receipt' # "none"
             /\ receipt = "dropped" => FALSE
             /\ receipt' = "dropped" => ~landed'
  <2>1. due \subseteq {Mine} /\ (landed => due = {})
    BY <1>5, QuietFacts DEF WitnessInv, LandInv, Solo
  <2>2. CASE Lands
    BY <1>1, <2>1, <2>2, MineLands
  <2>3. CASE Decides
    BY <1>1, <2>1, <2>3, MineDecided
  <2> QED BY <1>1, <2>2, <2>3
<1> QED BY <1>2, <1>4, <1>5 DEF HeardInv, Hop

\* A call that took effect leaves nothing on its way.
LEMMA HeardCall ==
  ASSUME Passed, HeardInv, Quiet, pc = "judge", rc = "ok", landed
  PROVE  /\ Still /\ truth \subseteq {"empty", "wrong", "stranger"} /\ mode \in {"logger", "direct"}
         /\ "empty" \in truth => mode = "logger" /\ calls[Here].last.ret = Empty
         /\ "wrong" \in truth => mode = "logger" /\ calls[Here].last.ret = 0
         /\ incs[Here].len = pre + 1 /\ pre \in Nat /\ book.inc = 0
<1>1. CallShape /\ Alarmed /\ TruthInv /\ clean
  BY QuietFacts DEF Passed, Alarmed
<1>2. Combo = "a" \/ got # NoEntry
  BY <1>1, ComboFacts DEF HeardInv, CallShape
<1>3. book.inc = 0
  BY DEF HeardInv, Walk, Hop
<1>4. mode \in {"logger", "direct"}
  BY <1>1 DEF CallShape, CallerTypeOK
<1> QED BY <1>1, <1>2, <1>3, <1>4, GoodCall DEF Still

\* What was returned wrongly is said so.
LEMMA HeardReturn ==
  ASSUME NEW n \in Nat, NEW ret, ret = Empty \/ ret = 0
  PROVE  BadReturn(ret, n + 1) = (IF ret = Empty THEN {"empty"} ELSE {"disagrees"})
BY DEF BadReturn, Empty, Unknown

\* The verdicts, one by one: each fault has its finding.
LEMMA HeardBaseline ==
  ASSUME Passed, HeardInv, Quiet, JudgeBaseline
  PROVE  Still /\ \A t \in truth \intersect Wrongs : \E f \in found' : t \in Says(f)
<1>1. CallShape /\ clean
  BY QuietFacts DEF Passed, Alarmed
<1>2. PICK post \in Reads(incs[Here].len), n \in Reads(calls[Here].len) :
        LET last == calls[Here].last  bad == BadReturn(last.ret, post) IN
        /\ pc = "judge" /\ rc = "ok" /\ Combo = "a"
        /\ IF post = Unknown THEN Inconclusive
           ELSE IF post # pre + 1 THEN Fail({"not_applied"})
           ELSE IF n = Unknown THEN Inconclusive
           ELSE IF n <= base THEN Fail({"no_call"})
           ELSE IF bad # {} THEN Fail(bad)
           ELSE Booked(1, 0, 0) /\ found' = found \cup (IF last.who = "eoa" THEN {} ELSE {"sender"})
  BY DEF JudgeBaseline
<1>3. landed /\ mode = "logger"
  BY <1>1, <1>2 DEF Passed, Alarmed, WitnessInv, LandInv, Solo, Walk, Hop, CallShape
<1>4. /\ Still /\ truth \subseteq {"empty", "wrong", "stranger"}
      /\ "empty" \in truth => calls[Here].last.ret = Empty
      /\ "wrong" \in truth => calls[Here].last.ret = 0
      /\ incs[Here].len = pre + 1 /\ pre \in Nat
  BY <1>2, <1>3, HeardCall
<1>5. calls[Here].len = base + 1 /\ base \in Nat
  BY <1>1, <1>2, <1>3 DEF Passed, Alarmed, WitnessInv, LandInv, Solo, Hop, Entries, CallShape, CallerTypeOK
<1>6. /\ post = pre + 1 /\ post # Unknown /\ n = base + 1 /\ n # Unknown /\ ~(n <= base)
  BY <1>2, <1>4, <1>5, QuietFacts DEF Unknown
<1>7. ASSUME BadReturn(calls[Here].last.ret, post) # {}
      PROVE  BadReturn(calls[Here].last.ret, post) \subseteq found'
  BY <1>2, <1>6, <1>7 DEF Fail
<1>8. "empty" \in truth => "empty" \in found'
  BY <1>4, <1>6, <1>7, HeardReturn
<1>9. "wrong" \in truth => "disagrees" \in found'
  BY <1>4, <1>6, <1>7, HeardReturn DEF Empty
<1> QED BY <1>4, <1>8, <1>9 DEF Wrongs, Says

LEMMA HeardEntry ==
  ASSUME Passed, HeardInv, Quiet, JudgeEntry
  PROVE  /\ Still /\ "partial" \notin truth
         /\ \A t \in truth \intersect Wrongs : \E f \in found' : t \in Says(f)
         /\ pc' = "pre" => book'.inc = 0
<1>1. CallShape /\ clean
  BY QuietFacts DEF Passed, Alarmed
<1>2. PICK expect \in Reads(incs[Here].len) :
        LET bad == IF mode = "logger" THEN BadReturn(got.ret, expect) ELSE {} IN
        /\ pc = "judge" /\ rc = "ok" /\ Combo # "a" /\ got # NoEntry
        /\ found' = found \cup Drift \cup bad
        /\ Booked(0, IF bad = {} THEN 0 ELSE 1, IF mode = "logger" /\ expect = Unknown THEN 1 ELSE 0)
        /\ bad # {} => pc' = "settle"
  BY DEF JudgeEntry
<1>3. landed /\ got = Entries.last
  BY <1>1, EntrySender DEF Passed, Alarmed
<1>4. /\ Still /\ truth \subseteq {"empty", "wrong", "stranger"}
      /\ "empty" \in truth => mode = "logger" /\ calls[Here].last.ret = Empty
      /\ "wrong" \in truth => mode = "logger" /\ calls[Here].last.ret = 0
      /\ incs[Here].len = pre + 1 /\ pre \in Nat /\ book.inc = 0
  BY <1>2, <1>3, HeardCall
<1>5. expect = pre + 1 /\ expect # Unknown
  BY <1>2, <1>4, QuietFacts DEF Unknown
<1>6. mode = "logger" => got.ret = calls[Here].last.ret /\ BadReturn(got.ret, expect) \subseteq found'
  BY <1>2, <1>3 DEF Entries
<1>7. "empty" \in truth => "empty" \in found'
  BY <1>4, <1>5, <1>6, HeardReturn
<1>8. "wrong" \in truth => "disagrees" \in found'
  BY <1>4, <1>5, <1>6, HeardReturn DEF Empty
<1>9. pc' = "pre" => book'.inc = 0
  <2>1. pc' = "pre" => Booked(0, 0, 0)
    BY <1>2, <1>5
  <2> QED BY <1>1, <1>4, <2>1 DEF Booked, CallShape, CallerTypeOK
<1> QED BY <1>4, <1>7, <1>8, <1>9 DEF Wrongs, Says

LEMMA HeardVerdict ==
  ASSUME Passed, HeardInv, Quiet, JudgeReceipt \/ JudgeUnapplied
  PROVE  /\ Still
         /\ \A t \in truth \intersect Wrongs : \E f \in found' : t \in Says(f)
         /\ Combo = "c" /\ "partial" \in truth => "partial" \in found'
<1>1. CallShape /\ clean
  BY QuietFacts DEF Passed, Alarmed
<1>2. /\ pc = "judge" /\ due = {} /\ receipt # "none" /\ (rc = "none" => receipt = "dropped" /\ ~landed)
      /\ (rc # "none" => rc = receipt) /\ book.inc = 0
      /\ landed /\ (Combo = "c" \/ (Combo = "b" /\ rc = "ok")) => got # NoEntry
  BY <1>1 DEF JudgeReceipt, JudgeUnapplied, HeardInv, CallShape, Walk, Hop
<1>3. /\ "empty" \in truth \/ "wrong" \in truth \/ "partial" \in truth => landed
      /\ "revert" \in truth \/ "partial" \in truth => receipt = "reverted"
      /\ "drop" \in truth => receipt = "dropped"
      /\ "lost" \in truth => receipt = "ok"
  BY <1>1, <1>2 DEF Passed, TruthInv, Hop
<1>4. CASE JudgeReceipt
  <2>1. /\ rc # "ok"
        /\ found' = found \cup (IF rc = "none" THEN {"never_mined"}
                                ELSE {"reverted"} \cup (IF got # NoEntry THEN {"partial"} ELSE {}))
    BY <1>4 DEF JudgeReceipt, Fail
  <2>2. CASE rc = "none"
    BY <1>2, <1>3, <2>1, <2>2 DEF Wrongs, Says, Still
  <2>3. CASE rc # "none"
    <3>1. receipt = "reverted" /\ "revert" \in truth
      BY <1>1, <1>2, <2>1, <2>3 DEF Passed, Alarmed, ReceiptInv, Hop, CallShape, CallerTypeOK
    <3> QED BY <1>2, <1>3, <2>1, <2>3, <3>1 DEF Wrongs, Says, Still
  <2> QED BY <2>2, <2>3
<1>5. CASE JudgeUnapplied
  <2>1. rc = "ok" /\ Combo \in {"b", "c"} /\ got = NoEntry /\ ~landed
    BY <1>1, <1>2, <1>5, ComboFacts DEF JudgeUnapplied, CallShape
  <2>2. found' = found \cup {"not_applied"}
    BY <1>2, <1>5, <2>1 DEF JudgeUnapplied, Fail, HeardInv
  <2> QED BY <1>2, <1>3, <2>1, <2>2 DEF Wrongs, Says, Still
<1> QED BY <1>4, <1>5

LEMMA HeardWorker ==
  ASSUME Passed, HeardInv, Worker, Quiet'
  PROVE  HeardInv'
<1>0. CallShape /\ CallShape'
  BY CallStepped DEF Passed, Alarmed, CallerNext
<1>1. CASE StartCombo
  <2>1. pc' = "pre" /\ book'.inc = 0
    BY <1>1 DEF StartCombo, Goto, NoVerdict
  <2> QED BY <2>1 DEF HeardInv, Walk, Hop, Between
<1>2. CASE ~StartCombo
  <2>1. /\ trouble' = trouble /\ stopped' = stopped
        /\ (clean' = clean \/ clean' = (clean /\ due = {}))
    <3>1. CASE Deploy \/ DeployFails \/ DeployRaises \/ Retry \/ LeaveSuite \/ SkipCombo
      BY <1>0, <3>1, CallRests
    <3>2. CASE PreRead \/ Send \/ SendRaises \/ Receipt \/ ComboRaises \/ AwaitEntry
      BY <3>2 DEF PreRead, Send, SendRaises, Receipt, ComboRaises, AwaitEntry, CallStep
    <3>3. CASE JudgeReceipt \/ JudgeBaseline \/ JudgeUnapplied \/ JudgeEntry \/ Settle
      BY <3>3 DEF JudgeReceipt, JudgeBaseline, JudgeUnapplied, JudgeEntry, Settle, JudgeStep, CallStep
    <3> QED BY <1>2, <3>1, <3>2, <3>3 DEF Worker
  <2>2. Quiet
    <3>1. clean
      BY <2>1, Zenon DEF Quiet
    <3>2. ~stopped
      BY <2>1, Zenon DEF Quiet
    <3> QED BY <2>1, <3>1, <3>2 DEF Quiet
  <2>3. CASE Deploy \/ DeployFails \/ DeployRaises \/ Retry \/ LeaveSuite \/ SkipCombo
    <3>1. /\ pc \in Rests /\ pc' \in Rests /\ (due = {} => due' = {})
          /\ UNCHANGED <<receipt, landed, truth, found, strange>>
      BY <1>0, <2>3, CallRests DEF verdictVars
    <3> QED BY <2>2, <3>1, ZenonT(40) DEF HeardInv, Heard, Wrongs, Says, Still, Rests, Walk, Hop, Between
  <2>4. CASE PreRead
    <3>1. /\ pc = "pre" /\ \E n \in Reads(Entries.len) : IF n = Unknown THEN TRUE ELSE pc' = "send" /\ book' = book
      BY <2>4 DEF PreRead
    <3>2. Entries.len # Unknown
      BY <1>0, MineFacts DEF Unknown, CallShape
    <3>3. pc' = "send" /\ book' = book
      BY <2>2, <3>1, <3>2, QuietFacts
    <3> QED BY <2>2, <3>1, <3>3 DEF HeardInv, Walk, Hop, Between
  <2>5. CASE Send
    <3>1. pc = "send" /\ pc' = "receipt" /\ book' = book /\ landed' = FALSE
      BY <2>5 DEF Send, Goto, Broadcast, verdictVars
    <3> QED BY <2>2, <3>1 DEF HeardInv, Walk, Hop, Between
  <2>6. CASE SendRaises \/ ComboRaises
    BY <2>2, <2>6, QuietFacts DEF SendRaises, ComboRaises
  <2>7. CASE Receipt
    <3>1. /\ pc = "receipt" /\ book' = book /\ UNCHANGED <<due, receipt, landed, Combo>>
          /\ \/ receipt \in {"ok", "reverted"} /\ rc' = receipt
             \/ receipt = "dropped" /\ rc' = "none"
          /\ pc' = (IF Combo = "c" \/ (Combo = "b" /\ rc' = "ok") THEN "await" ELSE "judge")
      BY <2>2, <2>7, QuietFacts DEF Receipt, chainVars, placeVars, verdictVars, Combo
    <3>2. pc' = "judge" /\ rc' = "ok" => Combo = "a"
      BY <1>0, <3>1, ComboFacts DEF CallShape
    <3>3. pc' = "judge" => due = {}
      BY <1>0, <2>2, <3>1, <3>2, QuietFacts DEF Passed, Alarmed, WitnessInv, LandInv, Solo, Hop
    <3>4. pc' = "judge" /\ landed /\ (Combo = "c" \/ (Combo = "b" /\ rc' = "ok")) => FALSE
      BY <3>1
    <3> QED BY <2>2, <3>1, <3>2, <3>3, <3>4 DEF HeardInv, Walk, Hop, Between
  <2>8. CASE AwaitEntry
    <3>1. /\ pc = "await" /\ pc' = "judge" /\ book' = book /\ UNCHANGED <<due, receipt, landed, rc>>
          /\ readable'
          /\ \/ Longer /\ got' = Entries.last
             \/ ~Longer /\ Latest = {}
      <4>1. /\ pc = "await" /\ pc' = "judge" /\ book' = book /\ UNCHANGED <<due, receipt, landed, rc>>
            /\ \/ Longer /\ got' = Entries.last
               \/ ~Longer /\ Latest = {}
        BY <2>2, <2>8, QuietFacts DEF AwaitEntry, Goto, chainVars, verdictVars
      <4>2. readable' = TRUE \/ readable' \in {TRUE, trouble \intersect {"readFails", "blackout"} = {}}
        BY <2>8 DEF AwaitEntry
      <4>3. (trouble \intersect {"readFails", "blackout"} = {}) = TRUE
        BY <2>2, QuietFacts
      <4>4. readable'
        BY <4>2, <4>3, Zenon
      <4> QED BY <4>1, <4>4
    <3>2. /\ due \subseteq {Mine} /\ (landed => due = {}) /\ base \in Nat
          /\ landed => Entries.len = base + 1
          /\ ~landed => Entries.len = base
      BY <1>0, <2>2, <3>1, QuietFacts DEF Passed, Alarmed, WitnessInv, LandInv, Solo, Hop, CallShape, CallerTypeOK
    <3>3. Longer <=> landed
      BY <3>2 DEF Longer
    <3>4. due = {}
      BY <1>0, <3>1, <3>2, <3>3, MineFacts DEF Latest, CallShape
    <3>5. Longer => Entries.last # NoEntry
      <4>1. Entries.len \in Nat /\ Here \in Sides
        BY <1>0, MineFacts DEF CallShape
      <4>2. Longer => Entries.len > 0
        BY <3>2, <4>1 DEF Longer
      <4>3. Entries.len > 0 => Entries.last.who # "nobody"
        BY <1>0, <4>1 DEF CallShape, Entries
      <4> QED BY <4>2, <4>3 DEF NoEntry
    <3> QED BY <2>2, <3>1, <3>3, <3>4, <3>5 DEF HeardInv, Walk, Hop, Between
  <2>9. CASE JudgeReceipt \/ JudgeUnapplied
    <3>1. /\ pc = "judge" /\ AfterHop /\ UNCHANGED <<due, receipt, landed, truth, strange>>
      BY <2>9 DEF JudgeReceipt, JudgeUnapplied, JudgeStep, chainVars
    <3>2. /\ pc' \in {"settle", "combo", "idle"}
          /\ pc' = "settle" => Combo' = Combo
      BY <1>0, <3>1, Leaving
    <3>3. Heard' /\ Still'
      BY <2>2, <2>9, <3>1, <3>2, HeardVerdict, ZenonT(40) DEF Heard, Wrongs, Says, Still
    <3> QED BY <3>2, <3>3 DEF HeardInv, Walk, Hop, Between
  <2>10. CASE JudgeBaseline
    <3>1. /\ pc = "judge" /\ AfterCombo /\ UNCHANGED <<due, receipt, landed, truth, strange>>
      BY <2>10 DEF JudgeBaseline, JudgeStep, chainVars
    <3>2. pc' \in {"combo", "idle"}
      BY <1>0, <3>1, Leaving
    <3>3. Heard' /\ Still'
      BY <2>2, <2>10, <3>1, <3>2, HeardBaseline, ZenonT(40) DEF Heard, Wrongs, Says, Still
    <3> QED BY <3>2, <3>3 DEF HeardInv, Walk, Hop, Between
  <2>11. CASE JudgeEntry
    <3>1. /\ pc' \in {"pre", "settle"} /\ UNCHANGED <<due, receipt, landed, truth, strange>>
      BY <2>11 DEF JudgeEntry, NextHop, JudgeStep, chainVars
    <3>2. Heard' /\ Still' /\ (pc' = "pre" => book'.inc = 0)
      BY <2>2, <2>11, <3>1, HeardEntry, ZenonT(40) DEF Heard, Wrongs, Says, Still
    <3> QED BY <3>1, <3>2 DEF HeardInv, Walk, Hop, Between
  <2>12. CASE Settle
    <3>1. /\ pc = "settle" /\ AfterCombo /\ UNCHANGED <<due, receipt, landed, truth, strange>>
          /\ found \subseteq found'
      BY <2>12 DEF Settle, JudgeStep, chainVars
    <3>2. pc' \in {"combo", "idle"}
      BY <1>0, <3>1, Leaving
    <3>3. Heard' /\ Still'
      BY <2>2, <3>1, <3>2, ZenonT(40) DEF HeardInv, Heard, Wrongs, Says, Still, Between
    <3> QED BY <3>2, <3>3 DEF HeardInv, Walk, Hop, Between
  <2> QED BY <1>2, <2>3, <2>4, <2>5, <2>6, <2>7, <2>8, <2>9, <2>10, <2>11, <2>12 DEF Worker
<1> QED BY <1>1, <1>2

LEMMA HeardStep == Passed /\ HeardInv /\ [CallerNext]_callerVars => HeardInv'
<1>1. ASSUME Passed, HeardInv, Chain PROVE HeardInv'
  <2>1. CASE Quiet
    BY <1>1, <2>1, HeardChain
  <2>2. CASE ~Quiet
    <3>1. UNCHANGED <<clean, stopped, trouble>>
      BY <1>1, ChainMoves DEF ChainStep, Passed, Alarmed, CallShape
    <3>2. ~Quiet'
      BY <2>2, <3>1, Zenon DEF Quiet
    <3> QED BY <3>2 DEF HeardInv
  <2> QED BY <2>1, <2>2
<1>2. ASSUME Passed, HeardInv, Worker PROVE HeardInv'
  BY <1>2, HeardWorker DEF HeardInv
<1>3. ASSUME Passed, HeardInv, Stop \/ UNCHANGED callerVars PROVE HeardInv'
  <2>1. /\ UNCHANGED <<trouble, due, receipt, landed, pc, next, got, rc, readable, clean, truth, book, found, strange>>
        /\ ~stopped' => ~stopped
    BY <1>3, CallStays DEF Passed, Alarmed, chainVars, placeVars, hopVars, verdictVars
  <2>2. Quiet' => Quiet
    BY <2>1 DEF Quiet
  <2> QED BY <1>3, <2>1, <2>2, ZenonT(40) DEF HeardInv, Heard, Wrongs, Says, Still, Combo
<1> QED BY <1>1, <1>2, <1>3 DEF CallerNext, Finished

(***************************************************************************)
(* The faults of contract_caller.py:32-44: when nothing is late and no     *)
(* read, send or poll fails, each fault of the chain is in the findings    *)
(* when its combination is settled. Nothing is judged before it has settled*)
(* (HeardInv), so that no verdict is passed on half of what happened.      *)
(***************************************************************************)
THEOREM FaultsCorrect == CallerSpec => []FaultsReported
<1>1. HeardInv => FaultsReported
  <2> SUFFICES ASSUME HeardInv, Quiet, pc = "settle" \/ (pc = "combo" /\ Combo = "b"),
                      NEW t \in truth \intersect (Wrongs \cup (IF Combo = "c" THEN {"partial"} ELSE {}))
               PROVE  \E f \in found : t \in Says(f)
    BY DEF FaultsReported, Quiet, Wrongs
  <2>1. Heard /\ (t \in Wrongs \/ (t = "partial" /\ Combo = "c" /\ pc = "settle"))
    BY DEF HeardInv, Between
  <2> QED BY <2>1 DEF Heard, Says
<1>2. CallerInit => HeardInv
  BY DEF CallerInit, HeardInv, Heard, Still, Walk, Hop
<1>3. Passed /\ HeardInv /\ [CallerNext]_callerVars => (Passed /\ HeardInv)'
  BY PassStep, HeardStep
<1> QED BY <1>1, <1>2, <1>3, PassInit, PTL DEF CallerSpec
=============================================================================
