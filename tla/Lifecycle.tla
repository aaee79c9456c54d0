------------------------------ MODULE Lifecycle ------------------------------
(***************************************************************************)
(* The life of one run: the main thread of Runner.run (runner.py) or of    *)
(* `serve` (cli.cmd_serve over multi.Supervisor), the worker threads of    *)
(* workers/base.py, the signal handler and the clocks.  The main thread    *)
(* starts the workers, waits for the duration or the stop event, joins     *)
(* each worker against one shared deadline and writes the report from      *)
(* the registry (report.write_report), worker by worker, while workers     *)
(* that did not stop in time may still be adding findings.                 *)
(* Every loop over the workers takes them in the registry's order.  What a *)
(* worker does is reduced to: its setup may fail, a step may record        *)
(* findings, end, raise, or never return.                                  *)
(***************************************************************************)
EXTENDS Integers

CONSTANTS
    Workers,      \* every worker of the registry, numbered in its order
    Enabled,      \* those the configuration enables
    Mode,         \* "run": Runner, "serve": Supervisor
    MayHang,      \* workers one of whose calls may never return
    MaxFailures,  \* bound on the failing setups of one worker
    MaxFindings   \* bound on the findings of one worker

ASSUME LifecycleAssumption ==
    /\ Workers \subseteq Nat /\ Enabled \subseteq Workers
    /\ Mode \in {"run", "serve"} /\ MayHang \subseteq Workers
    /\ MaxFailures \in Nat /\ MaxFindings \in Nat \ {0}

VARIABLES
    stop,      \* the stop event shared by every thread
    over,      \* the configured duration has passed
    expired,   \* the deadline shared by the joins has passed
    main,      \* where the main thread is
    created,   \* workers constructed and started
    joined,    \* workers whose join has returned
    alive,     \* still_alive: workers whose thread outlived its join
    note,      \* workers named in the registry's shutdown_note
    snap,      \* the status and the findings of each worker in the snapshot
    listed,    \* the findings of each worker in the report's list
    thread,    \* where each worker's thread is
    status,    \* WorkerState._status
    findings,  \* the number of findings in each WorkerState
    ready,     \* the worker's setup has returned
    failures   \* setups that raised

mainVars == <<main, created, joined, alive, note, snap, listed>>
workerVars == <<thread, status, findings, ready, failures>>
vars == <<stop, over, expired, mainVars, workerVars>>

Status == {"init", "running", "done", "error", "disabled"}
NoSnap == [status |-> "init", findings |-> -1]

TypeOK ==
    /\ stop \in BOOLEAN /\ over \in BOOLEAN /\ expired \in BOOLEAN
    /\ main \in {"starting", "waiting", "joining", "snapping", "listing", "reported"}
    /\ joined \subseteq created /\ alive \subseteq joined /\ note \subseteq alive
    /\ created \subseteq Workers
    /\ snap \in [Workers -> [status : Status, findings : -1 .. MaxFindings + 1]]
    /\ listed \in [Workers -> -1 .. MaxFindings + 1]
    /\ thread \in [Workers -> {"none", "begin", "retry", "setup", "backoff", "loop", "step",
                               "pause", "crashed", "ending", "hung", "dead"}]
    /\ status \in [Workers -> Status]
    /\ findings \in [Workers -> 0 .. MaxFindings + 1]
    /\ ready \in [Workers -> BOOLEAN]
    /\ failures \in [Workers -> 0 .. MaxFailures]

Init ==
    /\ stop = FALSE /\ over = FALSE /\ expired = FALSE
    /\ main = "starting"
    /\ created = {} /\ joined = {} /\ alive = {} /\ note = {}
    /\ snap = [w \in Workers |-> NoSnap]
    /\ listed = [w \in Workers |-> -1]
    /\ thread = [w \in Workers |-> "none"]
    /\ status = [w \in Workers |-> "init"]
    /\ findings = [w \in Workers |-> 0]
    /\ ready = [w \in Workers |-> FALSE]
    /\ failures = [w \in Workers |-> 0]

-----------------------------------------------------------------------------
\* The environment.

\* SIGINT or SIGTERM: the handler sets the stop event.
Signal == stop' = TRUE /\ UNCHANGED <<over, expired, mainVars, workerVars>>

DurationPasses ==
    over' = TRUE /\ UNCHANGED <<stop, expired, mainVars, workerVars>>

DeadlinePasses ==
    /\ main = "joining"
    /\ expired' = TRUE
    /\ UNCHANGED <<stop, over, mainVars, workerVars>>

-----------------------------------------------------------------------------
\* The threads of the workers.

Move(w, from, to) == thread[w] = from /\ thread' = [thread EXCEPT ![w] = to]

EnvUnchanged == UNCHANGED <<stop, over, expired, mainVars>>

Begin(w) ==
    /\ Move(w, "begin", "retry")
    /\ status' = [status EXCEPT ![w] = "running"]
    /\ EnvUnchanged /\ UNCHANGED <<findings, ready, failures>>

\* _setup_with_retry: `while not self.stopping(): try: self.setup()`.
TrySetup(w) ==
    /\ ~stop
    /\ Move(w, "retry", "setup")
    /\ EnvUnchanged /\ UNCHANGED <<status, findings, ready, failures>>

SetupFails(w) ==
    /\ Move(w, "setup", "backoff")
    /\ failures[w] < MaxFailures
    /\ failures' = [failures EXCEPT ![w] = @ + 1]
    /\ EnvUnchanged /\ UNCHANGED <<status, findings, ready>>

SetupReturns(w) ==
    /\ Move(w, "setup", "loop")
    /\ ready' = [ready EXCEPT ![w] = TRUE]
    /\ EnvUnchanged /\ UNCHANGED <<status, findings, failures>>

\* slip: no further attempt after a failure
NoRetry(w) ==
    /\ Move(w, "backoff", "ending")
    /\ EnvUnchanged /\ UNCHANGED <<status, findings, ready, failures>>

\* The sleep ends, early when the stop event fires.
BackoffEnds(w) ==
    /\ Move(w, "backoff", "retry")
    /\ EnvUnchanged /\ UNCHANGED <<status, findings, ready, failures>>

BeginStep(w) ==
    /\ ~stop
    /\ Move(w, "loop", "step")
    /\ EnvUnchanged /\ UNCHANGED <<status, findings, ready, failures>>

\* Somewhere in a step: state.finding.  A step notices the stop event late.
Record(w) ==
    /\ thread[w] = "step" /\ findings[w] < MaxFindings
    /\ findings' = [findings EXCEPT ![w] = @ + 1]
    /\ EnvUnchanged /\ UNCHANGED <<thread, status, ready, failures>>

\* The step returns, or raises and is counted as an error.
StepEnds(w) ==
    /\ Move(w, "step", "pause")
    /\ EnvUnchanged /\ UNCHANGED <<status, findings, ready, failures>>

PauseEnds(w) ==
    /\ Move(w, "pause", "loop")
    /\ EnvUnchanged /\ UNCHANGED <<status, findings, ready, failures>>

\* slip: the loop does not look at the stop event
NeverLeaves(w) == FALSE /\ UNCHANGED vars

\* `while not self.stopping()` fails: run returns and the thread is done.
Leave(w) ==
    /\ stop
    /\ thread[w] \in {"retry", "loop"}
    /\ thread' = [thread EXCEPT ![w] = "ending"]
    /\ status' = [status EXCEPT ![w] = "done"]
    /\ EnvUnchanged /\ UNCHANGED <<findings, ready, failures>>

\* run raises: in the default loop only `self.interval()` can, outside the try.
Crash(w) ==
    /\ Move(w, "pause", "crashed")
    /\ status' = [status EXCEPT ![w] = "error"]
    /\ EnvUnchanged /\ UNCHANGED <<findings, ready, failures>>

CrashFinding(w) ==
    /\ Move(w, "crashed", "ending")
    /\ findings' = [findings EXCEPT ![w] = @ + 1]
    /\ EnvUnchanged /\ UNCHANGED <<status, ready, failures>>

\* A call in setup or step does not return: nothing in Python ends a thread.
Hang(w) ==
    /\ w \in MayHang
    /\ Move(w, "setup", "hung") \/ Move(w, "step", "hung")
    /\ EnvUnchanged /\ UNCHANGED <<status, findings, ready, failures>>

ThreadEnds(w) ==
    /\ Move(w, "ending", "dead")
    /\ EnvUnchanged /\ UNCHANGED <<status, findings, ready, failures>>

-----------------------------------------------------------------------------
\* The main thread.

\* The next worker of a loop that has done those in `done`.
Turn(done, w) == w \in Workers \ done /\ \A v \in Workers \ done : w <= v

\* One turn of the loop of Runner.start: construct, register and start.
StartWorker(w) ==
    /\ main = "starting" /\ Turn(created, w)
    /\ created' = created \cup {w}
    /\ IF w \in Enabled
       THEN thread' = [thread EXCEPT ![w] = "begin"] /\ UNCHANGED status
       ELSE status' = [status EXCEPT ![w] = "disabled"] /\ UNCHANGED thread
    /\ UNCHANGED <<stop, over, expired, main, joined, alive, note, snap, listed,
                   findings, ready, failures>>

Started ==
    /\ main = "starting" /\ created = Workers
    /\ main' = "waiting"
    /\ UNCHANGED <<stop, over, expired, created, joined, alive, note, snap, listed, workerVars>>

\* The waiting loop ends: the stop event is set if it was not.
StopWorkers ==
    /\ main = "waiting" /\ (over \/ stop)
    /\ main' = "joining"
    /\ stop' = TRUE
    /\ UNCHANGED <<over, expired, created, joined, alive, note, snap, listed, workerVars>>

Running(w) == thread[w] \notin {"none", "dead"}

\* slip: a worker whose join timed out is taken for finished
TimedOut(w) == FALSE

\* `w._thread is not None and w._thread.is_alive()` after the join.
StillAlive(w) == Running(w)

\* slip: a join without a deadline
JoinForever(w) ==
    /\ main = "joining" /\ Turn(joined, w)
    /\ ~Running(w)
    /\ joined' = joined \cup {w}
    /\ UNCHANGED <<stop, over, expired, main, created, alive, note, snap, listed, workerVars>>

\* join returns when the thread has ended or the shared deadline has passed.
JoinWorker(w) ==
    /\ main = "joining" /\ Turn(joined, w)
    /\ ~Running(w) \/ expired
    /\ joined' = joined \cup {w}
    /\ alive' = IF StillAlive(w) THEN alive \cup {w} ELSE alive
    /\ UNCHANGED <<stop, over, expired, main, created, note, snap, listed, workerVars>>

\* Runner.run names the workers still alive in the registry; serve prints them.
ShutdownNote == IF Mode = "run" THEN alive ELSE {}

Note ==
    /\ main = "joining" /\ joined = created
    /\ main' = "snapping"
    /\ note' = ShutdownNote
    /\ UNCHANGED <<stop, over, expired, created, joined, alive, snap, listed, workerVars>>

\* registry.snapshot: one worker's state, under that worker's lock.
Snapshot(w) ==
    /\ main = "snapping" /\ Turn({v \in Workers : snap[v] # NoSnap}, w)
    /\ snap' = [snap EXCEPT ![w] = [status |-> status[w], findings |-> findings[w]]]
    /\ main' = IF \A v \in Workers \ {w} : snap[v] # NoSnap THEN "listing" ELSE main
    /\ UNCHANGED <<stop, over, expired, created, joined, alive, note, listed, workerVars>>

\* registry.all_findings, again worker by worker; then the files are written.
ListFindings(w) ==
    /\ main = "listing" /\ Turn({v \in Workers : listed[v] # -1}, w)
    /\ listed' = [listed EXCEPT ![w] = findings[w]]
    /\ main' = IF \A v \in Workers \ {w} : listed[v] # -1 THEN "reported" ELSE main
    /\ UNCHANGED <<stop, over, expired, created, joined, alive, note, snap, workerVars>>

-----------------------------------------------------------------------------
WorkerStep(w) ==
    \/ Begin(w) \/ TrySetup(w) \/ SetupFails(w) \/ SetupReturns(w) \/ BackoffEnds(w)
    \/ BeginStep(w) \/ Record(w) \/ StepEnds(w) \/ PauseEnds(w) \/ Leave(w)
    \/ Crash(w) \/ CrashFinding(w) \/ ThreadEnds(w)

MainStep ==
    \/ Started \/ StopWorkers \/ Note
    \/ \E w \in Workers : StartWorker(w) \/ JoinWorker(w) \/ Snapshot(w) \/ ListFindings(w)

Next ==
    \/ Signal \/ DurationPasses \/ DeadlinePasses
    \/ MainStep
    \/ \E w \in Workers : WorkerStep(w) \/ Hang(w)

Spec == Init /\ [][Next]_vars

\* The main thread and every worker's thread run, each call that does not hang
\* ends (rpc_call's timeout; wait_receipt and sleep wake on the stop event), and
\* the shutdown deadline passes.  No duration need ever pass, no signal come.
FairSpec ==
    /\ Spec
    /\ WF_vars(MainStep) /\ WF_vars(DeadlinePasses)
    /\ \A w \in Workers : WF_vars(WorkerStep(w))

-----------------------------------------------------------------------------
(***************************************************************************)
(* "Note any that are still alive so the report reflects reality rather    *)
(* than silently snapshotting mid-flight" (runner.py:93-96): of a worker   *)
(* the report does not name as still active it shows the final status and  *)
(* every finding, in the snapshot as in the list, and nothing is added     *)
(* after the report is written.                                            *)
(***************************************************************************)
ReportReflectsReality == main = "reported" => \A w \in Workers \ note :
    /\ snap[w].status \in {"done", "error", "disabled"}
    /\ snap[w].findings = listed[w] /\ listed[w] = findings[w]

(***************************************************************************)
(* A failing setup does not "drop it into step() with half-initialized     *)
(* state" (base.py:212-214): the loop runs only after a setup returned.    *)
(***************************************************************************)
NeverHalfInitialized == \A w \in Workers :
    thread[w] \in {"loop", "step", "pause"} => ready[w]

(***************************************************************************)
(* "Bounded global shutdown" (runner.py:93-97): once the duration is over  *)
(* or the stop event set, the report is written, even if workers hang for  *)
(* ever.                                                                   *)
(***************************************************************************)
ReportWritten == main = "waiting" /\ (over \/ stop) ~> main = "reported"

(***************************************************************************)
(* The stop event reaches every worker that does not hang, in whichever of *)
(* its waits, retries or steps it finds it (base.py:179-184, 199-230).     *)
(***************************************************************************)
StopReachesAll == stop ~> \A w \in Workers : ~Running(w) \/ thread[w] = "hung"

(***************************************************************************)
(* "A transient chain/compiler failure in setup() must not permanently     *)
(* break a worker" (base.py:212-213): if only finitely many setups fail, a *)
(* worker gets through its setup, unless it hangs or the run is stopped.   *)
(***************************************************************************)
SetupRecovers == \A w \in Workers :
    thread[w] = "setup" ~> ready[w] \/ stop \/ thread[w] = "hung"
=============================================================================
