------------------------------ MODULE Harness -------------------------------
(***************************************************************************)
(* The life of a harness (internal/harness/harness.go): Setup brings up    *)
(* the cluster and the background processes of the suite, RunTests runs    *)
(* the tests, Stop writes the report and takes everything down.  Stop is   *)
(* called by fatal when Setup fails, by T.Cleanup when the tests are over, *)
(* and by the goroutine that waits for an interrupt, in the middle of      *)
(* anything; a report that cannot be written calls fatal, and so Stop,     *)
(* from within Stop.                                                       *)
(*                                                                         *)
(* The fields of Harness (h.env or h.kind, h.bgProcesses) and what really  *)
(* runs are kept apart: Stop knows the fields only.                        *)
(***************************************************************************)
EXTENDS Naturals

CONSTANTS
    Modes,         \* of "existing", "controlplane" and "kind"
    MaxCount       \* bound: closes and failures beyond it are not told apart;
                   \* none, one and more are

ASSUME HarnessAssumption ==
    /\ Modes \subseteq {"existing", "controlplane", "kind"}
    /\ MaxCount \in Nat /\ MaxCount >= 2

Thread == {"main", "signal"}

VARIABLES
    mode,       \* where the cluster comes from
    format,     \* a report format is set
    skip,       \* SkipClusterDelete is set
    pc,         \* what Setup and RunTests do: see TypeOK
    stop,       \* where each thread is in Stop: "out" if it is not there
    after,      \* what follows the Stop of a thread: "goexit" or "exit"
    stopping,   \* h.stopping
    report,     \* h.report: [made, failure, closes]
    field,      \* h.env or h.kind is not nil
    bgField,    \* h.bgProcesses has the process
    running,    \* the cluster that runs: "none", "ours", somebody's that was
                \* there before kuttl ("other"), or one that came later ("late")
    bg,         \* the background process runs
    file,       \* the report written last, or the empty one
    dead,       \* the process is over: "no", "ended", "exit" or "panic"
    failures,   \* history: how often the report could not be written
    early,      \* history: interrupted before the tests began
    interrupted,
    setupFailed,\* history: Setup called fatal
    setupPanic, \* history: Setup panicked, of its own
    lost        \* history: an error made kuttl forget a cluster that runs

fields == <<field, bgField>>
actual == <<running, bg, file>>
history == <<early, interrupted, setupFailed, setupPanic, lost>>
config == <<mode, format, skip>>
vars == <<config, pc, stop, after, stopping, report, fields, actual, dead,
          failures, history>>

NoReport == [made |-> FALSE, failure |-> FALSE, closes |-> 0]

TypeOK ==
    /\ mode \in Modes
    /\ {format, skip, stopping, field, bgField, bg} \subseteq BOOLEAN
    /\ {early, interrupted, setupFailed, setupPanic, lost} \subseteq BOOLEAN
    /\ pc \in {"ignore", "cluster", "kindset", "kindrun", "kindruns", "envset", "config", "install",
               "commands", "assign", "tests", "stopping", "over"}
    /\ stop \in [Thread -> {"out", "logs", "collect", "kill", "report", "check",
                            "take down", "clear", "done"}]
    /\ after \in [Thread -> {"goexit", "exit"}]
    /\ report \in [made : BOOLEAN, failure : BOOLEAN, closes : 0..MaxCount]
    /\ file \in [made : BOOLEAN, failure : BOOLEAN, closes : 0..MaxCount]
    /\ running \in {"none", "ours", "other", "late"}
    /\ dead \in {"no", "ended", "exit", "panic"}
    /\ failures \in 0..MaxCount

Init == /\ mode \in Modes
        /\ format \in BOOLEAN
        /\ skip \in BOOLEAN
        /\ pc = "ignore"
        /\ stop = [t \in Thread |-> "out"]
        /\ after = [t \in Thread |-> "exit"]
        /\ stopping = FALSE
        /\ report = NoReport /\ file = NoReport
        /\ field = FALSE /\ bgField = FALSE
        /\ running \in IF mode = "kind" THEN {"none", "other"} ELSE {"none"}
        /\ bg = FALSE
        /\ dead = "no"
        /\ failures = 0
        /\ early = FALSE /\ interrupted = FALSE
        /\ setupFailed = FALSE /\ setupPanic = FALSE /\ lost = FALSE

-----------------------------------------------------------------------------
(* fatal, Goexit and the end of the process.                               *)

\* mutant: the failure is recorded after Stop has written the report
Fatal_Late(t, r) ==
    /\ report' = IF stopping THEN [r EXCEPT !.failure = TRUE] ELSE r
    /\ stopping' = TRUE
    /\ after' = [after EXCEPT ![t] = "goexit"]
    /\ stop' = [stop EXCEPT ![t] = IF stopping THEN "done" ELSE "logs"]

\* mutant: a fatal error within Stop calls Stop again
Fatal_Reenters(t, r) ==
    /\ report' = [r EXCEPT !.failure = TRUE]
    /\ stopping' = TRUE
    /\ after' = [after EXCEPT ![t] = "goexit"]
    /\ stop' = [stop EXCEPT ![t] = "logs"]

\* fatal, called when h.report is r: Stop, unless a fatal error has called it
\* before, and then T.Fatal.
Fatal(t, r) ==
    /\ report' = IF stopping THEN r ELSE [r EXCEPT !.failure = TRUE]
    /\ stopping' = TRUE
    /\ after' = [after EXCEPT ![t] = "goexit"]
    /\ stop' = [stop EXCEPT ![t] = IF stopping THEN "done" ELSE "logs"]

Alive == dead = "no"
InSetup(p) == Alive /\ stop["main"] = "out" /\ pc = p

\* A step of Setup: it goes on to the next, or calls fatal.
SetupStep(from, to) ==
    /\ InSetup(from)
    /\ \/ /\ pc' = to
          /\ UNCHANGED <<stop, after, stopping, report, setupFailed>>
       \/ /\ pc' = "stopping"
          /\ Fatal("main", report)
          /\ setupFailed' = TRUE

\* A panic of Setup itself; Stop is not called.
Panics == dead' = "panic" /\ setupPanic' = TRUE

-----------------------------------------------------------------------------
(* Setup and RunTests, in the goroutine of the test.                       *)

\* An invalid pattern calls fatal before h.report is set: a nil dereference.
CheckIgnoreFiles ==
    /\ InSetup("ignore")
    /\ \/ /\ pc' = "cluster"
          /\ report' = [report EXCEPT !.made = TRUE]
          /\ UNCHANGED <<dead, setupPanic>>
       \/ Panics /\ UNCHANGED <<pc, report>>
    /\ UNCHANGED <<config, stop, after, stopping, fields, actual, failures,
                   early, interrupted, setupFailed, lost>>

UseExisting ==
    /\ mode = "existing"
    /\ SetupStep("cluster", "config")
    /\ UNCHANGED <<config, fields, actual, dead, failures, early, interrupted,
                   setupPanic, lost>>

\* RunTestEnv: h.env is set after the processes of the control plane run, and
\* only if a client could be made for them.
StartEnv ==
    /\ mode = "controlplane"
    /\ SetupStep("cluster", "envset")
    /\ running' \in IF pc' = "envset" THEN {"ours"} ELSE {running, "ours"}
    /\ lost' = (pc' # "envset" /\ running' = "ours")
    /\ UNCHANGED <<config, fields, bg, file, dead, failures, early,
                   interrupted, setupPanic>>

SetEnv == /\ InSetup("envset")
          /\ pc' = "config"
          /\ field' = TRUE
          /\ UNCHANGED <<config, stop, after, stopping, report, bgField, actual,
                         dead, failures, history>>

\* RunKIND: h.kind is set before kind is asked for its clusters.
StartKind ==
    /\ mode = "kind"
    /\ SetupStep("cluster", "kindset")
    /\ field' = (pc' = "kindset")
    /\ UNCHANGED <<config, bgField, actual, dead, failures, early, interrupted,
                   setupPanic, lost>>

\* mutant: h.kind stays set when the cluster is running already
IsRunning_KeepsField ==
    /\ InSetup("kindset")
    /\ \/ /\ running = "none" /\ pc' = "kindrun"
          /\ UNCHANGED <<stop, after, stopping, report, setupFailed, dead, setupPanic>>
       \/ /\ running # "none" /\ pc' = "stopping"
          /\ Fatal("main", report) /\ setupFailed' = TRUE
          /\ UNCHANGED <<dead, setupPanic>>
       \/ Panics /\ UNCHANGED <<pc, stop, after, stopping, report, setupFailed>>
    /\ UNCHANGED <<config, fields, actual, failures, early, interrupted, lost>>

\* IsRunning panics if kind cannot list its clusters.  h.kind is reset if the
\* cluster is there already.
IsRunning ==
    /\ InSetup("kindset")
    /\ \/ /\ running = "none" /\ pc' = "kindrun"
          /\ UNCHANGED <<stop, after, stopping, report, setupFailed, field, dead, setupPanic>>
       \/ /\ running # "none" /\ pc' = "stopping"
          /\ Fatal("main", report) /\ setupFailed' = TRUE
          /\ field' = FALSE
          /\ UNCHANGED <<dead, setupPanic>>
       \/ Panics /\ UNCHANGED <<pc, stop, after, stopping, report, setupFailed, field>>
    /\ UNCHANGED <<config, bgField, actual, failures, early, interrupted, lost>>

\* kind.Run fails if somebody else has created the cluster by now; what it
\* has begun is retained when it fails.
RunKind ==
    /\ SetupStep("kindrun", "kindruns")
    /\ \/ running = "none" /\ running' = "ours"
       \/ pc' = "stopping" /\ UNCHANGED running
    /\ UNCHANGED <<config, fields, bg, file, dead, failures, early,
                   interrupted, setupPanic, lost>>

\* AddContainers asks again, and panics if the cluster is gone.
AddContainers ==
    /\ \/ /\ running # "none" /\ SetupStep("kindruns", "config")
          /\ UNCHANGED <<dead, setupPanic>>
       \/ /\ InSetup("kindruns") /\ Panics
          /\ UNCHANGED <<pc, stop, after, stopping, report, setupFailed>>
    /\ UNCHANGED <<config, fields, actual, failures, early, interrupted, lost>>

\* The rest of Config: the cluster must work and the kubeconfig be written.
WaitForCluster ==
    /\ SetupStep("config", "install")
    /\ UNCHANGED <<config, fields, actual, dead, failures, early, interrupted,
                   setupPanic, lost>>

\* Discovery client, CRDs, a new client, manifests.
Install ==
    /\ SetupStep("install", "commands")
    /\ UNCHANGED <<config, fields, actual, dead, failures, early, interrupted,
                   setupPanic, lost>>

\* RunCommands starts a background process; the harness hears of it when all
\* commands have run.
StartBackground ==
    /\ InSetup("commands")
    /\ pc' = "assign"
    /\ bg' = TRUE
    /\ UNCHANGED <<config, stop, after, stopping, report, fields, running, file,
                   dead, failures, history>>

\* mutant: the processes are assigned when all commands went well
AssignBackground_OnSuccess ==
    /\ SetupStep("assign", "tests")
    /\ bgField' = (pc' = "tests")
    /\ UNCHANGED <<config, field, actual, dead, failures, early, interrupted,
                   setupPanic, lost>>

\* "assign any background processes first for cleanup in case of any errors"
AssignBackground ==
    /\ SetupStep("assign", "tests")
    /\ bgField' = TRUE
    /\ UNCHANGED <<config, field, actual, dead, failures, early, interrupted,
                   setupPanic, lost>>

\* RunTests: the tests end, or cannot be loaded, and T.Cleanup calls Stop.
EndTests == /\ InSetup("tests")
            /\ pc' = "stopping"
            /\ stop' = [stop EXCEPT !["main"] = "logs"]
            /\ after' = [after EXCEPT !["main"] = "goexit"]
            /\ UNCHANGED <<config, stopping, report, fields, actual, dead,
                           failures, history>>

-----------------------------------------------------------------------------
(* Stop, in either thread.                                                 *)

At(t, p) == Alive /\ stop[t] = p
GoTo(t, p) == stop' = [stop EXCEPT ![t] = p]
Count(n) == IF n < MaxCount THEN n + 1 ELSE n

\* A pointer that was checked and is nil by the time it is used.
NilDereference == dead' = "panic"

\* mutant: the field is not checked
CheckLogs_Unchecked(t) ==
    /\ At(t, "logs")
    /\ GoTo(t, IF mode = "kind" THEN "collect" ELSE "kill")
    /\ UNCHANGED <<config, pc, after, stopping, report, fields, actual, dead, failures,
                   history>>

CheckLogs(t) == /\ At(t, "logs")
                /\ GoTo(t, IF mode = "kind" /\ field THEN "collect" ELSE "kill")
                /\ UNCHANGED <<config, pc, after, stopping, report, fields, actual,
                               dead, failures, history>>

CollectLogs(t) == /\ At(t, "collect")
                  /\ IF field THEN GoTo(t, "kill") /\ UNCHANGED dead
                     ELSE NilDereference /\ UNCHANGED stop
                  /\ UNCHANGED <<config, pc, after, stopping, report, fields,
                                 actual, failures, history>>

KillBackground(t) == /\ At(t, "kill")
                     /\ GoTo(t, "report")
                     /\ bg' = (bg /\ ~bgField)
                     /\ UNCHANGED <<config, pc, after, stopping, report, fields,
                                    running, file, dead, failures, history>>

AfterReport == IF skip THEN "done" ELSE "check"

\* mutant: Close adds the numbers of the suites twice
Closed_Twice == [report EXCEPT !.closes = Count(@) + 1]

\* Close adds the numbers of the suites to the report's own.
Closed == [report EXCEPT !.closes = Count(@)]

\* Report: nothing to do without a format.  The report is closed, whatever
\* becomes of the file, and the file then written.
WriteReport(t) ==
    /\ At(t, "report")
    /\ format => report.made
    /\ IF format THEN report' = Closed /\ file' = Closed
                 ELSE UNCHANGED <<report, file>>
    /\ GoTo(t, AfterReport)
    /\ UNCHANGED <<config, pc, after, stopping, fields, running, bg, dead, failures,
                   history>>

WriteReportFails(t) ==
    /\ At(t, "report") /\ format /\ report.made
    /\ failures' = Count(failures)
    /\ Fatal(t, Closed)
    /\ UNCHANGED <<config, pc, fields, actual, dead, history>>

\* An interrupt can come before h.report is set: Close of a nil pointer.
WriteNoReport(t) ==
    /\ At(t, "report") /\ format /\ ~report.made
    /\ NilDereference
    /\ UNCHANGED <<config, pc, stop, after, stopping, report, fields, actual, failures,
                   history>>

CheckCluster(t) == /\ At(t, "check")
                   /\ GoTo(t, IF field THEN "take down" ELSE "done")
                   /\ UNCHANGED <<config, pc, after, stopping, report, fields,
                                  actual, dead, failures, history>>

\* env.Stop or kind.Stop, which deletes the cluster of that name.  An error
\* is logged only.
TakeDown(t) ==
    /\ At(t, "take down")
    /\ \/ /\ field /\ GoTo(t, "clear")
          /\ \/ running' = "none" /\ UNCHANGED lost
             \/ running # "none" /\ lost' = TRUE /\ UNCHANGED running
          /\ UNCHANGED dead
       \/ ~field /\ NilDereference /\ UNCHANGED <<stop, running, lost>>
    /\ UNCHANGED <<config, pc, after, stopping, report, fields, bg, file, failures,
                   early, interrupted, setupFailed, setupPanic>>

Clear(t) == /\ At(t, "clear")
            /\ GoTo(t, "done")
            /\ field' = FALSE
            /\ UNCHANGED <<config, pc, after, stopping, report, bgField, actual,
                           dead, failures, history>>

\* After Stop: os.Exit for an interrupt.  T.Fatal ends its own goroutine,
\* and only that of the test ends the process.
LeaveStop(t) ==
    /\ At(t, "done")
    /\ \/ after[t] = "exit" /\ dead' = "exit" /\ UNCHANGED pc
       \/ after[t] = "goexit" /\ t = "main" /\ dead' = "ended" /\ pc' = "over"
    /\ UNCHANGED <<config, stop, after, stopping, report, fields, actual,
                   failures, history>>

-----------------------------------------------------------------------------
Interrupt == /\ Alive /\ ~interrupted
             /\ interrupted' = TRUE
             /\ early' = (pc \notin {"tests", "stopping"} \/ setupFailed)
             /\ GoTo("signal", "logs")
             /\ UNCHANGED <<config, pc, after, stopping, report, fields, actual,
                            dead, failures, setupFailed, setupPanic, lost>>

\* Somebody else creates the kind cluster of that name.
OtherStarts == /\ Alive /\ mode = "kind" /\ running = "none" /\ pc = "kindrun"
               /\ running' = "late"
               /\ UNCHANGED <<config, pc, stop, after, stopping, report, fields, bg,
                              file, dead, failures, history>>

StopNext(t) == \/ CheckLogs(t) \/ CollectLogs(t) \/ KillBackground(t)
               \/ WriteReport(t) \/ WriteReportFails(t) \/ WriteNoReport(t)
               \/ CheckCluster(t) \/ TakeDown(t) \/ Clear(t) \/ LeaveStop(t)

SetupNext == \/ CheckIgnoreFiles \/ UseExisting \/ StartEnv \/ SetEnv \/ StartKind
             \/ IsRunning \/ RunKind \/ AddContainers \/ WaitForCluster \/ Install
             \/ StartBackground \/ AssignBackground \/ EndTests

Terminated == ~Alive /\ UNCHANGED vars

Next == \/ SetupNext
        \/ \E t \in Thread : StopNext(t)
        \/ Interrupt \/ OtherStarts \/ Terminated

Spec == Init /\ [][Next]_vars

\* Both goroutines run; nothing makes an interrupt come.
FairSpec == /\ Spec
            /\ WF_vars(SetupNext)
            /\ \A t \in Thread : WF_vars(StopNext(t))

-----------------------------------------------------------------------------
(* Properties.                                                             *)

\* When the process is over, the background process it started is gone, and
\* the cluster too unless it is to be kept or an error of its start or end
\* hid it: if no interrupt came before the tests began, the report was
\* written in the end, and Setup did not panic.  An interrupt during the
\* tests, or during a Stop that the other goroutine is in, changes nothing.
NothingRunning == /\ dead # "no"
                  /\ ~early /\ ~setupPanic
                  /\ failures < IF setupFailed THEN 1 ELSE 2
                  => ~bg /\ (running = "ours" => skip \/ lost)

\* A kind cluster that ran before kuttl is not stopped but while kuttl takes
\* it for its own, which is until IsRunning returns: only an interrupt can
\* stop it then.
RunningClusterKept ==
    [][running = "other" /\ (pc # "kindset" \/ ~interrupted) => running' = "other"]_vars

\* Left alone, kuttl writes a report that adds up its numbers once, and that
\* tells of a failed Setup.
ReportTruthful == /\ dead = "ended"
                  /\ ~interrupted
                  /\ failures = 0
                  /\ format
                  => file.closes = 1 /\ file.failure = setupFailed

\* Without an interrupt and a panic of Setup itself, no nil pointer is used:
\* the checks of h.env and h.kind in Stop hold until the use.
NoPanicAlone == dead = "panic" => interrupted \/ setupPanic

\* kuttl ends, however its calls of Stop, fatal and Stop again are nested,
\* and even if the report can never be written.
HarnessEnds == <>(dead # "no")

\* "Once the tests have been completed, the test harness will collect the
\* kind cluster's logs and then delete it, unless --skip-cluster-delete has
\* been set."
ClusterDeleted == /\ dead = "ended"
                  /\ ~skip /\ ~lost /\ ~setupFailed
                  => running # "ours"
=============================================================================
