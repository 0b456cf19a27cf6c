--------------------------- MODULE Harness_proofs ----------------------------
(***************************************************************************)
(* Proofs about Harness: in any set of modes, whatever fails and whenever  *)
(* an interrupt comes.                                                     *)
(***************************************************************************)
EXTENDS Harness, TLAPS

-----------------------------------------------------------------------------
(* The inductive invariant.                                                *)

Testing == pc \in {"tests", "stopping", "over"}

\* The report could be written often enough for Stop to reach its end.
Written == failures < IF setupFailed THEN 1 ELSE 2

\* Where the two threads are: that of the test is in Setup or the tests, or in
\* Stop for good; the other one is in Stop after an interrupt only, and Setup
\* is over by then unless the interrupt was early.
PhaseInv ==
    /\ stop["main"] = "out" <=> pc \notin {"stopping", "over"}
    /\ stop["main"] # "out" => after["main"] = "goexit"
    /\ ~interrupted => stop["signal"] = "out"
    /\ pc # "ignore" => report.made
    /\ setupFailed => pc \in {"stopping", "over"}
    /\ dead = "ended" => stop["main"] = "done"
    /\ early => interrupted
    /\ ~early /\ interrupted => Testing /\ ~setupFailed

\* Only before it has asked kind does kuttl take for its own a cluster that is
\* not.
ModeInv ==
    /\ pc \in {"kindset", "kindrun", "kindruns"} => mode = "kind"
    /\ pc \in {"ignore", "cluster"} => ~field
    /\ running = "other" => /\ mode = "kind"
                            /\ pc \in {"ignore", "cluster", "kindset", "stopping", "over"}
                            /\ field => pc = "kindset"

\* The harness knows of its background process once the tests begin, and
\* nobody who is past the kill leaves it behind.
BackgroundInv ==
    /\ bg => pc = "assign" \/ Testing
    /\ bg /\ Testing => bgField
    /\ ~early => \A t \in Thread : stop[t] \notin {"out", "logs", "collect", "kill"} => ~bg

\* A cluster of ours that no field names was lost, unless Stop took it down.
ClusterInv ==
    /\ running = "ours" => pc \notin {"ignore", "cluster", "kindset", "kindrun"}
    /\ ~early /\ pc \in {"kindset", "kindrun"} => field
    /\ ~early /\ running = "ours" /\ ~field /\ pc # "envset" => lost
    /\ ~early /\ running = "ours"
         => \A t \in Thread : /\ stop[t] = "clear" => lost
                              /\ stop[t] = "done" => skip \/ lost \/ ~Written

\* A second fatal error comes after a failed Setup or a failed report.
FatalInv ==
    /\ stopping => setupFailed \/ failures # 0
    /\ ~early /\ stopping => Testing

\* The field that a thread checked is gone only if the other thread has taken
\* the cluster down.
FieldInv ==
    /\ ~interrupted /\ stop["main"] \in {"collect", "take down", "clear"} => field
    /\ ~early /\ ~field => \A t \in Thread : stop[t] = "collect" => ~bg

\* What the report says, if there is one thread and one attempt to write it.
ReportInv ==
    ~interrupted /\ failures = 0 =>
      /\ stop["main"] \in {"out", "logs", "collect", "kill", "report"}
           => report.closes = 0 /\ report.failure = setupFailed
      /\ stop["main"] \in {"check", "take down", "clear", "done"} /\ format
           => file.closes = 1 /\ file.failure = setupFailed

IInv == /\ TypeOK
        /\ PhaseInv
        /\ ModeInv
        /\ BackgroundInv
        /\ ClusterInv
        /\ FatalInv
        /\ FieldInv
        /\ ReportInv
        /\ NothingRunning
        /\ NoPanicAlone

-----------------------------------------------------------------------------
(* fatal, and a step of Setup that may call it.                            *)

Places == {"out", "logs", "collect", "kill", "report", "check", "take down",
           "clear", "done"}
Report == [made : BOOLEAN, failure : BOOLEAN, closes : 0..MaxCount]

\* What fatal does to the report and to its thread.
FatalResult(t, r) ==
    /\ stopping' = TRUE
    /\ stopping => report' = r
    /\ ~stopping => report'.failure = TRUE
    /\ report' \in Report /\ report'.made = r.made /\ report'.closes = r.closes
    /\ stop' \in [Thread -> Places] /\ after' \in [Thread -> {"goexit", "exit"}]
    /\ \A u \in Thread : u # t => stop'[u] = stop[u] /\ after'[u] = after[u]
    /\ stop'[t] = (IF stopping THEN "done" ELSE "logs")
    /\ after'[t] = "goexit"

LEMMA FatalEffect ==
    ASSUME stop \in [Thread -> Places], after \in [Thread -> {"goexit", "exit"}],
           NEW t \in Thread, NEW r \in Report, Fatal(t, r)
    PROVE  FatalResult(t, r)
<1> USE DEF Report, Places, Fatal
<1>1. report' \in Report /\ report'.made = r.made /\ report'.closes = r.closes
  OBVIOUS
<1>2. stopping' = TRUE /\ (stopping => report' = r) /\ (~stopping => report'.failure = TRUE)
  OBVIOUS
<1>3. \A u \in Thread : u # t => stop'[u] = stop[u] /\ after'[u] = after[u]
  OBVIOUS
<1>4. stop'[t] = (IF stopping THEN "done" ELSE "logs") /\ after'[t] = "goexit"
  OBVIOUS
<1>5. stop' \in [Thread -> Places] /\ after' \in [Thread -> {"goexit", "exit"}]
  OBVIOUS
<1> QED BY <1>1, <1>2, <1>3, <1>4, <1>5 DEF FatalResult

\* A failed step of Setup.
GiveUp == pc' = "stopping" /\ setupFailed' = TRUE /\ FatalResult("main", report)

LEMMA Types ==
    ASSUME TypeOK
    PROVE  /\ stop \in [Thread -> Places] /\ after \in [Thread -> {"goexit", "exit"}]
           /\ report \in Report /\ file \in Report
           /\ failures \in 0..MaxCount
           /\ Thread = {"main", "signal"}
BY DEF TypeOK, Places, Report, Thread

\* Close only counts.
LEMMA ClosedEffect ==
    ASSUME TypeOK
    PROVE  /\ Closed \in Report /\ Closed.made = report.made
           /\ Closed.failure = report.failure /\ (report.closes = 0 => Closed.closes = 1)
BY Types, HarnessAssumption DEF Closed, Report, Count

LEMMA GiveUpEffect ==
    ASSUME TypeOK, pc' = "stopping", Fatal("main", report), setupFailed' = TRUE
    PROVE  GiveUp
<1>1. "main" \in Thread /\ "signal" \in Thread /\ "signal" # "main"
  BY Types
<1>2. report \in Report
  BY Types
<1> QED BY <1>1, <1>2, Types, FatalEffect DEF GiveUp, Thread

\* A step of Setup that goes on, and may only set h.report.
GoOn == /\ pc' \notin {"ignore", "stopping", "over"} \/ pc' = pc
        /\ pc # "ignore" \/ pc' = pc => report' = report
        /\ pc = "ignore" /\ pc' # pc => report' = [report EXCEPT !.made = TRUE]
        /\ UNCHANGED <<stop, after, stopping, setupFailed>>

Advance(p) == pc' = p /\ UNCHANGED <<stop, after, stopping, report, setupFailed>>

LEMMA SetupStepEffect ==
    ASSUME TypeOK, NEW from, NEW to, SetupStep(from, to)
    PROVE  InSetup(from) /\ (Advance(to) \/ GiveUp)
BY GiveUpEffect DEF SetupStep, Advance

LEMMA SetupFrame ==
    ASSUME TypeOK, SetupNext
    PROVE  /\ Alive /\ stop["main"] = "out" /\ pc \notin {"stopping", "over"}
           /\ UNCHANGED <<mode, format, skip, early, interrupted, failures, file>>
           /\ \/ EndTests
              \/ pc # "tests" /\ dead' # "ended" /\ GoOn
              \/ pc \notin {"ignore", "tests"} /\ dead' = dead /\ GiveUp
<1> USE DEF config, actual, history, fields, InSetup, Alive, GoOn, Advance
<1>1. CASE CheckIgnoreFiles
  BY <1>1 DEF CheckIgnoreFiles, Panics
<1>2. CASE UseExisting
  BY <1>2, SetupStepEffect DEF UseExisting
<1>3. CASE StartEnv
  BY <1>3, SetupStepEffect DEF StartEnv
<1>4. CASE SetEnv
  BY <1>4 DEF SetEnv
<1>5. CASE StartKind
  BY <1>5, SetupStepEffect DEF StartKind
<1>6. CASE IsRunning
  BY <1>6, GiveUpEffect DEF IsRunning, Panics
<1>7. CASE RunKind
  BY <1>7, SetupStepEffect DEF RunKind
<1>8. CASE AddContainers
  BY <1>8, SetupStepEffect DEF AddContainers, Panics
<1>9. CASE WaitForCluster
  BY <1>9, SetupStepEffect DEF WaitForCluster
<1>10. CASE Install
  BY <1>10, SetupStepEffect DEF Install
<1>11. CASE StartBackground
  BY <1>11 DEF StartBackground
<1>12. CASE AssignBackground
  BY <1>12, SetupStepEffect DEF AssignBackground
<1>13. CASE EndTests
  BY <1>13 DEF EndTests
<1> QED
  BY <1>1, <1>2, <1>3, <1>4, <1>5, <1>6, <1>7, <1>8, <1>9, <1>10, <1>11, <1>12, <1>13
  DEF SetupNext

\* A report that cannot be written.
LEMMA WriteFailsEffect ==
    ASSUME TypeOK, NEW t \in Thread, WriteReportFails(t)
    PROVE  /\ At(t, "report") /\ format
           /\ FatalResult(t, Closed) /\ Closed.made = report.made
           /\ failures' \in 0..MaxCount /\ failures' # 0 /\ failures' >= failures
           /\ failures # 0 => failures' >= 2
           /\ UNCHANGED <<config, pc, fields, actual, dead, history>>
<1>1. Closed \in Report /\ Closed.made = report.made
  BY ClosedEffect
<1>2. Fatal(t, Closed) /\ failures' = Count(failures)
  BY DEF WriteReportFails
<1>3. /\ failures' \in 0..MaxCount /\ failures' # 0 /\ failures' >= failures
      /\ failures # 0 => failures' >= 2
  BY <1>2, Types, HarnessAssumption DEF Count
<1>4. FatalResult(t, Closed)
  BY <1>1, <1>2, Types, FatalEffect
<1> QED BY <1>1, <1>3, <1>4 DEF WriteReportFails

\* What Stop leaves alone in every step, in a thread that is in it.
LEMMA StopFrame ==
    ASSUME TypeOK, NEW t \in Thread, StopNext(t)
    PROVE  /\ Alive /\ stop[t] # "out" /\ stop'[t] # "out"
           /\ \A u \in Thread : u # t => stop'[u] = stop[u] /\ after'[u] = after[u]
           /\ after'[t] = after[t] \/ after'[t] = "goexit"
           /\ UNCHANGED <<config, bgField, early, interrupted, setupFailed, setupPanic>>
           /\ report'.made = report.made
           /\ failures' # failures => failures' # 0
<1> USE DEF config, actual, history, fields, At, GoTo, Alive
<1>1. CASE CheckLogs(t)
  BY <1>1, Types DEF CheckLogs
<1>2. CASE CollectLogs(t)
  BY <1>2, Types DEF CollectLogs
<1>3. CASE KillBackground(t)
  BY <1>3, Types DEF KillBackground
<1>4. CASE WriteReport(t)
  BY <1>4, Types DEF WriteReport, AfterReport, Closed, Report
<1>5. CASE WriteReportFails(t)
  BY <1>5, WriteFailsEffect DEF FatalResult
<1>6. CASE WriteNoReport(t)
  BY <1>6 DEF WriteNoReport
<1>7. CASE CheckCluster(t)
  BY <1>7, Types DEF CheckCluster
<1>8. CASE TakeDown(t)
  BY <1>8, Types DEF TakeDown
<1>9. CASE Clear(t)
  BY <1>9, Types DEF Clear
<1>10. CASE LeaveStop(t)
  BY <1>10 DEF LeaveStop
<1> QED
  BY <1>1, <1>2, <1>3, <1>4, <1>5, <1>6, <1>7, <1>8, <1>9, <1>10 DEF StopNext

\* An interrupt starts the other thread, and changes nothing else.
LEMMA InterruptEffect ==
    ASSUME TypeOK, PhaseInv, Interrupt
    PROVE  /\ Alive /\ ~early /\ ~interrupted /\ interrupted'
           /\ early' \/ (Testing /\ ~setupFailed)
           /\ stop'["main"] = stop["main"] /\ stop'["signal"] = "logs"
           /\ UNCHANGED <<mode, format, skip, pc, after, stopping, report, field, bgField,
                          running, bg, file, dead, failures, setupFailed, setupPanic, lost>>
<1> USE DEF Interrupt, config, fields, actual
<1>1. ~early /\ ~interrupted
  BY DEF PhaseInv
<1>2. stop'["main"] = stop["main"] /\ stop'["signal"] = "logs"
  BY Types DEF GoTo
<1>3. interrupted' /\ (early' \/ (Testing /\ ~setupFailed))
  BY DEF Testing
<1> QED BY <1>1, <1>2, <1>3

-----------------------------------------------------------------------------
(* Types.                                                                  *)

Stages == {"ignore", "cluster", "kindset", "kindrun", "kindruns", "envset", "config", "install",
           "commands", "assign", "tests", "stopping", "over"}
Flags == {format, skip, stopping, field, bgField, bg, early, interrupted,
          setupFailed, setupPanic, lost}

LEMMA NextTypeOK == TypeOK /\ [Next]_vars => TypeOK'
<1> SUFFICES ASSUME TypeOK, [Next]_vars PROVE TypeOK'
  OBVIOUS
<1>1. /\ stop' \in [Thread -> Places] /\ after' \in [Thread -> {"goexit", "exit"}]
      /\ report' \in Report /\ file' \in Report
      /\ failures' \in 0..MaxCount
  <2>1. CASE SetupNext
    <3>1. CASE EndTests
      BY <3>1, Types DEF EndTests, Places, actual, config
    <3>2. CASE GoOn
      BY <2>1, <3>2, SetupFrame, Types DEF GoOn, Report
    <3>3. CASE GiveUp
      BY <2>1, <3>3, SetupFrame, Types DEF GiveUp, FatalResult
    <3> QED BY <2>1, <3>1, <3>2, <3>3, SetupFrame
  <2>2. ASSUME NEW t \in Thread, StopNext(t)
        PROVE  /\ stop' \in [Thread -> Places] /\ after' \in [Thread -> {"goexit", "exit"}]
               /\ report' \in Report /\ file' \in Report
               /\ failures' \in 0..MaxCount
    <3> USE DEF GoTo, Places, actual
    <3>1. CASE WriteReportFails(t)
      BY <3>1, WriteFailsEffect, Types DEF FatalResult, WriteReportFails
    <3>2. CASE WriteReport(t)
      <4>1. Closed \in Report
        BY ClosedEffect
      <4> QED BY <3>2, <4>1, Types DEF WriteReport, AfterReport
    <3> QED
      BY <2>2, <3>1, <3>2, Types
      DEF StopNext, CheckLogs, CollectLogs, KillBackground, WriteNoReport, CheckCluster,
          TakeDown, Clear, LeaveStop
  <2> QED
    BY <2>1, <2>2, Types DEF Next, Interrupt, OtherStarts, Terminated, vars, actual,
       Places, GoTo
<1>2. /\ mode' \in Modes
      /\ running' \in {"none", "ours", "other", "late"}
      /\ dead' \in {"no", "ended", "exit", "panic"}
  BY DEF TypeOK, Next, vars, config, actual, SetupNext, StopNext, Panics,
     NilDereference,
         CheckIgnoreFiles, UseExisting, StartEnv, SetEnv, StartKind, IsRunning, RunKind,
         AddContainers, WaitForCluster, Install, StartBackground, AssignBackground,
         EndTests,
         CheckLogs, CollectLogs, KillBackground, WriteReport, WriteReportFails,
         WriteNoReport,
         CheckCluster, TakeDown, Clear, LeaveStop, Interrupt, OtherStarts, Terminated
<1>3. pc' \in Stages
  BY DEF TypeOK, Stages, Next, vars, SetupNext, StopNext, SetupStep,
         CheckIgnoreFiles, UseExisting, StartEnv, SetEnv, StartKind, IsRunning, RunKind,
         AddContainers, WaitForCluster, Install, StartBackground, AssignBackground,
         EndTests,
         CheckLogs, CollectLogs, KillBackground, WriteReport, WriteReportFails,
         WriteNoReport,
         CheckCluster, TakeDown, Clear, LeaveStop, Interrupt, OtherStarts, Terminated
<1>4. Flags' \subseteq BOOLEAN
  BY Zenon DEF TypeOK, Flags, Next, vars, config, actual, fields, history, SetupNext,
     StopNext, SetupStep, Fatal, Panics, NilDereference,
         CheckIgnoreFiles, UseExisting, StartEnv, SetEnv, StartKind, IsRunning, RunKind,
         AddContainers, WaitForCluster, Install, StartBackground, AssignBackground,
         EndTests,
         CheckLogs, CollectLogs, KillBackground, WriteReport, WriteReportFails,
         WriteNoReport,
         CheckCluster, TakeDown, Clear, LeaveStop, Interrupt, OtherStarts, Terminated
<1> QED
  BY <1>1, <1>2, <1>3, <1>4 DEF TypeOK, Places, Stages, Report, Flags

-----------------------------------------------------------------------------
(* Threads and phases.                                                     *)

LEMMA NextPhaseInv == IInv /\ [Next]_vars => PhaseInv'
<1> SUFFICES ASSUME IInv, [Next]_vars PROVE PhaseInv'
  OBVIOUS
<1> TypeOK /\ PhaseInv /\ FatalInv
  BY DEF IInv
<1> USE DEF PhaseInv, Testing
<1>1. CASE SetupNext
  <2>1. CASE EndTests
    BY <2>1, Types DEF EndTests, InSetup, config, fields, actual, history
  <2>2. CASE ~EndTests
    <3>1. ~(~early' /\ interrupted') /\ dead' # "ended"
      BY <1>1, <2>2, SetupFrame
    <3>2. CASE GoOn
      <4>1. pc' # "ignore" => report'.made
        BY <3>2, Types DEF GoOn, Report
      <4> QED BY <1>1, <3>1, <3>2, <4>1, SetupFrame DEF GoOn
    <3>3. CASE ~GoOn
      <4> GiveUp /\ pc # "ignore"
        BY <1>1, <2>2, <3>3, SetupFrame
      <4>1. stop'["main"] # "out" /\ stop'["signal"] = stop["signal"] /\ after'["main"] = "goexit"
        BY Types DEF GiveUp, FatalResult
      <4>2. report'.made /\ pc' = "stopping"
        BY <1>1, SetupFrame, Types DEF GiveUp, FatalResult
      <4> QED BY <1>1, <3>1, <4>1, <4>2, SetupFrame
    <3> QED BY <3>2, <3>3
  <2> QED BY <1>1, <2>1, <2>2, SetupFrame
<1>2. ASSUME NEW t \in Thread, StopNext(t) PROVE PhaseInv'
  <2>1. \/ pc' = pc /\ dead' # "ended"
        \/ t = "main" /\ stop[t] = "done" /\ pc' = "over" /\ stop' = stop
    BY <1>2, StopFrame DEF StopNext, CheckLogs, CollectLogs, KillBackground,
       WriteReport,
       WriteReportFails, WriteNoReport, CheckCluster, TakeDown, Clear, LeaveStop, At,
       Alive, NilDereference
  <2> QED BY <1>2, <2>1, StopFrame, Types DEF Alive
<1>3. CASE Interrupt
  BY <1>3, Types DEF Interrupt, GoTo, Alive
<1>4. CASE OtherStarts
  BY <1>4 DEF OtherStarts, Alive, history
<1>5. CASE UNCHANGED vars
  BY <1>5 DEF vars, history
<1> QED BY <1>1, <1>2, <1>3, <1>4, <1>5 DEF Next, Terminated

-----------------------------------------------------------------------------
(* The cluster.                                                            *)

LEMMA NextModeInv == IInv /\ [Next]_vars => ModeInv'
<1> SUFFICES ASSUME IInv, [Next]_vars PROVE ModeInv'
  OBVIOUS
<1> TypeOK /\ PhaseInv /\ ModeInv
  BY DEF IInv
<1> USE DEF PhaseInv, ModeInv, InSetup, Alive, config, fields, actual, history, SetupStep, Panics
<1>1. CASE CheckIgnoreFiles
  BY <1>1 DEF CheckIgnoreFiles
<1>2. CASE UseExisting
  BY <1>2 DEF UseExisting
<1>3. CASE StartEnv
  BY <1>3 DEF StartEnv
<1>4. CASE SetEnv
  BY <1>4 DEF SetEnv
<1>5. CASE StartKind
  BY <1>5 DEF StartKind
<1>6. CASE IsRunning
  BY <1>6 DEF IsRunning
<1>7. CASE RunKind
  BY <1>7 DEF RunKind
<1>8. CASE AddContainers
  BY <1>8 DEF AddContainers
<1>9. CASE WaitForCluster
  BY <1>9 DEF WaitForCluster
<1>10. CASE Install
  BY <1>10 DEF Install
<1>11. CASE StartBackground
  BY <1>11 DEF StartBackground
<1>12. CASE AssignBackground
  BY <1>12 DEF AssignBackground
<1>13. CASE EndTests
  BY <1>13 DEF EndTests
<1>14. ASSUME NEW t \in Thread, StopNext(t) PROVE ModeInv'
  <2>1. /\ mode' = mode
        /\ pc' = pc \/ (pc = "stopping" /\ pc' = "over")
        /\ (running' = running \/ running' = "none")
        /\ (field' = field \/ field' = FALSE)
    <3> USE DEF At, PhaseInv
    <3>1. CASE LeaveStop(t)
      BY <3>1, Types DEF LeaveStop
    <3> QED
      BY <1>14, <3>1 DEF StopNext, CheckLogs, CollectLogs, KillBackground, WriteReport,
         WriteReportFails, WriteNoReport, CheckCluster, TakeDown, Clear
  <2> QED BY <2>1
<1>15. CASE Interrupt
  BY <1>15 DEF Interrupt
<1>16. CASE OtherStarts
  BY <1>16 DEF OtherStarts
<1>17. CASE UNCHANGED vars
  BY <1>17 DEF vars
<1> QED
  BY <1>1, <1>2, <1>3, <1>4, <1>5, <1>6, <1>7, <1>8, <1>9, <1>10, <1>11, <1>12, <1>13,
     <1>14,
     <1>15, <1>16, <1>17
  DEF Next, SetupNext, Terminated

-----------------------------------------------------------------------------
(* The background process.                                                 *)

LEMMA NextBackgroundInv == IInv /\ [Next]_vars => BackgroundInv'
<1> SUFFICES ASSUME IInv, [Next]_vars PROVE BackgroundInv'
  OBVIOUS
<1> TypeOK /\ PhaseInv /\ BackgroundInv /\ FatalInv
  BY DEF IInv
<1> USE DEF PhaseInv, BackgroundInv, FatalInv, Testing
<1>1. CASE SetupNext
  <2>1. stop["main"] = "out" /\ (~early => stop["signal"] = "out" \/ EndTests)
    BY <1>1, SetupFrame, Types
  <2>2. /\ bg' => \/ pc' = "assign"
                  \/ bg /\ pc' \in {"tests", "stopping"}
        /\ bgField' = bgField \/ bgField' = TRUE
        /\ pc = "assign" => bgField' = TRUE
    BY <1>1 DEF SetupNext, SetupStep, InSetup, Panics, config, fields, actual,
       CheckIgnoreFiles,
       UseExisting, StartEnv, SetEnv, StartKind, IsRunning, RunKind, AddContainers,
       WaitForCluster,
       Install, StartBackground, AssignBackground, EndTests
  <2>3. CASE EndTests
    BY <2>3, Types DEF EndTests, fields, actual, history, InSetup
  <2>4. CASE ~EndTests
    <3>1. /\ stop'["signal"] = stop["signal"] /\ stop'["main"] \in {"out", "logs", "done"}
          /\ early' = early
      BY <1>1, <2>4, SetupFrame, Types DEF GoOn, GiveUp, FatalResult
    <3>2. ~early => stop'["main"] # "done"
      BY <1>1, <2>4, SetupFrame, Types DEF GoOn, GiveUp, FatalResult
    <3> QED BY <1>1, <2>1, <2>2, <2>4, <3>1, <3>2, SetupFrame, Types
  <2> QED BY <2>3, <2>4
<1>2. ASSUME NEW t \in Thread, StopNext(t) PROVE BackgroundInv'
  <2> USE DEF At, GoTo, Alive, config, fields, actual, history
  <2>1. CASE CheckLogs(t)
    BY <2>1, Types DEF CheckLogs
  <2>2. CASE CollectLogs(t)
    BY <2>2, Types DEF CollectLogs, NilDereference
  <2>3. CASE KillBackground(t)
    BY <2>3, Types DEF KillBackground
  <2>4. CASE WriteReport(t)
    BY <2>4, Types DEF WriteReport, AfterReport
  <2>5. CASE WriteReportFails(t)
    BY <2>5, WriteFailsEffect, Types DEF FatalResult, WriteReportFails
  <2>6. CASE WriteNoReport(t)
    BY <2>6, Types DEF WriteNoReport, NilDereference
  <2>7. CASE CheckCluster(t)
    BY <2>7, Types DEF CheckCluster
  <2>8. CASE TakeDown(t)
    BY <2>8, Types DEF TakeDown, NilDereference
  <2>9. CASE Clear(t)
    BY <2>9, Types DEF Clear
  <2>10. CASE LeaveStop(t)
    BY <2>10, Types DEF LeaveStop
  <2> QED
    BY <1>2, <2>1, <2>2, <2>3, <2>4, <2>5, <2>6, <2>7, <2>8, <2>9, <2>10 DEF StopNext
<1>3. CASE Interrupt
  BY <1>3, InterruptEffect, Types
<1>4. CASE OtherStarts
  BY <1>4 DEF OtherStarts, Alive, history, actual, fields, config
<1>5. CASE UNCHANGED vars
  BY <1>5 DEF vars, history, actual, fields, config
<1> QED BY <1>1, <1>2, <1>3, <1>4, <1>5 DEF Next, Terminated

LEMMA NextFatalInv == IInv /\ [Next]_vars => FatalInv'
<1> SUFFICES ASSUME IInv, [Next]_vars PROVE FatalInv'
  OBVIOUS
<1> TypeOK /\ PhaseInv /\ FatalInv
  BY DEF IInv
<1> USE DEF PhaseInv, FatalInv, Testing
<1>1. CASE SetupNext
  <2>1. CASE EndTests
    BY <2>1 DEF EndTests, history, InSetup
  <2>2. CASE ~EndTests
    <3>1. CASE GiveUp
      BY <3>1 DEF GiveUp, FatalResult
    <3>2. CASE ~GiveUp
      <4>1. ~early => ~stopping
        BY <1>1, <2>2, SetupFrame
      <4>2. /\ stopping' = stopping /\ failures' = failures /\ early' = early
            /\ setupFailed' = setupFailed
        BY <1>1, <2>2, <3>2, SetupFrame DEF GoOn
      <4> QED BY <4>1, <4>2
    <3> QED BY <3>1, <3>2
  <2> QED BY <2>1, <2>2
<1>2. ASSUME NEW t \in Thread, StopNext(t) PROVE FatalInv'
  <2>1. CASE WriteReportFails(t)
    BY <2>1, WriteFailsEffect, StopFrame, Types DEF At, history
  <2>2. CASE ~WriteReportFails(t)
    <3>1. stopping' = stopping /\ failures' = failures /\ early' = early
          /\ setupFailed' = setupFailed /\ (pc' = pc \/ pc' = "over")
      BY <1>2, <2>2 DEF StopNext, CheckLogs, CollectLogs, KillBackground, WriteReport,
         WriteNoReport, CheckCluster, TakeDown, Clear, LeaveStop, history
    <3> QED BY <3>1
  <2> QED BY <2>1, <2>2
<1>3. CASE Interrupt
  BY <1>3, InterruptEffect, Types
<1>4. CASE OtherStarts
  BY <1>4 DEF OtherStarts, Alive, history, actual, fields, config
<1>5. CASE UNCHANGED vars
  BY <1>5 DEF vars, history, actual, fields, config
<1> QED BY <1>1, <1>2, <1>3, <1>4, <1>5 DEF Next, Terminated

LEMMA NextFieldInv == IInv /\ [Next]_vars => FieldInv'
<1> SUFFICES ASSUME IInv, [Next]_vars PROVE FieldInv'
  OBVIOUS
<1> TypeOK /\ PhaseInv /\ BackgroundInv /\ FieldInv
  BY DEF IInv
<1> USE DEF PhaseInv, BackgroundInv, FieldInv, Testing
<1>1. CASE SetupNext
  <2>1. CASE EndTests
    BY <2>1, Types DEF EndTests, history, fields, actual, InSetup
  <2>2. CASE ~EndTests
    <3>1. stop'["signal"] = stop["signal"] /\ stop'["main"] \in {"out", "logs", "done"}
      BY <1>1, <2>2, SetupFrame, Types DEF GoOn, GiveUp, FatalResult
    <3>2. ~early => stop["signal"] = "out"
      BY <1>1, <2>2, SetupFrame
    <3> QED BY <1>1, <3>1, <3>2, SetupFrame, Types
  <2> QED BY <2>1, <2>2
<1>2. ASSUME NEW t \in Thread, StopNext(t) PROVE FieldInv'
  <2> USE DEF At, GoTo, Alive, config, fields, actual, history
  <2>1. CASE CheckLogs(t)
    BY <2>1, Types DEF CheckLogs
  <2>2. CASE CollectLogs(t)
    BY <2>2, Types DEF CollectLogs, NilDereference
  <2>3. CASE KillBackground(t)
    BY <2>3, Types DEF KillBackground
  <2>4. CASE WriteReport(t)
    BY <2>4, Types DEF WriteReport, AfterReport
  <2>5. CASE WriteReportFails(t)
    BY <2>5, WriteFailsEffect, Types DEF FatalResult, WriteReportFails
  <2>6. CASE WriteNoReport(t)
    BY <2>6, Types DEF WriteNoReport, NilDereference
  <2>7. CASE CheckCluster(t)
    BY <2>7, Types DEF CheckCluster
  <2>8. CASE TakeDown(t)
    BY <2>8, Types DEF TakeDown, NilDereference
  <2>9. CASE Clear(t)
    BY <2>9, Types DEF Clear
  <2>10. CASE LeaveStop(t)
    BY <2>10, Types DEF LeaveStop
  <2> QED
    BY <1>2, <2>1, <2>2, <2>3, <2>4, <2>5, <2>6, <2>7, <2>8, <2>9, <2>10 DEF StopNext
<1>3. CASE Interrupt
  BY <1>3, InterruptEffect, Types
<1>4. CASE OtherStarts
  BY <1>4 DEF OtherStarts, Alive, history, actual, fields, config
<1>5. CASE UNCHANGED vars
  BY <1>5 DEF vars, history, actual, fields, config
<1> QED BY <1>1, <1>2, <1>3, <1>4, <1>5 DEF Next, Terminated

LEMMA NextClusterInv == IInv /\ [Next]_vars => ClusterInv'
<1> SUFFICES ASSUME IInv, [Next]_vars PROVE ClusterInv'
  OBVIOUS
<1> TypeOK /\ PhaseInv /\ ModeInv /\ ClusterInv /\ FatalInv
  BY DEF IInv
<1> USE DEF PhaseInv, ModeInv, ClusterInv, FatalInv, Testing, Written
<1>1. CASE SetupNext
  <2>1. /\ running' = "ours" => pc' \notin {"ignore", "cluster", "kindset", "kindrun"}
        /\ ~early /\ pc' \in {"kindset", "kindrun"} => field'
        /\ ~early /\ running' = "ours" /\ ~field' /\ pc' # "envset" => lost'
    <3> USE DEF SetupStep, InSetup, Panics, config, fields, actual, history
    <3>1. CASE StartEnv
      BY <3>1 DEF StartEnv
    <3>2. CASE SetEnv
      BY <3>2 DEF SetEnv
    <3>3. CASE StartKind
      BY <3>3 DEF StartKind
    <3>4. CASE IsRunning
      BY <3>4 DEF IsRunning
    <3>5. CASE RunKind
      BY <3>5 DEF RunKind
    <3> QED
      BY <1>1, <3>1, <3>2, <3>3, <3>4, <3>5 DEF SetupNext, CheckIgnoreFiles,
         UseExisting,
         AddContainers, WaitForCluster, Install, StartBackground, AssignBackground,
         EndTests
  <2>2. CASE EndTests
    BY <2>1, <2>2, Types DEF EndTests, history, fields, actual, config, InSetup
  <2>3. CASE ~EndTests
    <3>1. stop'["signal"] = stop["signal"] /\ (~early => stop'["main"] \in {"out", "logs"})
      BY <1>1, <2>3, SetupFrame, Types DEF GoOn, GiveUp, FatalResult
    <3>2. ~early => stop["signal"] = "out"
      BY <1>1, <2>3, SetupFrame
    <3> QED BY <1>1, <2>1, <3>1, <3>2, SetupFrame, Types
  <2> QED BY <2>2, <2>3
<1>2. ASSUME NEW t \in Thread, StopNext(t) PROVE ClusterInv'
  <2> USE DEF At, GoTo, Alive, config, fields, actual, history
  <2>1. CASE CheckLogs(t)
    BY <2>1, Types DEF CheckLogs
  <2>2. CASE CollectLogs(t)
    BY <2>2, Types DEF CollectLogs, NilDereference
  <2>3. CASE KillBackground(t)
    BY <2>3, Types DEF KillBackground
  <2>4. CASE WriteReport(t)
    BY <2>4, Types DEF WriteReport, AfterReport
  <2>5. CASE WriteReportFails(t)
    <3>1. stopping => ~Written'
      BY <2>5, WriteFailsEffect, Types
    <3>2. Written' => Written
      BY <2>5, WriteFailsEffect, Types
    <3>3. UNCHANGED <<running, lost, skip, field, pc, early>>
      BY <2>5, WriteFailsEffect
    <3>4. /\ stop'[t] = "logs" \/ (stop'[t] = "done" /\ stopping)
          /\ \A u \in Thread : u # t => stop'[u] = stop[u]
      BY <2>5, WriteFailsEffect DEF FatalResult
    <3> HIDE DEF Written
    <3> QED BY <3>1, <3>2, <3>3, <3>4
  <2>6. CASE WriteNoReport(t)
    BY <2>6, Types DEF WriteNoReport, NilDereference
  <2>7. CASE CheckCluster(t)
    BY <2>7, Types DEF CheckCluster
  <2>8. CASE TakeDown(t)
    BY <2>8, Types DEF TakeDown, NilDereference
  <2>9. CASE Clear(t)
    BY <2>9, Types DEF Clear
  <2>10. CASE LeaveStop(t)
    BY <2>10, Types DEF LeaveStop
  <2> QED
    BY <1>2, <2>1, <2>2, <2>3, <2>4, <2>5, <2>6, <2>7, <2>8, <2>9, <2>10 DEF StopNext
<1>3. CASE Interrupt
  BY <1>3, InterruptEffect, Types
<1>4. CASE OtherStarts
  BY <1>4 DEF OtherStarts, Alive, history, actual, fields, config
<1>5. CASE UNCHANGED vars
  BY <1>5 DEF vars, history, actual, fields, config
<1> QED BY <1>1, <1>2, <1>3, <1>4, <1>5 DEF Next, Terminated

LEMMA NextReportInv == IInv /\ [Next]_vars => ReportInv'
<1> SUFFICES ASSUME IInv, [Next]_vars PROVE ReportInv'
  OBVIOUS
<1> TypeOK /\ PhaseInv /\ ReportInv /\ FatalInv
  BY DEF IInv
<1> USE DEF PhaseInv, ReportInv, FatalInv
<1>1. CASE SetupNext
  <2>1. CASE EndTests
    BY <2>1, Types DEF EndTests, history, actual, config, InSetup
  <2>2. CASE GoOn /\ ~EndTests
    <3>1. report'.closes = report.closes /\ report'.failure = report.failure
      BY <2>2, Types DEF GoOn, Report
    <3> QED BY <1>1, <2>2, <3>1, SetupFrame DEF GoOn
  <2>3. CASE GiveUp /\ ~EndTests
    BY <1>1, <2>3, SetupFrame, Types DEF GiveUp, FatalResult, GoOn
  <2> QED BY <1>1, <2>1, <2>2, <2>3, SetupFrame
<1>2. ASSUME NEW t \in Thread, StopNext(t) PROVE ReportInv'
  <2> USE DEF At, GoTo, Alive, config, fields, actual, history
  <2>1. CASE CheckLogs(t)
    BY <2>1, Types DEF CheckLogs
  <2>2. CASE CollectLogs(t)
    BY <2>2, Types DEF CollectLogs, NilDereference
  <2>3. CASE KillBackground(t)
    BY <2>3, Types DEF KillBackground
  <2>4. CASE WriteReport(t)
    <3>1. Closed.failure = report.failure /\ (report.closes = 0 => Closed.closes = 1)
      BY ClosedEffect
    <3>2. CASE ~interrupted /\ failures = 0
      <4>1. t = "main" /\ report.closes = 0 /\ report.failure = setupFailed
        BY <1>2, <2>4, <3>2, StopFrame, Types DEF WriteReport
      <4>2. stop'["main"] \in {"check", "done"} /\ setupFailed' = setupFailed
        BY <2>4, <4>1, Types DEF WriteReport, AfterReport
      <4>3. format' => file'.closes = 1 /\ file'.failure = setupFailed
        BY <2>4, <3>1, <4>1 DEF WriteReport
      <4> QED BY <4>2, <4>3
    <3> QED BY <2>4, <3>2 DEF WriteReport
  <2>5. CASE WriteReportFails(t)
    BY <2>5, WriteFailsEffect, Types DEF FatalResult, WriteReportFails
  <2>6. CASE WriteNoReport(t)
    BY <2>6, Types DEF WriteNoReport, NilDereference
  <2>7. CASE CheckCluster(t)
    BY <2>7, Types DEF CheckCluster
  <2>8. CASE TakeDown(t)
    BY <2>8, Types DEF TakeDown, NilDereference
  <2>9. CASE Clear(t)
    BY <2>9, Types DEF Clear
  <2>10. CASE LeaveStop(t)
    BY <2>10, Types DEF LeaveStop
  <2> QED
    BY <1>2, <2>1, <2>2, <2>3, <2>4, <2>5, <2>6, <2>7, <2>8, <2>9, <2>10 DEF StopNext
<1>3. CASE Interrupt
  BY <1>3, InterruptEffect, Types
<1>4. CASE OtherStarts
  BY <1>4 DEF OtherStarts, Alive, history, actual, fields, config
<1>5. CASE UNCHANGED vars
  BY <1>5 DEF vars, history, actual, fields, config
<1> QED BY <1>1, <1>2, <1>3, <1>4, <1>5 DEF Next, Terminated
-----------------------------------------------------------------------------
(* The end of the process.                                                 *)

LEMMA NextNothingRunning == IInv /\ [Next]_vars => NothingRunning'
<1> SUFFICES ASSUME IInv, [Next]_vars PROVE NothingRunning'
  OBVIOUS
<1> TypeOK /\ PhaseInv /\ BackgroundInv /\ ClusterInv /\ FieldInv /\ NothingRunning
  BY DEF IInv
<1> USE DEF PhaseInv, NothingRunning, BackgroundInv, ClusterInv, FieldInv, Testing, Written
<1>1. CASE SetupNext
  <2>1. dead' = "no" \/ setupPanic'
    BY <1>1 DEF SetupNext, SetupStep, InSetup, Alive, Panics, history, CheckIgnoreFiles,
       UseExisting, StartEnv, SetEnv, StartKind, IsRunning, RunKind, AddContainers,
       WaitForCluster,
       Install, StartBackground, AssignBackground, EndTests
  <2> QED BY <2>1
<1>2. ASSUME NEW t \in Thread, StopNext(t) PROVE NothingRunning'
  <2>1. CASE CollectLogs(t)
    BY <2>1, StopFrame, <1>2, Types DEF CollectLogs, At, Alive, NilDereference,
       history, fields, actual, config
  <2>2. CASE WriteNoReport(t)
    BY <2>2, StopFrame, <1>2, Types DEF WriteNoReport, At, Alive, NilDereference,
       history, fields, actual, config
  <2>3. CASE TakeDown(t)
    BY <2>3, StopFrame, <1>2, Types DEF TakeDown, At, Alive, NilDereference, history,
       fields, actual, config
  <2>4. CASE LeaveStop(t)
    BY <2>4, StopFrame, <1>2, Types DEF LeaveStop, At, Alive, history, fields, actual,
       config
  <2> QED
    BY <1>2, <2>1, <2>2, <2>3, <2>4 DEF StopNext, CheckLogs, KillBackground,
       WriteReport,
       WriteReportFails, CheckCluster, Clear, At, Alive
<1>3. CASE Interrupt
  BY <1>3, InterruptEffect DEF Alive
<1>4. CASE OtherStarts
  BY <1>4 DEF OtherStarts, Alive
<1>5. CASE UNCHANGED vars
  BY <1>5 DEF vars, history, actual, fields, config
<1> QED BY <1>1, <1>2, <1>3, <1>4, <1>5 DEF Next, Terminated

LEMMA NextNoPanicAlone == IInv /\ [Next]_vars => NoPanicAlone'
<1> SUFFICES ASSUME IInv, [Next]_vars PROVE NoPanicAlone'
  OBVIOUS
<1> TypeOK /\ PhaseInv /\ FieldInv /\ NoPanicAlone
  BY DEF IInv
<1> USE DEF PhaseInv, NoPanicAlone, FieldInv
<1>1. CASE SetupNext
  BY <1>1 DEF SetupNext, SetupStep, InSetup, Alive, Panics, history, CheckIgnoreFiles,
     UseExisting, StartEnv, SetEnv, StartKind, IsRunning, RunKind, AddContainers,
     WaitForCluster,
     Install, StartBackground, AssignBackground, EndTests
<1>2. ASSUME NEW t \in Thread, StopNext(t) PROVE NoPanicAlone'
  <2>1. CASE interrupted
    BY <1>2, <2>1, StopFrame
  <2>2. CASE ~interrupted
    <3>1. t = "main" /\ report.made
      BY <1>2, <2>2, StopFrame, Types
    <3> QED
      BY <1>2, <2>2, <3>1 DEF StopNext, CheckLogs, CollectLogs, KillBackground,
         WriteReport,
         WriteReportFails, WriteNoReport, CheckCluster, TakeDown, Clear, LeaveStop, At,
         Alive
  <2> QED BY <2>1, <2>2
<1>3. CASE Interrupt
  BY <1>3, InterruptEffect DEF Alive
<1>4. CASE OtherStarts
  BY <1>4 DEF OtherStarts, Alive
<1>5. CASE UNCHANGED vars
  BY <1>5 DEF vars, history
<1> QED BY <1>1, <1>2, <1>3, <1>4, <1>5 DEF Next, Terminated

-----------------------------------------------------------------------------
(* Theorems.                                                               *)

LEMMA InitIInv == Init => IInv
<1> SUFFICES ASSUME Init PROVE IInv
  OBVIOUS
<1>1. Flags \subseteq BOOLEAN
  BY Zenon DEF Init, Flags
<1>2. TypeOK
  BY <1>1, HarnessAssumption DEF Init, TypeOK, Flags, NoReport, Thread
<1>3. /\ PhaseInv /\ ModeInv /\ BackgroundInv /\ ClusterInv
      /\ FatalInv /\ FieldInv /\ ReportInv /\ NothingRunning /\ NoPanicAlone
  BY DEF Init, NoReport, Thread, PhaseInv, ModeInv, BackgroundInv, ClusterInv,
     FatalInv, FieldInv,
     ReportInv, NothingRunning, NoPanicAlone
<1> QED BY <1>2, <1>3 DEF IInv

LEMMA Inductive == Spec => []IInv
<1>1. Init => IInv
  BY InitIInv
<1>2. IInv /\ [Next]_vars => IInv'
  BY NextTypeOK, NextPhaseInv, NextModeInv, NextBackgroundInv, NextClusterInv,
     NextFatalInv,
     NextFieldInv, NextReportInv, NextNothingRunning, NextNoPanicAlone
  DEF IInv
<1> QED BY <1>1, <1>2, PTL DEF Spec

\* The variables of the harness keep their types.
THEOREM TypeCorrect == Spec => []TypeOK
<1>1. IInv => TypeOK
  BY DEF IInv
<1> QED BY <1>1, Inductive, PTL

\* Whenever the process ends, however the calls of Stop are nested and raced,
\* nothing that it started runs any more, but for the exceptions that the
\* property names.
THEOREM NothingLeft == Spec => []NothingRunning
<1>1. IInv => NothingRunning
  BY DEF IInv
<1> QED BY <1>1, Inductive, PTL

\* An undisturbed run never uses a field that is nil.
THEOREM NoNilPointer == Spec => []NoPanicAlone
<1>1. IInv => NoPanicAlone
  BY DEF IInv
<1> QED BY <1>1, Inductive, PTL

\* The report of an undisturbed run is closed once and tells of fatal errors.
THEOREM TruthfulReport == Spec => []ReportTruthful
<1>1. IInv => ReportTruthful
  BY DEF IInv, PhaseInv, ReportInv, ReportTruthful
<1> QED BY <1>1, Inductive, PTL

\* A kind cluster that kuttl found is never taken down by it, but for an
\* interrupt while it takes that cluster for its own.
THEOREM FoundClusterKept == Spec => RunningClusterKept
<1>1. IInv /\ [Next]_vars
        => [running = "other" /\ (pc # "kindset" \/ ~interrupted) => running' = "other"]_vars
  <2> SUFFICES ASSUME IInv, Next, running = "other", pc # "kindset" \/ ~interrupted
               PROVE  running' = "other"
    BY DEF vars, actual
  <2> PhaseInv /\ ModeInv /\ TypeOK
    BY DEF IInv
  <2>1. CASE SetupNext
    BY <2>1 DEF ModeInv, SetupNext, SetupStep, InSetup, actual, CheckIgnoreFiles,
       UseExisting,
       StartEnv, SetEnv, StartKind, IsRunning, RunKind, AddContainers, WaitForCluster,
       Install,
       StartBackground, AssignBackground, EndTests
  <2>2. ASSUME NEW t \in Thread, StopNext(t) PROVE running' = "other"
    <3>1. CASE TakeDown(t)
      <4>1. ~field
        BY <3>1, Types DEF TakeDown, At, PhaseInv, ModeInv
      <4> QED BY <3>1, <4>1 DEF TakeDown
    <3> QED
      BY <2>2, <3>1 DEF StopNext, CheckLogs, CollectLogs, KillBackground, WriteReport,
         WriteReportFails, WriteNoReport, CheckCluster, Clear, LeaveStop, actual
  <2> QED
    BY <2>1, <2>2 DEF Next, Interrupt, OtherStarts, Terminated, vars, actual
<1> QED BY <1>1, Inductive, PTL DEF Spec, RunningClusterKept
=============================================================================
