--------------------------- MODULE StepRun_proofs ----------------------------
(***************************************************************************)
(* Proofs about StepRun: for any unit of time, timeouts, lists of objects  *)
(* and of commands, expressions and collectors.                            *)
(***************************************************************************)
EXTENDS StepRun, FiniteSetTheorems, SequenceTheorems, TLAPS

-----------------------------------------------------------------------------
(* The inductive invariant.                                                *)

\* The deletions, up to the first command, and the loop with its Checks.
Deleting == {"delete", "deleting", "wait"}
Looping == {"loop", "asserts", "assertcmd", "running", "expression", "errors", "judge", "sleep"}
Ended == {"failed", "collecting", "verdict", "done"}

\* The time a Check may give a command is a part of the timeout.
TimeInv == /\ budget * Unit <= Cap
           /\ elapsed <= clock
           /\ pc \notin Looping \cup Ended => elapsed = 0

\* Names that were deleted and are free have been free since; those that the
\* wait is past have been free.
GoneInv == /\ pc = "delete" => next = 1
           /\ pc = "deleting" => \A i \in 1..next - 1 :
                 doomed[toDelete[i]] = "absent" => toDelete[i] \in wasGone
           /\ pc = "wait" => /\ \A i \in 1..Len(toDelete) :
                                   doomed[toDelete[i]] = "absent" => toDelete[i] \in wasGone
                             /\ \A i \in 1..next - 1 : toDelete[i] \in wasGone
           /\ pc \in {"commands", "command", "create"} \cup Looping
              => ToSet(toDelete) \subseteq wasGone

\* Errors are those of one Check, and without any the Check holds so far.
CheckInv ==
    /\ pc \in Deleting \cup {"commands", "command"} => testErrors = {}
    /\ pc = "create" => testErrors \subseteq {"setup"}
    /\ pc \in Looping \cup {"failed", "collecting"} => "setup" \notin testErrors
    /\ pc \in {"sleep", "failed", "collecting"} => testErrors # {}
    /\ pc = "loop" /\ testErrors = {} => elapsed = 0
    /\ pc \in {"assertcmd", "running", "expression"} => hasAssert
    /\ pc = "running" => more > 0
    /\ testErrors = {} =>
         /\ pc = "asserts" => held = {}
         /\ pc \in {"assertcmd", "running"} => held = {"assert"}
         /\ pc = "expression" => held = {"assert", "command"}
         /\ pc = "errors" => held = Expected \ {"errors"}
         /\ pc = "judge" => held = Expected
         /\ pc \in {"verdict", "done"} /\ timeout > 0 => held = Expected

\* The budget of a Check is the rest of the timeout but for a part of a
\* second, and a command that used it up is late in the step too.
LateInv ==
    /\ pc \in {"asserts", "assertcmd", "running"}
         => elapsed + budget * Unit + Unit > timeout * Unit
    /\ pc = "running" /\ left # NoLimit
         => clock + left >= elapsed + budget * Unit \/ clock = Cap
    /\ "lateCommand" \in testErrors => clock + Unit > timeout * Unit

\* The loop is left with errors only when the time is up, or something timed
\* out.
EndInv ==
    /\ pc \in Ended /\ testErrors # {} /\ "setup" \notin testErrors
         => clock >= timeout * Unit \/ hasTimeoutErr(testErrors)
    /\ result = "pass" => pc = "done" /\ testErrors = {}
    /\ result = "fail" => pc = "done" /\ testErrors # {}

IInv == TypeOK /\ TimeInv /\ GoneInv /\ CheckInv /\ LateInv /\ EndInv

-----------------------------------------------------------------------------
(* Arithmetic and expressions.                                             *)

LEMMA Bounds == /\ Unit \in Nat \ {0} /\ Timeouts \subseteq Int \ {0}
                /\ \E t \in Timeouts : t > 0 /\ \A u \in Timeouts : u <= t
                /\ AssertCommands \in Nat
BY Zenon, StepRunAssumption

\* A timeout fits into the time that is counted.
LEMMA CapBounds == /\ Cap \in Nat /\ Unit \in Nat \ {0}
                   /\ \A t \in Timeouts : t \in Int /\ t * Unit <= Cap
<1> DEFINE m == CHOOSE t \in Timeouts : \A u \in Timeouts : u <= t
<1>1. m \in Timeouts /\ \A u \in Timeouts : u <= m
  BY Bounds
<1> HIDE DEF m
<1>2. m \in Nat /\ Unit \in Nat \ {0} /\ Timeouts \subseteq Int
  BY <1>1, Bounds
<1>3. Cap = Unit * m
  BY DEF Cap, m
<1>4. ASSUME NEW t \in Timeouts PROVE t * Unit <= m * Unit
  BY <1>1, <1>2
<1> QED BY <1>1, <1>2, <1>3, <1>4

LEMMA TimesUnit == ASSUME NEW q \in Nat, NEW u \in Nat, u > 0 PROVE q <= q * u
OBVIOUS

\* A whole number of seconds that is cut from a rest is not longer than it,
\* and less than a second shorter.
LEMMA BudgetBound ==
    ASSUME NEW rest \in Nat
    PROVE  /\ rest \div Unit \in 0..rest /\ (rest \div Unit) * Unit <= rest
           /\ rest < (rest \div Unit) * Unit + Unit
<1> DEFINE q == rest \div Unit
<1>1. q \in Nat /\ q * Unit <= rest /\ rest < q * Unit + Unit
  BY Bounds
<1> HIDE DEF q
<1>2. q <= q * Unit
  BY <1>1, Bounds, TimesUnit
<1>3. q \in 0..rest
  BY <1>1, <1>2, Bounds
<1> QED BY <1>1, <1>3 DEF q

\* RunAssertExpressions finds no error exactly if the expressions hold as
\* assertAny and assertAll mean it: counting the errors is enough.
LEMMA ExpressionsCounted ==
    ASSUME NEW true
    PROVE  RunAssertExpressions(true) <=> ExpressionsHold(true)
<1> DEFINE errs == AssertAny \ true
<1>1. IsFiniteSet(AssertAny) /\ errs \subseteq AssertAny
  BY StepRunAssumption
<1>2. errs # AssertAny => Cardinality(errs) # Cardinality(AssertAny)
  BY <1>1, FS_Subset
<1>3. (Cardinality(errs) # Cardinality(AssertAny)) <=> \E e \in AssertAny : e \in true
  BY <1>1, <1>2
<1>4. (AssertAll \ true = {}) <=> AssertAll \subseteq true
  OBVIOUS
<1> QED BY <1>3, <1>4 DEF RunAssertExpressions, ExpressionsHold

LEMMA DeadlineType == \A n \in Int : n * Unit <= Cap => Deadline(n) \in {NoLimit} \cup 0..Cap
BY CapBounds DEF Deadline

LEMMA ListFacts ==
    ASSUME TypeOK
    PROVE  /\ Len(toDelete) \in Nat
           /\ ToSet(toDelete) = {toDelete[i] : i \in 1..Len(toDelete)}
           /\ \A i \in 1..Len(toDelete) : toDelete[i] \in Objects
<1>1. toDelete \in Deletes /\ toDelete \in Seq(Objects)
  BY StepRunAssumption DEF TypeOK
<1> QED BY <1>1 DEF ToSet

-----------------------------------------------------------------------------
(* Types.                                                                  *)

Places == {"delete", "deleting", "wait", "commands", "command", "create", "loop", "asserts",
           "assertcmd", "running", "expression", "errors", "judge", "sleep", "failed",
           "collecting", "verdict", "done"}
Parts == {"assert", "command", "expression", "errors"}
Flags == {hasAssert, lingers, matches, forbidden}

Timers == /\ clock \in 0..Cap /\ elapsed \in 0..Cap
          /\ left \in {NoLimit} \cup 0..Cap
          /\ nap \in 0..Unit
          /\ budget \in 0..Cap

LEMMA NextTimers == IInv /\ [Next]_vars => Timers' /\ TimeInv'
<1> SUFFICES ASSUME IInv, [Next]_vars PROVE Timers' /\ TimeInv'
  OBVIOUS
<1> DEFINE T == Timers' /\ TimeInv'
<1> Timers /\ TimeInv /\ CheckInv /\ timeout \in Timeouts
  BY DEF IInv, TypeOK, Timers
<1> USE Bounds, CapBounds DEF Timers, TimeInv, Looping, Ended, Deleting, config, timers, NoLimit
<1>1. CASE Tick
  BY <1>1 DEF Tick, Less1
<1>2. CASE StartWait
  BY <1>2 DEF StartWait
<1>3. CASE RunCommands
  BY <1>3, DeadlineType DEF RunCommands
<1>4. CASE StepCommandEnds
  BY <1>4 DEF StepCommandEnds
<1>5. CASE Create
  BY <1>5 DEF Create
<1>6. CASE NextRound
  <2>1. /\ clock' = clock /\ elapsed' = elapsed /\ left' = left /\ nap' = nap
        /\ pc = "loop" /\ pc' \in Looping \cup Ended
    BY <1>6 DEF NextRound, AfterLoop
  <2>2. budget' * Unit <= Cap /\ budget' \in 0..Cap
    <3>1. CASE elapsed < timeout * Unit
      <4>1. timeout * Unit - elapsed \in 0..Cap
        BY <3>1
      <4> QED BY <1>6, <3>1, <4>1, BudgetBound DEF NextRound
    <3>2. CASE ~(elapsed < timeout * Unit)
      BY <1>6, <3>2 DEF NextRound
    <3> QED BY <3>1, <3>2
  <2> QED BY <2>1, <2>2
<1>7. CASE CheckAssertCommands
  BY <1>7, DeadlineType DEF CheckAssertCommands
<1>8. CASE AssertCommandEnds
  BY <1>8 DEF AssertCommandEnds
<1>9. CASE Judge
  BY <1>9 DEF Judge, AfterLoop
<1>10. CASE Wake
  BY <1>10 DEF Wake
<1>11. CASE Collect
  BY <1>11, DeadlineType DEF Collect
<1>12. CASE CollectorEnds
  BY <1>12 DEF CollectorEnds
<1>13. CASE DeleteExisting \/ DeleteNext \/ WaitForDelete
  BY <1>13 DEF DeleteExisting, DeleteNext, WaitForDelete, SetupFails
<1>14. CASE \/ CheckResource \/ CheckAssertExpressions \/ CheckResourceAbsent \/ Verdict
            \/ WorldMoves \/ UNCHANGED vars
  BY <1>14 DEF CheckResource, CheckAssertExpressions, CheckResourceAbsent, Verdict,
     WorldMoves,
     DoomedMoves, AssertedMove, vars
<1> QED
  BY <1>1, <1>2, <1>3, <1>4, <1>5, <1>6, <1>7, <1>8, <1>9, <1>10, <1>11, <1>12, <1>13,
     <1>14
  DEF Next, StepNext, CommandEnds, StepCommandKilled, AssertCommandKilled,
     CollectorKilled

Control == /\ pc \in Places
           /\ testErrors \subseteq Failures
           /\ held \subseteq Parts
           /\ result \in {"none", "pass", "fail"}
Deletions == /\ next \in 1..Len(toDelete) + 1
             /\ doomed \in [Objects -> {"present", "terminating", "absent"}]
             /\ wasGone \subseteq Objects
Queues == /\ stepCmds \in Seq({"foreground", "background"})
          /\ procs \in Nat
          /\ more \in 0..AssertCommands

LEMMA NextTypeOK == IInv /\ [Next]_vars => TypeOK'
<1> SUFFICES ASSUME IInv, [Next]_vars PROVE TypeOK'
  OBVIOUS
<1> TypeOK /\ TimeInv /\ CheckInv
  BY DEF IInv
<1> USE DEF config, timers, queues, world, history, SetupFails, Killed
<1>a. /\ timeout' \in Timeouts /\ toDelete' \in Deletes /\ toDelete' = toDelete
      /\ Flags' \subseteq BOOLEAN
  BY Zenon DEF TypeOK, Flags, Next, vars, StepNext, CommandEnds, Tick, WorldMoves,
     DoomedMoves,
     AssertedMove, DeleteExisting, DeleteNext, StartWait, WaitForDelete, RunCommands,
     StepCommandKilled, StepCommandEnds, Create, NextRound, CheckResource,
     CheckAssertCommands,
     AssertCommandKilled, AssertCommandEnds, CheckAssertExpressions,
     CheckResourceAbsent, Judge,
     Wake, Collect, CollectorKilled, CollectorEnds, Verdict
<1>b. Timers' /\ TimeInv'
  BY NextTimers DEF TypeOK, Timers
<1>c. Control'
  BY DEF TypeOK, Control, Places, Parts, Failures, Next, vars, StepNext, CommandEnds,
     Tick, WorldMoves,
     DoomedMoves, AssertedMove, DeleteExisting, DeleteNext, StartWait, WaitForDelete,
     RunCommands,
     StepCommandKilled, StepCommandEnds, Create, NextRound, AfterLoop, CheckResource,
     Finds,
     CheckAssertCommands, AssertCommandKilled, AssertCommandEnds,
     CheckAssertExpressions,
     CheckResourceAbsent, Judge, Wake, Collect, CollectorKilled, CollectorEnds, Verdict, Late
<1>d. Deletions'
  <2>1. CASE DoomedMoves
    BY <2>1, ListFacts DEF DoomedMoves, TypeOK, Deletions
  <2>2. CASE DeleteNext
    BY <2>2, ListFacts DEF DeleteNext, TypeOK, Deletions
  <2>3. CASE StartWait \/ WaitForDelete
    BY <2>3, ListFacts DEF StartWait, WaitForDelete, TypeOK, Deletions
  <2>4. CASE UNCHANGED <<toDelete, next, doomed, wasGone>>
    BY <2>4 DEF TypeOK, Deletions
  <2> QED
    BY <2>1, <2>2, <2>3, <2>4
    DEF Next, vars, StepNext, CommandEnds, Tick, WorldMoves,
     AssertedMove, DeleteExisting, RunCommands,
     StepCommandKilled, StepCommandEnds, Create, NextRound, CheckResource,
     CheckAssertCommands, AssertCommandKilled, AssertCommandEnds,
     CheckAssertExpressions,
     CheckResourceAbsent, Judge, Wake, Collect, CollectorKilled, CollectorEnds, Verdict
<1>e. Queues'
  <2> DEFINE Cmds == Seq({"foreground", "background"})
  <2>0. stepCmds \in Cmds /\ procs \in Nat /\ more \in 0..AssertCommands
    BY DEF TypeOK
  <2>e. <<>> \in Cmds
    OBVIOUS
  <2>t. stepCmds # <<>> => Tail(stepCmds) \in Cmds
    BY <2>0, HeadTailProperties
  <2> HIDE DEF Cmds
  <2>q. Queues' <=> stepCmds' \in Cmds /\ procs' \in Nat /\ more' \in 0..AssertCommands
    BY DEF Queues, Cmds
  <2>1. CASE RunCommands
    <3>1. stepCmds' \in Cmds
      BY <2>0, <2>e, <2>t, <2>1 DEF RunCommands
    <3>2. procs' \in Nat /\ more' = more
      BY <2>0, <2>1 DEF RunCommands
    <3> QED BY <2>0, <2>q, <3>1, <3>2
  <2>2. CASE StepCommandEnds
    BY <2>0, <2>e, <2>q, <2>2 DEF StepCommandEnds
  <2>3. CASE CheckResource \/ AssertCommandEnds \/ CheckAssertCommands
    <3>1. pc = "running" => more > 0
      BY DEF CheckInv
    <3>2. more' \in 0..AssertCommands
      <4>1. \/ more' \in {more, 0, AssertCommands}
            \/ pc = "running" /\ more' = more - 1
        BY <2>3 DEF CheckResource, AssertCommandEnds, CheckAssertCommands
      <4> QED BY <2>0, <3>1, <4>1, Bounds
    <3>3. stepCmds' = stepCmds /\ procs' = procs
      BY <2>3 DEF CheckResource, AssertCommandEnds, CheckAssertCommands
    <3> QED BY <2>0, <2>q, <3>2, <3>3
  <2>4. CASE UNCHANGED <<stepCmds, procs, more>>
    BY <2>0, <2>q, <2>4
  <2> QED
    BY <2>1, <2>2, <2>3, <2>4
    DEF Next, vars, StepNext, CommandEnds, Tick, WorldMoves, DoomedMoves,
     AssertedMove, DeleteExisting, DeleteNext, StartWait, WaitForDelete,
     StepCommandKilled, Create, NextRound,
     AssertCommandKilled, CheckAssertExpressions,
     CheckResourceAbsent, Judge, Wake, Collect, CollectorKilled, CollectorEnds, Verdict
<1> QED BY <1>a, <1>b, <1>c, <1>d, <1>e DEF TypeOK, Timers, Control, Deletions, Queues,
   Flags, Parts, Places

-----------------------------------------------------------------------------
(* Deletions.                                                              *)

LEMMA NextGoneInv == IInv /\ [Next]_vars => GoneInv'
<1> SUFFICES ASSUME IInv, [Next]_vars PROVE GoneInv'
  OBVIOUS
<1> DEFINE Index == 1..Len(toDelete)
<1>a. GoneInv /\ Deletions /\ toDelete' = toDelete /\ Deletions'
  BY NextTypeOK DEF IInv, TypeOK, Deletions, Next, vars, config, StepNext, CommandEnds,
     Tick, WorldMoves,
     DoomedMoves, AssertedMove, DeleteExisting, DeleteNext, StartWait, WaitForDelete,
     RunCommands,
     StepCommandKilled, StepCommandEnds, Create, NextRound, CheckResource,
     CheckAssertCommands,
     AssertCommandKilled, AssertCommandEnds, CheckAssertExpressions,
     CheckResourceAbsent, Judge,
     Wake, Collect, CollectorKilled, CollectorEnds, Verdict
<1>b. /\ Len(toDelete) \in Nat
      /\ ToSet(toDelete) = {toDelete[i] : i \in Index}
      /\ \A i \in Index : toDelete[i] \in Objects
  BY ListFacts DEF IInv
<1> USE <1>a, <1>b DEF GoneInv, Deletions, queues, world, history, SetupFails
<1>1. CASE DoomedMoves /\ pc \in Deleting
  <2>1. PICK o \in ToSet(toDelete) :
          \/ /\ doomed[o] = "terminating"
             /\ doomed' = [doomed EXCEPT ![o] = "absent"]
             /\ wasGone' = wasGone \cup {o}
          \/ /\ doomed[o] = "absent"
             /\ doomed' = [doomed EXCEPT ![o] = "present"]
             /\ UNCHANGED wasGone
    BY <1>1 DEF DoomedMoves
  <2>2. \A i \in Index : doomed'[toDelete[i]] = "absent" =>
           doomed[toDelete[i]] = "absent" \/ toDelete[i] \in wasGone'
    BY <2>1
  <2>3. wasGone \subseteq wasGone' /\ pc' = pc /\ next' = next
    BY <1>1, <2>1 DEF DoomedMoves
  <2> QED BY <1>1, <2>2, <2>3 DEF Looping, Deleting
<1>2. CASE DeleteNext
  <2>1. pc = "deleting" /\ next \in Index
    BY <1>2 DEF DeleteNext
  <2> DEFINE o == toDelete[next]
  <2>2. CASE SetupFails
    BY <2>2 DEF Looping
  <2>3. CASE ~SetupFails
    <3>1. next' = next + 1 /\ pc' = "deleting"
      BY <1>2, <2>3 DEF DeleteNext
    <3>2. \/ doomed' = doomed /\ wasGone' = wasGone \cup {o}
          \/ doomed' = [doomed EXCEPT ![o] = "terminating"] /\ wasGone' = wasGone
      BY <1>2, <2>3 DEF DeleteNext
    <3>3. doomed'[o] = "absent" => o \in wasGone'
      BY <2>1, <3>2
    <3>4. \A i \in 1..next - 1 : doomed'[toDelete[i]] = "absent" => toDelete[i] \in wasGone'
      BY <2>1, <3>2
    <3> QED BY <2>1, <3>1, <3>3, <3>4 DEF Looping
  <2> QED BY <2>2, <2>3
<1>3. CASE StartWait
  BY <1>3 DEF StartWait, Looping
<1>4. CASE WaitForDelete
  <2>1. CASE next > Len(toDelete)
    <3>1. pc = "wait" /\ pc' = "commands" /\ wasGone' = wasGone
      BY <1>4, <2>1 DEF WaitForDelete
    <3>2. \A i \in Index : toDelete[i] \in wasGone
      BY <2>1, <3>1
    <3>3. ToSet(toDelete) \subseteq wasGone
      BY <3>2
    <3> QED BY <3>1, <3>3 DEF Looping
  <2>2. CASE ~(next > Len(toDelete))
    <3>1. doomed' = doomed /\ wasGone' = wasGone
      BY <1>4 DEF WaitForDelete
    <3>2. CASE pc' = "verdict"
      BY <3>2 DEF Looping
    <3>3. CASE pc' # "verdict"
      <4>1. pc' = "wait" /\ (next' = 1 \/ (next' = next + 1 /\ doomed[toDelete[next]] = "absent"))
        BY <1>4, <2>2, <3>3, Zenon DEF WaitForDelete
      <4>2. pc = "wait" /\ next \in Index
        BY <1>4, <2>2 DEF WaitForDelete
      <4>3. \A i \in Index : doomed[toDelete[i]] = "absent" => toDelete[i] \in wasGone
        BY <4>2
      <4>4. \A i \in 1..next' - 1 : toDelete[i] \in wasGone
        BY <4>1, <4>2, <4>3
      <4> QED BY <3>1, <4>1, <4>3, <4>4 DEF Looping
    <3> QED BY <3>2, <3>3
  <2> QED BY <2>1, <2>2
<1>5. CASE \/ DeleteExisting \/ RunCommands \/ StepCommandEnds \/ Create \/ Tick
           \/ (WorldMoves /\ pc \notin Deleting) \/ UNCHANGED vars
  <2>1. CASE DeleteExisting
    BY <2>1 DEF DeleteExisting, Looping
  <2>2. CASE RunCommands \/ StepCommandEnds \/ Create
    BY <2>2 DEF RunCommands, StepCommandEnds, Create, Looping
  <2>3. CASE Tick \/ (WorldMoves /\ pc \notin Deleting) \/ UNCHANGED vars
    BY <2>3 DEF Tick, WorldMoves, AssertedMove, vars, Deleting
  <2> QED BY <1>5, <2>1, <2>2, <2>3
<1>6. CASE \/ NextRound \/ CheckResource \/ CheckAssertCommands \/ AssertCommandEnds
           \/ CheckAssertExpressions \/ CheckResourceAbsent \/ Judge \/ Wake
           \/ Collect \/ CollectorEnds \/ Verdict
  <2>1. UNCHANGED <<doomed, wasGone, next>>
    BY <1>6 DEF NextRound, CheckResource, CheckAssertCommands, AssertCommandEnds,
       CheckAssertExpressions, CheckResourceAbsent, Judge, Wake, Collect,
       CollectorEnds, Verdict
  <2>2. \/ pc \in Looping
        \/ pc' \in Ended
    BY <1>6 DEF Looping, Ended, NextRound, AfterLoop, CheckResource,
       CheckAssertCommands, AssertCommandEnds,
       CheckAssertExpressions, CheckResourceAbsent, Judge, Wake, Collect,
       CollectorEnds, Verdict
  <2>3. pc' \in Looping \cup Ended
    BY <1>6 DEF Looping, Ended, NextRound, AfterLoop, CheckResource,
       CheckAssertCommands, AssertCommandEnds,
       CheckAssertExpressions, CheckResourceAbsent, Judge, Wake, Collect,
       CollectorEnds, Verdict
  <2> QED BY <2>1, <2>2, <2>3 DEF Looping, Ended
<1> QED
  BY <1>1, <1>2, <1>3, <1>4, <1>5, <1>6
  DEF Next, StepNext, CommandEnds, StepCommandKilled, AssertCommandKilled,
     CollectorKilled, WorldMoves, Deleting, Looping

-----------------------------------------------------------------------------
(* The loop and its errors.                                                *)

\* A part of Check finds what it is about to hold, or adds errors.
LEMMA FindsEffect ==
    ASSUME NEW what, NEW ok, Finds(what, ok)
    PROVE  \/ held' = held \cup {what} /\ testErrors' = testErrors
           \/ held' = held /\ testErrors' # {}
              /\ (\E found \in SUBSET {what, "lateRead"} : testErrors' = testErrors \cup found)
<1>1. CASE held' = held \cup {what} /\ testErrors' = testErrors
  BY <1>1
<1>2. ASSUME held' = held,
             NEW found \in (SUBSET {what, "lateRead"}) \ {{}},
             testErrors' = testErrors \cup found
      PROVE  /\ testErrors' # {}
             /\ \E f \in SUBSET {what, "lateRead"} : testErrors' = testErrors \cup f
  <2>1. PICK e \in found : TRUE
    BY <1>2
  <2>2. e \in testErrors'
    BY <1>2
  <2> QED BY <1>2, <2>2
<1> QED BY <1>1, <1>2 DEF Finds

LEMMA NextCheckInv == IInv /\ [Next]_vars => CheckInv'
<1> SUFFICES ASSUME IInv, [Next]_vars PROVE CheckInv'
  OBVIOUS
<1> CheckInv /\ TypeOK
  BY DEF IInv
<1> USE DEF CheckInv, Expected, Deleting, Looping, config, timers, queues, history, world,
            SetupFails
<1>1. CASE DeleteExisting \/ DeleteNext \/ StartWait \/ WaitForDelete
  BY <1>1 DEF DeleteExisting, DeleteNext, StartWait, WaitForDelete
<1>2. CASE RunCommands
  BY <1>2 DEF RunCommands
<1>3. CASE StepCommandEnds
  BY <1>3 DEF StepCommandEnds
<1>4. CASE Create
  BY <1>4 DEF Create
<1>5. CASE NextRound
  BY <1>5, Bounds DEF NextRound, AfterLoop, TypeOK
<1>6. CASE CheckResource
  <2>1. Finds("assert", matches) /\ pc = "asserts"
    BY <1>6 DEF CheckResource
  <2>2. PICK f \in SUBSET {"assert", "lateRead"} :
           \/ held' = held \cup {"assert"} /\ testErrors' = testErrors
           \/ held' = held /\ testErrors' # {} /\ testErrors' = testErrors \cup f
    BY <2>1, FindsEffect
  <2>3. "setup" \notin testErrors'
    BY <2>1, <2>2
  <2> QED BY <1>6, <2>1, <2>2, <2>3 DEF CheckResource
<1>7. CASE CheckAssertCommands
  <2>1. more \in Nat
    BY Bounds DEF TypeOK
  <2> QED BY <1>7, <2>1 DEF CheckAssertCommands
<1>8. CASE AssertCommandEnds
  BY <1>8 DEF AssertCommandEnds
<1>9. CASE CheckAssertExpressions
  BY <1>9, ExpressionsCounted DEF CheckAssertExpressions
<1>10. CASE CheckResourceAbsent
  <2>1. Finds("errors", ~forbidden) /\ pc = "errors" /\ pc' = "judge"
    BY <1>10 DEF CheckResourceAbsent
  <2>2. PICK f \in SUBSET {"errors", "lateRead"} :
           \/ held' = held \cup {"errors"} /\ testErrors' = testErrors
           \/ held' = held /\ testErrors' # {} /\ testErrors' = testErrors \cup f
    BY <2>1, FindsEffect
  <2>3. "setup" \notin testErrors'
    BY <2>1, <2>2
  <2>4. hasAssert' = hasAssert /\ timeout' = timeout /\ elapsed' = elapsed
    BY <1>10 DEF CheckResourceAbsent
  <2> QED BY <2>1, <2>2, <2>3, <2>4
<1>11. CASE Judge
  BY <1>11 DEF Judge, AfterLoop
<1>12. CASE Wake
  BY <1>12 DEF Wake
<1>13. CASE Collect \/ CollectorEnds \/ Verdict
  BY <1>13 DEF Collect, CollectorEnds, Verdict
<1>14. CASE Tick \/ WorldMoves \/ UNCHANGED vars
  BY <1>14 DEF Tick, WorldMoves, DoomedMoves, AssertedMove, vars
<1> QED
  BY <1>1, <1>2, <1>3, <1>4, <1>5, <1>6, <1>7, <1>8, <1>9, <1>10, <1>11, <1>12, <1>13,
     <1>14
  DEF Next, StepNext, CommandEnds, StepCommandKilled, AssertCommandKilled,
     CollectorKilled

LEMMA NextLateInv == IInv /\ [Next]_vars => LateInv'
<1> SUFFICES ASSUME IInv, [Next]_vars PROVE LateInv'
  OBVIOUS
<1> DEFINE T == timeout * Unit
<1> DEFINE B == budget * Unit
<1>a. LateInv /\ TypeOK /\ TimeInv /\ CheckInv
  BY DEF IInv
<1>b. /\ T \in Int /\ B \in Int /\ Unit \in Nat \ {0} /\ T <= Cap /\ Cap \in Nat
      /\ clock \in 0..Cap /\ elapsed \in 0..clock /\ budget \in Nat
      /\ left \in {NoLimit} \cup 0..Cap
  BY <1>a, Bounds, CapBounds DEF TypeOK, TimeInv
<1>c. /\ pc \in {"asserts", "assertcmd", "running"} => elapsed + B + Unit > T
      /\ pc = "running" /\ left # NoLimit => clock + left >= elapsed + B \/ clock = Cap
      /\ "lateCommand" \in testErrors => clock + Unit > T
  BY <1>a DEF LateInv
<1>d. timeout' = timeout
  BY DEF Next, vars, config, StepNext, CommandEnds, Tick, WorldMoves, DoomedMoves, AssertedMove,
     DeleteExisting, DeleteNext, StartWait, WaitForDelete, RunCommands, StepCommandKilled,
     StepCommandEnds, Create, NextRound, CheckResource, CheckAssertCommands,
     AssertCommandKilled, AssertCommandEnds, CheckAssertExpressions, CheckResourceAbsent,
     Judge, Wake, Collect, CollectorKilled, CollectorEnds, Verdict
<1> USE DEF config, timers, queues, history, world
<1>1. CASE NextRound
  <2>1. CASE elapsed < T
    <3>1. T - elapsed \in Nat /\ budget' = (T - elapsed) \div Unit
      BY <1>1, <1>b, <2>1 DEF NextRound
    <3>2. T - elapsed < budget' * Unit + Unit /\ budget' \in Nat
      BY <3>1, BudgetBound
    <3>3. elapsed' + budget' * Unit + Unit > T
      <4> DEFINE C == budget' * Unit
      <4>1. C \in Int
        BY <1>b, <3>2
      <4>2. T - elapsed < C + Unit /\ elapsed' = elapsed
        BY <1>1, <3>2 DEF NextRound
      <4> HIDE DEF C, T
      <4>3. elapsed' + C + Unit > T
        BY <1>b, <4>1, <4>2
      <4> QED BY <4>3 DEF C
    <3>4. pc' = "asserts" /\ testErrors' = {}
      BY <1>1, <2>1 DEF NextRound
    <3> QED BY <1>d, <3>3, <3>4 DEF LateInv
  <2>2. CASE ~(elapsed < T)
    <3>1. pc' \in {"verdict", "failed"} /\ testErrors' = testErrors /\ clock' = clock
      BY <1>1, <2>2 DEF NextRound, AfterLoop
    <3> QED BY <1>a, <1>d, <3>1 DEF LateInv
  <2> QED BY <2>1, <2>2
<1>2. CASE ~NextRound
  <2>1. budget' = budget
    BY <1>2 DEF Next, vars, StepNext, CommandEnds, Tick, WorldMoves, DoomedMoves, AssertedMove,
       DeleteExisting, DeleteNext, StartWait, WaitForDelete, RunCommands, StepCommandKilled,
       StepCommandEnds, Create, CheckResource, CheckAssertCommands,
       AssertCommandKilled, AssertCommandEnds, CheckAssertExpressions, CheckResourceAbsent,
       Judge, Wake, Collect, CollectorKilled, CollectorEnds, Verdict
  <2> DEFINE Quiet == /\ elapsed' = elapsed /\ clock' = clock /\ left' = left
                      /\ "lateCommand" \in testErrors' => "lateCommand" \in testErrors
                      /\ pc' \in {"asserts", "assertcmd"}
                           => pc \in {"asserts", "assertcmd", "running"}
                      /\ pc' = "running" => pc = "running"
  <2> SUFFICES /\ pc' \in {"asserts", "assertcmd", "running"} => elapsed' + B + Unit > T
               /\ pc' = "running" /\ left' # NoLimit
                    => clock' + left' >= elapsed' + B \/ clock' = Cap
               /\ "lateCommand" \in testErrors' => clock' + Unit > T
    BY <1>d, <2>1 DEF LateInv
  <2> DEFINE Goal == /\ pc' \in {"asserts", "assertcmd", "running"} => elapsed' + B + Unit > T
                     /\ pc' = "running" /\ left' # NoLimit
                          => clock' + left' >= elapsed' + B \/ clock' = Cap
                     /\ "lateCommand" \in testErrors' => clock' + Unit > T
  <2> HIDE DEF T, B
  <2>z. ASSUME Quiet PROVE Goal
    BY <1>c, <2>z
  <2>2. CASE Tick
    <3>1. /\ elapsed' = elapsed /\ testErrors' = testErrors /\ pc' = pc
          /\ clock' = IF clock < Cap THEN clock + 1 ELSE clock
          /\ left' = IF left > 0 THEN left - 1 ELSE left
      BY <2>2 DEF Tick, Less1
    <3>2. clock' >= clock /\ clock' \in 0..Cap /\ left' \in {NoLimit} \cup 0..Cap
      BY <1>b, <3>1 DEF NoLimit
    <3>3. left' # NoLimit => left # NoLimit /\ (clock' = Cap \/ clock' + left' >= clock + left)
      BY <1>b, <3>1 DEF NoLimit
    <3>4. ASSUME pc' = "running", left' # NoLimit
          PROVE  clock' + left' >= elapsed' + B \/ clock' = Cap
      <4>1. left # NoLimit /\ (clock' = Cap \/ clock' + left' >= clock + left)
        BY <3>3, <3>4
      <4>2. clock + left >= elapsed + B \/ clock = Cap
        BY <1>c, <3>1, <3>4, <4>1
      <4>3. left \in Int /\ left' \in Int
        BY <1>b, <3>2 DEF NoLimit
      <4> QED BY <1>b, <3>1, <3>2, <4>1, <4>2, <4>3
    <3>5. "lateCommand" \in testErrors' => clock' + Unit > T
      BY <1>b, <1>c, <3>1, <3>2
    <3>6. pc' \in {"asserts", "assertcmd", "running"} => elapsed' + B + Unit > T
      BY <1>c, <3>1
    <3> QED BY <3>4, <3>5, <3>6
  <2>3. CASE DeleteExisting \/ DeleteNext \/ WaitForDelete
    BY <2>3, <2>z DEF DeleteExisting, DeleteNext, WaitForDelete, SetupFails
  <2>4. CASE StartWait \/ Create
    <3>0. pc \in {"deleting", "create"} => testErrors \in SUBSET {"setup"}
      BY <1>a DEF CheckInv, Deleting
    <3>1. testErrors' \in SUBSET {"setup"}
      BY <2>4, <3>0 DEF StartWait, Create
    <3>2. pc' \in {"wait", "loop", "verdict"}
      BY <2>4 DEF StartWait, Create
    <3> QED BY <3>1, <3>2
  <2>5. CASE RunCommands \/ StepCommandEnds \/ Wake \/ Collect \/ CollectorEnds
    <3>1. testErrors' \in {testErrors, {"setup"}} /\ clock' = clock
      BY <2>5 DEF RunCommands, StepCommandEnds, Wake, Collect, CollectorEnds
    <3>2. pc' \in {pc, "commands", "command", "create", "loop", "collecting", "verdict"}
          /\ pc \in {"commands", "command", "sleep", "failed", "collecting"}
      BY <2>5 DEF RunCommands, StepCommandEnds, Wake, Collect, CollectorEnds
    <3>3. pc' \notin {"asserts", "assertcmd", "running"}
      BY <3>2
    <3>4. "lateCommand" \in testErrors' => "lateCommand" \in testErrors
      BY <3>1
    <3> QED BY <1>c, <3>1, <3>3, <3>4
  <2>6. CASE CheckResource \/ CheckResourceAbsent \/ CheckAssertExpressions
    BY <2>6, <2>z DEF CheckResource, CheckResourceAbsent, CheckAssertExpressions, Finds
  <2>7. CASE CheckAssertCommands
    <3>1. /\ elapsed' = elapsed /\ testErrors' = testErrors /\ clock' = clock
          /\ pc = "assertcmd" /\ pc' \in {"expression", "running"}
          /\ pc' = "running" => left' = IF budget > 0 THEN B ELSE NoLimit
      BY <2>7 DEF CheckAssertCommands, Deadline, B
    <3>2. pc' = "running" /\ left' # NoLimit => clock' + left' >= elapsed' + B
      BY <1>b, <3>1
    <3>3. "lateCommand" \in testErrors' => clock' + Unit > T
      BY <1>c, <3>1
    <3>4. elapsed' + B + Unit > T
      BY <1>c, <3>1
    <3> QED BY <3>2, <3>3, <3>4
  <2>8. CASE AssertCommandEnds
    <3>1. /\ elapsed' = elapsed /\ clock' = clock /\ left' = NoLimit
          /\ pc = "running" /\ pc' \in {"expression", "assertcmd"}
          /\ "lateCommand" \in testErrors' => "lateCommand" \in testErrors \/ left = 0
      BY <2>8 DEF AssertCommandEnds
    <3>2. ASSUME left = 0 PROVE clock + Unit > T
      <4>1. elapsed + B + Unit > T
        BY <1>c, <3>1
      <4>2. clock + left >= elapsed + B \/ clock = Cap
        <5>1. left # NoLimit
          BY <3>2 DEF NoLimit
        <5> QED BY <1>c, <3>1, <5>1
      <4> QED BY <1>b, <3>2, <4>1, <4>2
    <3>3. "lateCommand" \in testErrors' => clock' + Unit > T
      BY <1>c, <3>1, <3>2
    <3>4. pc' # "running" /\ elapsed' + B + Unit > T
      BY <1>c, <3>1
    <3> QED BY <3>3, <3>4
  <2>9. CASE Judge \/ Verdict \/ WorldMoves \/ UNCHANGED vars
    BY <2>9, <2>z DEF Judge, AfterLoop, Verdict, WorldMoves, DoomedMoves, AssertedMove, vars
  <2> QED
    BY <1>2, <2>2, <2>3, <2>4, <2>5, <2>6, <2>7, <2>8, <2>9
    DEF Next, StepNext, CommandEnds, StepCommandKilled, AssertCommandKilled,
       CollectorKilled
<1> QED BY <1>1, <1>2

LEMMA NextEndInv == IInv /\ [Next]_vars => EndInv'
<1> SUFFICES ASSUME IInv, [Next]_vars PROVE EndInv'
  OBVIOUS
<1> EndInv /\ TypeOK /\ TimeInv /\ CheckInv
  BY DEF IInv
<1>a. /\ timeout \in Int /\ timeout * Unit \in Int /\ clock \in Nat /\ Cap \in Nat
      /\ elapsed \in Int
      /\ timeout * Unit <= Cap /\ clock <= Cap /\ elapsed <= clock
  BY Bounds, CapBounds DEF TypeOK, TimeInv
<1> USE <1>a DEF EndInv, Ended, config, timers, queues, history, world, SetupFails
<1>1. CASE DeleteExisting \/ DeleteNext \/ StartWait \/ WaitForDelete
  BY <1>1 DEF DeleteExisting, DeleteNext, StartWait, WaitForDelete
<1>2. CASE RunCommands \/ StepCommandEnds \/ Wake
  BY <1>2 DEF RunCommands, StepCommandEnds, Wake
<1>3. CASE Create
  BY <1>3 DEF Create, CheckInv
<1>4. CASE NextRound
  BY <1>4 DEF NextRound, AfterLoop
<1>5. CASE CheckResource \/ CheckAssertCommands \/ AssertCommandEnds
  BY <1>5 DEF CheckResource, Finds, CheckAssertCommands, AssertCommandEnds
<1>6. CASE CheckAssertExpressions \/ CheckResourceAbsent
  BY <1>6 DEF CheckAssertExpressions, CheckResourceAbsent, Finds
<1>7. CASE Judge
  BY <1>7 DEF Judge, AfterLoop
<1>8. CASE Collect \/ CollectorEnds \/ Verdict
  BY <1>8 DEF Collect, CollectorEnds, Verdict
<1>9. CASE Tick
  BY <1>9 DEF Tick
<1>10. CASE WorldMoves \/ UNCHANGED vars
  BY <1>10 DEF WorldMoves, DoomedMoves, AssertedMove, vars
<1> QED
  BY <1>1, <1>2, <1>3, <1>4, <1>5, <1>6, <1>7, <1>8, <1>9, <1>10
  DEF Next, StepNext, CommandEnds, StepCommandKilled, AssertCommandKilled,
     CollectorKilled

-----------------------------------------------------------------------------
(* Theorems.                                                               *)

LEMMA InitIInv == Init => IInv
<1> SUFFICES ASSUME Init PROVE IInv
  OBVIOUS
<1>1. TypeOK
  <2>1. Flags \subseteq BOOLEAN
    BY Zenon, StepRunAssumption DEF Init, Flags
  <2>2. Timers
    BY CapBounds DEF Init, Timers
  <2>3. Control
    BY DEF Init, Control, Places
  <2>4. toDelete \in Deletes /\ Len(toDelete) \in Nat /\ timeout \in Timeouts
    <3>1. toDelete \in Deletes /\ toDelete \in Seq(Objects) /\ timeout \in Timeouts
      BY Zenon, StepRunAssumption DEF Init
    <3> QED BY <3>1
  <2>5. Deletions
    BY <2>4 DEF Init, Deletions
  <2>6. Queues
    <3>1. stepCmds \in Seq({"foreground", "background"})
      BY Zenon, StepRunAssumption DEF Init
    <3> QED BY <3>1, Bounds DEF Init, Queues
  <2> QED
    BY <2>1, <2>2, <2>3, <2>4, <2>5, <2>6 DEF TypeOK, Timers, Control, Deletions,
       Queues, Flags, Parts, Places
<1>2. TimeInv /\ GoneInv /\ CheckInv /\ LateInv /\ EndInv
  BY CapBounds DEF Init, TimeInv, GoneInv, CheckInv, LateInv, EndInv, Deleting, Looping, Ended
<1> QED BY <1>1, <1>2 DEF IInv

LEMMA Inductive == Spec => []IInv
<1>1. Init => IInv
  BY InitIInv
<1>2. IInv /\ [Next]_vars => IInv'
  BY NextTypeOK, NextTimers, NextGoneInv, NextCheckInv, NextLateInv, NextEndInv
     DEF IInv
<1> QED BY <1>1, <1>2, PTL DEF Spec

\* The variables of a step keep their types; no time that it counts is
\* longer than its longest timeout.
THEOREM TypeCorrect == Spec => []TypeOK
<1>1. IInv => TypeOK
  BY DEF IInv
<1> QED BY <1>1, Inductive, PTL

\* Nothing is run or applied before each object to delete was gone, however
\* the objects come and go.
THEOREM DeletedFirst == Spec => []DeletedBeforeApplied
<1>1. IInv => DeletedBeforeApplied
  BY DEF IInv, GoneInv, DeletedBeforeApplied, Looping
<1> QED BY <1>1, Inductive, PTL

\* A step passes with what one Check has found.
THEOREM PassIsHeld == Spec => []PassMeansHeld
<1>1. IInv => PassMeansHeld
  BY DEF IInv, CheckInv, EndInv, PassMeansHeld
<1> QED BY <1>1, Inductive, PTL

\* Errors that come and go, and commands that are too late, fail no step
\* before the last second of its time; reads that time out do.
THEOREM FailureIsLate == Spec => []FailsOnlyAtTimeout
<1>1. IInv => FailsOnlyAtTimeout
  <2> SUFFICES ASSUME IInv, result = "fail", "setup" \notin testErrors,
                      "lateRead" \notin testErrors
               PROVE  clock > (timeout - 1) * Unit
    BY DEF FailsOnlyAtTimeout
  <2> DEFINE T == timeout * Unit
  <2>1. timeout \in Int /\ Unit \in Nat \ {0} /\ clock \in Nat
    BY Bounds, CapBounds DEF IInv, TypeOK
  <2>2. clock >= T \/ "lateCommand" \in testErrors
    BY DEF IInv, EndInv, Ended, hasTimeoutErr, Late
  <2>3. "lateCommand" \in testErrors => clock + Unit > T
    BY DEF IInv, LateInv
  <2> DEFINE U == (timeout - 1) * Unit
  <2>4. U = T - Unit /\ T \in Int
    <3>1. \A m, n \in Int : (m - 1) * n = m * n - n /\ m * n \in Int
      OBVIOUS
    <3> QED BY <2>1, <3>1
  <2> HIDE DEF T, U
  <2>5. clock > U
    BY <2>1, <2>2, <2>3, <2>4
  <2> QED BY <2>5 DEF U
<1> QED BY <1>1, Inductive, PTL
=============================================================================
