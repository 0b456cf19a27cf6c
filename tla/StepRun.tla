------------------------------ MODULE StepRun -------------------------------
(***************************************************************************)
(* Step.Run (internal/step/step.go): one test step, from the deletions to  *)
(* the assertion loop, its collectors and its verdict, with the commands   *)
(* it runs (internal/utils/commands.go) and the expressions it evaluates   *)
(* (internal/expressions/cel.go).                                          *)
(*                                                                         *)
(* Time is counted in ticks, Unit of them to the second, because the code  *)
(* measures elapsed time as a float and cuts it to whole seconds.  clock   *)
(* is the time since the current wait or the assertion loop began and      *)
(* stays at Cap once it is there, so time itself needs no bound.  Other    *)
(* actors of the cluster change the objects at any moment, also between    *)
(* two reads of one Check or of one poll.                                  *)
(***************************************************************************)
EXTENDS Integers, FiniteSets, Sequences, SequencesExt

CONSTANTS
    Unit,           \* ticks to the second
    Timeouts,       \* the values of GetTimeout, in seconds, to look at
    Deletes,        \* the lists of objects to delete to look at
    Commands,       \* the lists of step commands to look at
    AssertCommands, \* how many commands a TestAssert has
    AssertAny,      \* its expressions of which one must hold
    AssertAll,      \* its expressions that must all hold
    Collectors,     \* the collectors to look at
    Lingers         \* whether commands may leave children behind

Objects == UNION {ToSet(d) : d \in Deletes}

ASSUME StepRunAssumption ==
    /\ Unit \in Nat \ {0}
    /\ Timeouts \subseteq Int \ {0}
    /\ \E t \in Timeouts : t > 0 /\ \A u \in Timeouts : u <= t
    /\ Deletes \subseteq Seq(Objects)
    /\ Commands \subseteq Seq({"foreground", "background"})
    /\ AssertCommands \in Nat
    /\ IsFiniteSet(AssertAny) /\ IsFiniteSet(AssertAll)
    /\ Collectors \subseteq [type : {"", "pod", "command", "events", "unknown"},
                             sets : SUBSET {"cmd", "pod", "selector", "container", "namespace"}]
    /\ Collectors # {}
    /\ Lingers \subseteq BOOLEAN

NoLimit == -1
Cap == Unit * (CHOOSE t \in Timeouts : \A u \in Timeouts : u <= t)
Late == {"lateCommand", "lateRead"}
Failures == {"setup", "assert", "command", "expression", "errors"} \cup Late

VARIABLES
    timeout,    \* GetTimeout() and s.Timeout, in seconds
    toDelete,   \* toDelete of DeleteExisting
    hasAssert,  \* s.Assert # nil
    lingers,    \* children of a command keep its output open when it is killed
    pc,
    clock,      \* ticks since the wait or the loop began
    left,       \* ticks until the running command's deadline, or NoLimit
    elapsed,    \* elapsed, as the loop measured it last
    nap,        \* ticks until the end of time.Sleep
    next,       \* the object to delete, or to look for, next
    stepCmds,   \* the commands of s.Step.Commands still to run
    more,       \* the assert commands still to run in this Check
    budget,     \* the timeout in seconds that Check gets
    testErrors, \* testErrors, by what they are about
    result,     \* "none" until Run returns "pass" or "fail"
    procs,      \* background processes still running
    doomed,     \* each object to delete: "present", "terminating" or "absent"
    matches,    \* the object of s.Asserts is as asserted
    forbidden,  \* an object is in the state of s.Errors
    held,       \* history: what this Check has found to hold
    wasGone     \* history: the objects that were absent after their deletion

config == <<timeout, toDelete, hasAssert, lingers>>
timers == <<clock, elapsed, left, nap>>
queues == <<next, stepCmds, more>>
world == <<doomed, matches, forbidden>>
history == <<held, wasGone>>
vars == <<config, pc, timers, queues, budget, testErrors, result, procs, world, history>>

TypeOK == /\ timeout \in Timeouts
          /\ toDelete \in Deletes
          /\ {hasAssert, lingers, matches, forbidden} \subseteq BOOLEAN
          /\ pc \in {"delete", "deleting", "wait", "commands", "command", "create", "loop",
                     "asserts", "assertcmd", "running", "expression", "errors", "judge",
                     "sleep", "failed", "collecting", "verdict", "done"}
          /\ clock \in 0..Cap /\ elapsed \in 0..Cap
          /\ left \in {NoLimit} \cup 0..Cap
          /\ nap \in 0..Unit
          /\ next \in 1..Len(toDelete) + 1
          /\ stepCmds \in Seq({"foreground", "background"})
          /\ more \in 0..AssertCommands
          /\ budget \in 0..Cap
          /\ testErrors \subseteq Failures
          /\ result \in {"none", "pass", "fail"}
          /\ procs \in Nat
          /\ doomed \in [Objects -> {"present", "terminating", "absent"}]
          /\ held \subseteq {"assert", "command", "expression", "errors"}
          /\ wasGone \subseteq Objects

Init == /\ timeout \in Timeouts
        /\ toDelete \in Deletes
        /\ stepCmds \in Commands
        /\ hasAssert \in BOOLEAN
        /\ lingers \in Lingers
        /\ pc = "delete"
        /\ clock = 0 /\ elapsed = 0 /\ left = NoLimit /\ nap = 0 /\ budget = 0
        /\ next = 1 /\ more = 0
        /\ testErrors = {} /\ result = "none" /\ procs = 0
        /\ \E there \in SUBSET ToSet(toDelete) :
              doomed = [o \in Objects |-> IF o \in there THEN "present" ELSE "absent"]
        /\ matches = FALSE /\ forbidden = FALSE
        /\ held = {} /\ wasGone = {}

-----------------------------------------------------------------------------
(* Time, and the other actors of the cluster.                              *)

Less1(n) == IF n > 0 THEN n - 1 ELSE n

Tick == /\ clock' = IF clock < Cap THEN clock + 1 ELSE clock
        /\ left' = Less1(left)
        /\ nap' = Less1(nap)
        /\ UNCHANGED <<config, pc, elapsed, queues, budget, testErrors, result, procs, world,
                       history>>

\* An object goes once it is being deleted, or comes back under its name.
DoomedMoves ==
    /\ \E o \in ToSet(toDelete) :
          \/ /\ doomed[o] = "terminating"
             /\ doomed' = [doomed EXCEPT ![o] = "absent"]
             /\ wasGone' = wasGone \cup {o}
          \/ /\ doomed[o] = "absent"
             /\ doomed' = [doomed EXCEPT ![o] = "present"]
             /\ UNCHANGED wasGone
    /\ UNCHANGED <<config, pc, timers, queues, budget, testErrors, result, procs, matches,
                   forbidden, held>>

AssertedMove ==
    /\ \/ matches' = ~matches /\ UNCHANGED forbidden
       \/ forbidden' = ~forbidden /\ UNCHANGED matches
    /\ UNCHANGED <<config, pc, timers, queues, budget, testErrors, result, procs, doomed,
                   history>>

\* Objects move all the time, and are followed while the step reads them.
WorldMoves == \/ pc \in {"delete", "deleting", "wait"} /\ DoomedMoves
              \/ /\ pc \in {"loop", "asserts", "assertcmd", "running", "expression",
                            "errors", "judge", "sleep"}
                 /\ AssertedMove

-----------------------------------------------------------------------------
(* DeleteExisting and WaitForDelete.                                       *)

SetupFails == testErrors' = {"setup"} /\ pc' = "verdict"

\* Clients, namespaces and lists first; any of them may fail.
DeleteExisting ==
    /\ pc = "delete"
    /\ \/ pc' = "deleting" /\ UNCHANGED testErrors
       \/ SetupFails
    /\ UNCHANGED <<config, timers, queues, budget, result, procs, world, history>>

\* Delete one object; NotFound means already gone.
DeleteNext ==
    /\ pc = "deleting" /\ next <= Len(toDelete)
    /\ LET o == toDelete[next] IN
       \/ /\ next' = next + 1
          /\ IF doomed[o] = "absent"
             THEN wasGone' = wasGone \cup {o} /\ UNCHANGED doomed
             ELSE doomed' = [doomed EXCEPT ![o] = "terminating"] /\ UNCHANGED wasGone
          /\ UNCHANGED <<pc, testErrors>>
       \/ SetupFails /\ UNCHANGED <<next, doomed, wasGone>>
    /\ UNCHANGED <<config, timers, stepCmds, more, budget, result, procs, matches, forbidden,
                   held>>

StartWait == /\ pc = "deleting" /\ next > Len(toDelete)
             /\ pc' = "wait" /\ next' = 1 /\ clock' = 0
             /\ UNCHANGED <<config, elapsed, left, nap, stepCmds, more, budget, testErrors,
                            result, procs, world, history>>

\* mutant: the end of the wait is not an error
WaitForDelete_GivesUp ==
    /\ pc = "wait"
    /\ \/ next > Len(toDelete) /\ pc' = "commands" /\ UNCHANGED <<next, testErrors>>
       \/ /\ next <= Len(toDelete) /\ doomed[toDelete[next]] = "absent"
          /\ clock <= timeout * Unit
          /\ next' = next + 1 /\ UNCHANGED <<pc, testErrors>>
       \/ /\ next <= Len(toDelete) /\ clock < timeout * Unit
          /\ next' = 1 /\ UNCHANGED <<pc, testErrors>>
       \/ /\ next <= Len(toDelete) /\ clock >= timeout * Unit
          /\ pc' = "commands" /\ UNCHANGED <<next, testErrors>>
    /\ UNCHANGED <<config, timers, stepCmds, more, budget, result, procs, world, history>>

\* mutant: the wait has no deadline
WaitForDelete_Forever ==
    /\ pc = "wait"
    /\ \/ next > Len(toDelete) /\ pc' = "commands" /\ UNCHANGED <<next, testErrors>>
       \/ /\ next <= Len(toDelete) /\ doomed[toDelete[next]] = "absent"
          /\ next' = next + 1 /\ UNCHANGED <<pc, testErrors>>
       \/ /\ next <= Len(toDelete)
          /\ next' = 1 /\ UNCHANGED <<pc, testErrors>>
    /\ UNCHANGED <<config, timers, stepCmds, more, budget, result, procs, world, history>>

\* One Get after the other.  An object that is still there, or cannot be
\* read, ends the poll; the next poll begins with the first object, unless
\* the time is up, with which also every Get fails.  The wait ends when one
\* poll has found every name free, whatever became of the deleted objects.
WaitForDelete ==
    /\ pc = "wait"
    /\ \/ next > Len(toDelete) /\ pc' = "commands" /\ UNCHANGED <<next, testErrors>>
       \/ /\ next <= Len(toDelete) /\ doomed[toDelete[next]] = "absent"
          /\ clock <= timeout * Unit
          /\ next' = next + 1 /\ UNCHANGED <<pc, testErrors>>
       \/ /\ next <= Len(toDelete) /\ clock < timeout * Unit
          /\ next' = 1 /\ UNCHANGED <<pc, testErrors>>
       \/ /\ next <= Len(toDelete) /\ clock >= timeout * Unit
          /\ SetupFails /\ UNCHANGED next
    /\ UNCHANGED <<config, timers, stepCmds, more, budget, result, procs, world, history>>

-----------------------------------------------------------------------------
(* RunCommands and Create.                                                 *)

\* RunCommand: no timeout, or 0, means forever.
Deadline(seconds) == IF seconds > 0 THEN seconds * Unit ELSE NoLimit

\* The loop of Run clears Background in a copy of each command only, and the
\* processes that RunCommands returns are dropped.  An error ends the list,
\* also that of a command that does not start.
RunCommands ==
    /\ pc = "commands"
    /\ \/ /\ stepCmds = <<>> /\ pc' = "create"
          /\ UNCHANGED <<left, stepCmds, testErrors, procs>>
       \/ /\ stepCmds # <<>> /\ Head(stepCmds) = "foreground"
          /\ pc' = "command" /\ left' = Deadline(timeout)
          /\ stepCmds' = Tail(stepCmds)
          /\ UNCHANGED <<testErrors, procs>>
       \/ /\ stepCmds # <<>> /\ Head(stepCmds) = "background"
          /\ procs' = procs + 1
          /\ stepCmds' = Tail(stepCmds)
          /\ UNCHANGED <<pc, left, testErrors>>
       \/ /\ stepCmds # <<>>
          /\ testErrors' = {"setup"} /\ pc' = "create" /\ stepCmds' = <<>>
          /\ UNCHANGED <<left, procs>>
    /\ UNCHANGED <<config, clock, elapsed, nap, next, more, budget, result, world, history>>

\* Wait returns: an error, unless the command ended well or its failure, also
\* that of being killed, is ignored.
StepCommandEnds ==
    /\ pc = "command"
    /\ \/ pc' = "commands" /\ UNCHANGED <<stepCmds, testErrors>>
       \/ pc' = "create" /\ stepCmds' = <<>> /\ testErrors' = {"setup"}
    /\ left' = NoLimit
    /\ UNCHANGED <<config, clock, elapsed, nap, next, more, budget, result, procs, world,
                   history>>

\* A command is killed at its deadline, but Wait returns only when nobody
\* has its output open any more.
Killed == left = 0 /\ ~lingers

StepCommandKilled == Killed /\ StepCommandEnds

\* The objects are applied even if a command failed; only then does Run stop.
Create ==
    /\ pc = "create"
    /\ testErrors' \in {testErrors, testErrors \cup {"setup"}}
    /\ pc' = IF testErrors' = {} THEN "loop" ELSE "verdict"
    /\ clock' = 0 /\ elapsed' = 0
    /\ UNCHANGED <<config, left, nap, queues, budget, result, procs, world, history>>

-----------------------------------------------------------------------------
(* The assertion loop and Check.                                           *)

AfterLoop(errors) == IF errors = {} THEN "verdict" ELSE "failed"

\* mutant: the errors of the last Check are forgotten when the time is up
NextRound_Forgets ==
    /\ pc = "loop"
    /\ IF elapsed < timeout * Unit
       THEN /\ pc' = "asserts"
            /\ budget' = (timeout * Unit - elapsed) \div Unit
       ELSE pc' = "verdict" /\ UNCHANGED budget
    /\ testErrors' = {}
    /\ held' = {}
    /\ UNCHANGED <<config, timers, queues, result, procs, world, wasGone>>

\* mutant: the first Check is made whatever the timeout
NextRound_AtLeastOne ==
    /\ pc = "loop"
    /\ IF elapsed < timeout * Unit \/ elapsed = 0
       THEN /\ pc' = "asserts"
            /\ budget' = (timeout * Unit - elapsed) \div Unit
            /\ testErrors' = {} /\ held' = {}
       ELSE pc' = AfterLoop(testErrors) /\ UNCHANGED <<budget, testErrors, held>>
    /\ UNCHANGED <<config, timers, queues, result, procs, world, wasGone>>

\* The first Check is made as if no time had passed.  int(timeoutF-elapsed)
\* cuts the last part of a second to 0.
NextRound ==
    /\ pc = "loop"
    /\ IF elapsed < timeout * Unit
       THEN /\ pc' = "asserts"
            /\ budget' = (timeout * Unit - elapsed) \div Unit
            /\ testErrors' = {} /\ held' = {}
       ELSE pc' = AfterLoop(testErrors) /\ UNCHANGED <<budget, testErrors, held>>
    /\ UNCHANGED <<config, timers, queues, result, procs, world, wasGone>>

\* What one part of Check finds.  A read of the cluster may fail whatever is
\* there, also with an error of the connection that says context deadline
\* exceeded; of several reads some may fail one way and some the other.
Finds(what, ok) ==
    \/ ok /\ held' = held \cup {what} /\ UNCHANGED testErrors
    \/ /\ \E found \in (SUBSET {what, "lateRead"}) \ {{}} :
             testErrors' = testErrors \cup found
       /\ UNCHANGED held

CheckResource ==
    /\ pc = "asserts"
    /\ Finds("assert", matches)
    /\ IF hasAssert THEN pc' = "assertcmd" /\ more' = AssertCommands
                    ELSE pc' = "errors" /\ UNCHANGED more
    /\ UNCHANGED <<config, timers, next, stepCmds, budget, result, procs, world, wasGone>>

\* Each command of the list gets the whole rest of the timeout.
CheckAssertCommands ==
    /\ pc = "assertcmd"
    /\ IF more = 0
       THEN pc' = "expression" /\ held' = held \cup {"command"} /\ UNCHANGED left
       ELSE pc' = "running" /\ left' = Deadline(budget) /\ UNCHANGED held
    /\ UNCHANGED <<config, clock, elapsed, nap, queues, budget, testErrors, result, procs, world,
                   wasGone>>

\* A command that returns after its deadline has timed out, however it ended;
\* the error of one command ends the list.
AssertCommandEnds ==
    /\ pc = "running"
    /\ \/ /\ left # 0
          /\ pc' = "assertcmd" /\ more' = more - 1
          /\ UNCHANGED testErrors
       \/ /\ pc' = "expression" /\ more' = 0
          /\ testErrors' = testErrors \cup {IF left = 0 THEN "lateCommand" ELSE "command"}
    /\ left' = NoLimit
    /\ UNCHANGED <<config, clock, elapsed, nap, next, stepCmds, budget, result, procs, world,
                   history>>

AssertCommandKilled == Killed /\ AssertCommandEnds

\* RunAssertExpressions finds no errors, if only the expressions true hold.
RunAssertExpressions(true) ==
    LET anyErrors == AssertAny \ true
        allErrors == AssertAll \ true
    IN /\ AssertAny # {} => Cardinality(anyErrors) # Cardinality(AssertAny)
       /\ allErrors = {}

\* What assertAny and assertAll mean, for the properties.
ExpressionsHold(true) == /\ AssertAny = {} \/ \E e \in AssertAny : e \in true
                         /\ AssertAll \subseteq true

\* A referenced object cannot be read, or the expressions are evaluated; an
\* evaluation that fails is as good as false.
CheckAssertExpressions ==
    /\ pc = "expression"
    /\ \/ \E true \in SUBSET (AssertAny \cup AssertAll) :
             /\ testErrors' = IF RunAssertExpressions(true)
                              THEN testErrors ELSE testErrors \cup {"expression"}
             /\ held' = IF ExpressionsHold(true) THEN held \cup {"expression"} ELSE held
       \/ /\ \E error \in {"expression", "lateRead"} : testErrors' = testErrors \cup {error}
          /\ UNCHANGED held
    /\ pc' = "errors"
    /\ UNCHANGED <<config, timers, queues, budget, result, procs, world, wasGone>>

CheckResourceAbsent ==
    /\ pc = "errors"
    /\ Finds("errors", ~forbidden)
    /\ pc' = "judge"
    /\ UNCHANGED <<config, timers, queues, budget, result, procs, world, wasGone>>

\* mutant: the loop ends with the first Check
Judge_Once == /\ pc = "judge"
              /\ pc' = AfterLoop(testErrors) /\ UNCHANGED nap
              /\ UNCHANGED <<config, clock, elapsed, left, queues, budget, testErrors, result,
                             procs, world, history>>

\* Any error of the Check that is context.DeadlineExceeded, whosever it is.
hasTimeoutErr(errors) == errors \cap Late # {}

\* Done, given up because something timed out, or once more in a second.
Judge == /\ pc = "judge"
         /\ IF testErrors = {} \/ hasTimeoutErr(testErrors)
            THEN pc' = AfterLoop(testErrors) /\ UNCHANGED nap
            ELSE pc' = "sleep" /\ nap' = Unit
         /\ UNCHANGED <<config, clock, elapsed, left, queues, budget, testErrors, result, procs,
                        world, history>>

Wake == /\ pc = "sleep" /\ nap = 0
        /\ pc' = "loop"
        /\ elapsed' = clock
        /\ UNCHANGED <<config, clock, left, nap, queues, budget, testErrors, result, procs, world,
                       history>>

-----------------------------------------------------------------------------
(* The collectors and the end.                                             *)

\* TestCollector.Command is not nil.  Without a type it is a command if it
\* has one, and a collector of pod logs otherwise.
Runs(c) ==
    LET type == IF c.type # "" THEN c.type
                ELSE IF "cmd" \in c.sets THEN "command" ELSE "pod"
    IN \/ type = "command" /\ c.sets = {"cmd"}
       \/ type = "pod" /\ "cmd" \notin c.sets /\ {"pod", "selector"} \cap c.sets # {}
       \/ type = "events" /\ {"cmd", "selector", "container"} \cap c.sets = {}

\* The collectors of a failure.  An invalid one is skipped.
Collect ==
    /\ pc = "failed"
    /\ \/ /\ hasAssert /\ \E c \in Collectors : Runs(c)
          /\ pc' = "collecting" /\ left' = Deadline(timeout)
       \/ /\ hasAssert => \E c \in Collectors : ~Runs(c)
          /\ pc' = "verdict" /\ UNCHANGED left
    /\ UNCHANGED <<config, clock, elapsed, nap, queues, budget, testErrors, result, procs, world,
                   history>>

\* Whatever becomes of the command of a collector is logged only.
CollectorEnds ==
    /\ pc = "collecting"
    /\ pc' = "verdict" /\ left' = NoLimit
    /\ UNCHANGED <<config, clock, elapsed, nap, queues, budget, testErrors, result, procs, world,
                   history>>

CollectorKilled == Killed /\ CollectorEnds

Verdict == /\ pc = "verdict"
           /\ pc' = "done"
           /\ result' = IF testErrors = {} THEN "pass" ELSE "fail"
           /\ UNCHANGED <<config, timers, queues, budget, testErrors, procs, world, history>>

StepNext == \/ DeleteExisting \/ DeleteNext \/ StartWait \/ WaitForDelete
            \/ RunCommands \/ StepCommandKilled
            \/ Create \/ NextRound \/ CheckResource \/ CheckAssertCommands
            \/ AssertCommandKilled \/ CheckAssertExpressions
            \/ CheckResourceAbsent \/ Judge \/ Wake
            \/ Collect \/ CollectorKilled \/ Verdict

CommandEnds == StepCommandEnds \/ AssertCommandEnds \/ CollectorEnds

Next == StepNext \/ CommandEnds \/ Tick \/ WorldMoves

Spec == Init /\ [][Next]_vars

\* The goroutine of the step runs and time passes.  Whether a command ends
\* is up to the test: kuttl can only kill it.
FairSpec == Spec /\ WF_vars(StepNext) /\ WF_vars(Tick)

\* The same for tests whose commands, with all their children, do end.
FairCommandsSpec == FairSpec /\ WF_vars(CommandEnds)

-----------------------------------------------------------------------------
(* Properties.                                                             *)

Expected == {"assert", "errors"}
            \cup (IF hasAssert THEN {"command", "expression"} ELSE {})

\* A step passes only if every assertion, command, expression and error of
\* the step was found to hold by one and the same Check, with one of
\* assertAny and all of assertAll.  A timeout below 0 leaves no time for any
\* Check, and the step passes.
PassMeansHeld == result = "pass" /\ timeout > 0 => held = Expected

\* A step that got as far as the assertions fails only when less than a
\* second of its time is left, however its errors came and went before and
\* also if an assert command was too late, unless a read of the cluster timed
\* out in its last Check.
FailsOnlyAtTimeout == /\ result = "fail"
                      /\ "setup" \notin testErrors
                      /\ "lateRead" \notin testErrors
                      => clock > (timeout - 1) * Unit

\* Whatever the step runs or applies comes after each object to delete was
\* really gone, though its name may be in use again: the names were found
\* free one after the other, not at once.
DeletedBeforeApplied == pc \in {"commands", "command", "create", "loop"}
                        => ToSet(toDelete) \subseteq wasGone

\* Every step ends, also one whose commands are killed while their children
\* live on, once those are gone.
StepEnds == <>(pc = "done")

\* "background commands are not allowed for steps and will be run in
\* foreground": no process of a step outlives it.
NoBackgroundLeft == pc = "done" => procs = 0
=============================================================================
