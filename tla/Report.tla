------------------------------- MODULE Report -------------------------------
(***************************************************************************)
(* The report of a run (internal/report/report.go) while the parallel      *)
(* tests of RunTests (internal/harness/harness.go) add to it: every test   *)
(* records its steps in a reporter of its own, hands them to its suite in  *)
(* Done under the lock of that suite, and its cleanups run after that.     *)
(* Close adds the numbers up without a lock, when all tests are over, or   *)
(* in the middle of them when an interrupt calls Stop; then the report is  *)
(* marshalled, without a lock too, and written.  When that fails, Stop     *)
(* runs again and so does Close.                                           *)
(*                                                                         *)
(* A loop over a list takes its length once, and adding to the list sorts  *)
(* it in place: a loop that runs meanwhile may find an element twice and   *)
(* another one not at all.                                                 *)
(*                                                                         *)
(* There is one Stop at a time here; Harness.tla has two of them.          *)
(***************************************************************************)
EXTENDS Naturals, Sequences, FiniteSets

CONSTANTS
    Suite,      \* the test directories
    Test,       \* the tests in them
    SuiteOf,    \* each test's suite
    MaxSteps,   \* bound: steps of a test, setup not counted
    MaxCloses   \* bound: attempts to write the report

ASSUME ReportAssumption ==
    /\ IsFiniteSet(Suite) /\ IsFiniteSet(Test)
    /\ SuiteOf \in [Test -> Suite]
    /\ MaxSteps \in Nat
    /\ MaxCloses \in Nat \ {0}

VARIABLES
    granularity, \* ReportGranularity: "test" or "step"
    loaded,      \* LoadTests has read all directories
    suites,      \* the suites added to the collection
    pc,          \* each test: see TypeOK
    steps,       \* each test's stepReports: whether the step failed
    given,       \* how many of them Done has handed to the suite
    goFailed,    \* test.Failed()
    subs,        \* tests with a sub suite, for granularity "step"
    cases,       \* the test cases in the tree: [test, step, failed]
    sub,         \* Tests and Failures of each sub suite
    count,       \* Tests and Failures of each suite
    total,       \* Tests and Failures of the collection
    raced,       \* history: something was added to the tree since Close began
    closing,     \* Close: [phase, suites left, suite, its sub suites left]
    lists,       \* the suites and sub suites its loops range over, as they were
    begun,       \* the tree when the marshaller began
    closes,      \* how often Close was called
    file,        \* what was written
    interrupted  \* history: Stop was called by the interrupt

tests == <<loaded, suites, pc, steps, given, goFailed>>
tree == <<subs, cases, sub, count, total, raced>>
output == <<closing, lists, begun, closes, file, interrupted>>
vars == <<granularity, tests, tree, output>>

Zero == [tests |-> 0, failures |-> 0]
Plus(a, b) == [tests |-> a.tests + b.tests, failures |-> a.failures + b.failures]

\* What the numbers cannot exceed: Close takes as many suites as there are,
\* be it one of them each time, and for each as many sub suites.
SubLimit == MaxSteps + 1
SuiteLimit == MaxCloses * (Cardinality(Suite) * (Cardinality(Test) * SubLimit))
TotalLimit == MaxCloses * (Cardinality(Suite) * SuiteLimit)
Numbers(limit) == [tests : 0..limit, failures : 0..limit]
Cases == [test : Test, step : 0..MaxSteps, failed : BOOLEAN]
Open == [phase |-> "open", left |-> {}, suite |-> {}, subs |-> {}]
Nothing == [suites |-> {}, subs |-> {}, cases |-> {}, sub |-> <<>>, count |-> <<>>]
NoFile == [cases |-> {}, sub |-> <<>>, count |-> <<>>, total |-> Zero]

TypeOK ==
    /\ granularity \in {"test", "step"}
    /\ {loaded, interrupted, raced} \subseteq BOOLEAN
    /\ suites \subseteq Suite
    /\ pc \in [Test -> {"waiting", "loaded", "running", "done", "cleanup", "over"}]
    /\ steps \in [Test -> Seq(BOOLEAN)] /\ given \in [Test -> Nat]
    /\ \A t \in Test : given[t] <= Len(steps[t]) /\ Len(steps[t]) <= MaxSteps + 1
    /\ goFailed \in [Test -> BOOLEAN]
    /\ subs \subseteq Test
    /\ cases \subseteq Cases
    /\ sub \in [Test -> Numbers(SubLimit)]
    /\ count \in [Suite -> Numbers(SuiteLimit)]
    /\ total \in Numbers(TotalLimit)
    /\ closing \in [phase : {"open", "suites", "subs", "write", "written", "failed"},
                    left : SUBSET Suite, suite : SUBSET Suite, subs : SUBSET Test]
    /\ lists \in [suites : SUBSET Suite, subs : SUBSET Test]
    /\ begun.suites \subseteq Suite /\ begun.subs \subseteq Test /\ begun.cases \subseteq Cases
    /\ file.cases \subseteq Cases
    /\ closes \in 0..MaxCloses

Init == /\ granularity \in {"test", "step"}
        /\ loaded = FALSE /\ suites = {}
        /\ pc = [t \in Test |-> "waiting"]
        /\ steps = [t \in Test |-> <<>>]
        /\ given = [t \in Test |-> 0]
        /\ goFailed = [t \in Test |-> FALSE]
        /\ subs = {} /\ cases = {}
        /\ sub = [t \in Test |-> Zero] /\ count = [s \in Suite |-> Zero]
        /\ total = Zero
        /\ closing = Open /\ lists = [suites |-> {}, subs |-> {}] /\ begun = Nothing
        /\ closes = 0 /\ raced = FALSE
        /\ file = NoFile /\ interrupted = FALSE

Alive == closing.phase \notin {"written", "failed"}
SubSuites(s) == {t \in subs : SuiteOf[t] = s}

\* An addition to the tree, which no lock keeps out of a Close.
Added == raced' = (raced \/ closing.phase # "open")

-----------------------------------------------------------------------------
(* RunTests.                                                               *)

LoadTests == /\ Alive /\ ~loaded /\ (closing = Open \/ interrupted)
             /\ loaded' = TRUE
             /\ UNCHANGED <<granularity, suites, pc, steps, given, goFailed, tree, output>>

NewSuiteReport(s) ==
    /\ Alive /\ loaded /\ s \notin suites
    /\ suites' = suites \cup {s} /\ Added
    /\ UNCHANGED <<granularity, loaded, pc, steps, given, goFailed, subs, cases, sub, count,
                   total, output>>

At(t, p) == Alive /\ pc[t] = p

\* The parallel tests start when the function that starts them has returned.
\* Steps that cannot be loaded end the test before it has a reporter.
LoadTestSteps(t) ==
    /\ At(t, "waiting") /\ suites = Suite
    /\ \E ok \in BOOLEAN :
          /\ pc' = [pc EXCEPT ![t] = IF ok THEN "loaded" ELSE "over"]
          /\ goFailed' = [goFailed EXCEPT ![t] = ~ok]
    /\ UNCHANGED <<granularity, loaded, suites, steps, given, tree, output>>

NewTestReporter(t) ==
    /\ At(t, "loaded")
    /\ pc' = [pc EXCEPT ![t] = "running"]
    /\ IF granularity = "step" THEN subs' = subs \cup {t} /\ Added ELSE UNCHANGED <<subs, raced>>
    /\ UNCHANGED <<granularity, loaded, suites, steps, given, goFailed, cases, sub, count,
                   total, output>>

\* mutant: Run goes on with the next step
RunStep_GoesOn(t) ==
    /\ At(t, "running") /\ Len(steps[t]) <= MaxSteps
    /\ \E failed \in BOOLEAN :
          /\ steps' = [steps EXCEPT ![t] = Append(@, failed)]
          /\ goFailed' = [goFailed EXCEPT ![t] = @ \/ failed]
          /\ pc' = pc
    /\ UNCHANGED <<granularity, loaded, suites, given, tree, output>>

\* setup or a step: the first that fails is the last of the test.
RunStep(t) ==
    /\ At(t, "running") /\ Len(steps[t]) <= MaxSteps
    /\ \E failed \in BOOLEAN :
          /\ steps' = [steps EXCEPT ![t] = Append(@, failed)]
          /\ goFailed' = [goFailed EXCEPT ![t] = @ \/ failed]
          /\ pc' = [pc EXCEPT ![t] = IF failed THEN "done" ELSE "running"]
    /\ UNCHANGED <<granularity, loaded, suites, given, tree, output>>

\* All steps have passed; the deferred Done follows.
RunReturns(t) ==
    /\ At(t, "running") /\ steps[t] # <<>>
    /\ pc' = [pc EXCEPT ![t] = "done"]
    /\ UNCHANGED <<granularity, loaded, suites, steps, given, goFailed, tree, output>>

-----------------------------------------------------------------------------
(* Done and AddTestcase.                                                   *)

One(failed) == [tests |-> 1, failures |-> IF failed THEN 1 ELSE 0]
AnyFailed(t) == \E i \in 1..Len(steps[t]) : steps[t][i]

\* mutant: the test case gets the failure of setup only
Failure_OfSetup(t) == steps[t][1]

\* populate for every step: what failed stays failed.
Failure(t) == AnyFailed(t)

\* One test case for the test, or one for each step in its sub suite.
DoneTest(t) ==
    /\ At(t, "done") /\ granularity = "test" /\ given[t] = 0
    /\ given' = [given EXCEPT ![t] = Len(steps[t])]
    /\ cases' = cases \cup {[test |-> t, step |-> 0, failed |-> Failure(t)]}
    /\ count' = [count EXCEPT ![SuiteOf[t]] = Plus(@, One(Failure(t)))]
    /\ Added
    /\ UNCHANGED <<granularity, loaded, suites, pc, steps, goFailed, subs, sub, total, output>>

DoneStep(t) ==
    /\ At(t, "done") /\ granularity = "step" /\ given[t] < Len(steps[t])
    /\ given' = [given EXCEPT ![t] = @ + 1]
    /\ LET failed == steps[t][given[t] + 1] IN
       /\ cases' = cases \cup {[test |-> t, step |-> given[t], failed |-> failed]}
       /\ sub' = [sub EXCEPT ![t] = Plus(@, One(failed))]
    /\ Added
    /\ UNCHANGED <<granularity, loaded, suites, pc, steps, goFailed, subs, count, total, output>>

Done(t) == /\ At(t, "done") /\ given[t] = Len(steps[t])
           /\ pc' = [pc EXCEPT ![t] = "cleanup"]
           /\ UNCHANGED <<granularity, loaded, suites, steps, given, goFailed, tree, output>>

\* The functions of t.Cleanup can still fail the test.
Cleanup(t) ==
    /\ At(t, "cleanup")
    /\ pc' = [pc EXCEPT ![t] = "over"]
    /\ \E failed \in BOOLEAN : goFailed' = [goFailed EXCEPT ![t] = @ \/ failed]
    /\ UNCHANGED <<granularity, loaded, suites, steps, given, tree, output>>

-----------------------------------------------------------------------------
(* Stop: Close and the file.                                               *)

StartClose == /\ closing' = [Open EXCEPT !.phase = "suites", !.left = suites]
              /\ lists' = [suites |-> suites, subs |-> {}]
              /\ begun' = Nothing
              /\ closes' = closes + 1

\* mutant: Stop does not wait for the parallel tests
StopAfterTests_NoWait ==
    /\ closing = Open
    /\ StartClose
    /\ UNCHANGED <<granularity, tests, tree, file, interrupted>>

\* T.Cleanup calls Stop when the tests are over, or could not be read.
StopAfterTests ==
    /\ closing = Open /\ closes = 0
    /\ \/ ~loaded
       \/ suites = Suite /\ \A t \in Test : pc[t] = "over"
    /\ StartClose
    /\ UNCHANGED <<granularity, tests, tree, file, interrupted>>

Interrupt == /\ closing = Open /\ closes = 0
             /\ StartClose
             /\ interrupted' = TRUE
             /\ UNCHANGED <<granularity, tests, tree, file>>

\* What a loop may find where x was when it began: any element of the list,
\* if it has been added to, and sorted, since.
Find(x, then, now) == IF then = now THEN {x} ELSE now

Summarize(s) ==
    /\ closing.phase = "suites"
    /\ \E x \in closing.left :
          /\ s \in Find(x, lists.suites, suites)
          /\ closing' = [phase |-> "subs", left |-> closing.left \ {x}, suite |-> {s},
                         subs |-> SubSuites(s)]
    /\ lists' = [lists EXCEPT !.subs = SubSuites(s)]
    /\ UNCHANGED <<granularity, tests, tree, begun, closes, file, interrupted>>

\* mutant: the loop does not go on to the next sub suite
AddSub_Again(t) ==
    /\ closing.phase = "subs"
    /\ \E s \in closing.suite, x \in closing.subs :
          /\ t \in Find(x, lists.subs, SubSuites(s))
          /\ count' = [count EXCEPT ![s] = Plus(@, sub[t])]
          /\ closing' = closing
    /\ UNCHANGED <<granularity, tests, subs, cases, sub, total, raced, lists, begun, closes,
                   file, interrupted>>

AddSub(t) ==
    /\ closing.phase = "subs"
    /\ \E s \in closing.suite, x \in closing.subs :
          /\ t \in Find(x, lists.subs, SubSuites(s))
          /\ count' = [count EXCEPT ![s] = Plus(@, sub[t])]
          /\ closing' = [closing EXCEPT !.subs = @ \ {x}]
    /\ UNCHANGED <<granularity, tests, subs, cases, sub, total, raced, lists, begun, closes,
                   file, interrupted>>

AddSuite ==
    /\ closing.phase = "subs" /\ closing.subs = {}
    /\ \A s \in closing.suite : total' = Plus(total, count[s])
    /\ closing' = [closing EXCEPT !.phase = "suites", !.suite = {}]
    /\ UNCHANGED <<granularity, tests, subs, cases, sub, count, raced, lists, begun, closes,
                   file, interrupted>>

Closed == /\ closing.phase = "suites" /\ closing.left = {}
          /\ closing' = [closing EXCEPT !.phase = "write"]
          /\ begun' = [suites |-> suites, subs |-> subs, cases |-> cases, sub |-> sub,
                       count |-> count]
          /\ UNCHANGED <<granularity, tests, tree, lists, closes, file, interrupted>>

\* Nothing was added to the lists that lead to the test cases of t since the
\* marshaller began: of the suites, of the sub suites and of the test cases.
Beside(t) == {c \in cases : IF granularity = "test" THEN SuiteOf[c.test] = SuiteOf[t]
                                                   ELSE c.test = t}
Fixed(t) == /\ suites = begun.suites
            /\ SubSuites(SuiteOf[t]) \subseteq begun.subs
            /\ Beside(t) \subseteq begun.cases

\* What is read of numbers that grow from f to g, one by one.
Between(a, b) == [tests : a.tests..b.tests, failures : a.failures..b.failures]
Readings(f, g) ==
    {h \in [DOMAIN g -> UNION {Between(f[x], g[x]) : x \in DOMAIN g}] :
        \A x \in DOMAIN g : h[x] \in Between(f[x], g[x])}

\* The marshaller goes over the lists as the loops of Close do.
Write ==
    /\ closing.phase = "write"
    /\ \E missed \in SUBSET {c \in cases : ~Fixed(c.test)},
          n \in Readings(begun.sub, sub), m \in Readings(begun.count, count) :
          file' = [cases |-> cases \ missed, sub |-> n, count |-> m, total |-> total]
    /\ closing' = [closing EXCEPT !.phase = "written"]
    /\ UNCHANGED <<granularity, tests, tree, lists, begun, closes, interrupted>>

\* fatal calls Stop, which closes the report once more.
WriteFails ==
    /\ closing.phase = "write"
    /\ IF closes < MaxCloses THEN StartClose
       ELSE closing' = [closing EXCEPT !.phase = "failed"] /\ UNCHANGED <<lists, begun, closes>>
    /\ UNCHANGED <<granularity, tests, tree, file, interrupted>>

Terminated == ~Alive /\ UNCHANGED vars

TestNext(t) == \/ LoadTestSteps(t) \/ NewTestReporter(t) \/ RunStep(t) \/ RunReturns(t)
               \/ DoneTest(t) \/ DoneStep(t) \/ Done(t) \/ Cleanup(t)

Next == \/ LoadTests
        \/ \E s \in Suite : NewSuiteReport(s) \/ Summarize(s)
        \/ \E t \in Test : TestNext(t) \/ AddSub(t)
        \/ StopAfterTests \/ Interrupt
        \/ AddSuite \/ Closed \/ Write \/ WriteFails
        \/ Terminated

Spec == Init /\ [][Next]_vars

-----------------------------------------------------------------------------
(* Properties.                                                             *)

Written == closing.phase = "written"
Of(t) == {c \in cases : c.test = t}
In(s) == {c \in cases : SuiteOf[c.test] = s}
Failed(S) == {c \in S : c.failed}
Num(S) == [tests |-> Cardinality(S), failures |-> Cardinality(Failed(S))]

\* The numbers of a report that was closed once are those of the test cases,
\* for every suite, every sub suite and in total: when nobody interrupted, as
\* then all tests were through, and after an interrupt if none of them added
\* anything since.  One that did may be counted twice, or not at all.
NumbersAddUp ==
    /\ Written
    /\ closes = 1
    /\ ~interrupted \/ ~raced
    => /\ \A s \in suites : file.count[s] = Num(In(s))
       /\ \A t \in subs : file.sub[t] = Num(Of(t))
       /\ file.total = Num(cases)

\* The failure of a step is in the report that is written, in either
\* granularity, once the test is through with Done: always when nobody
\* interrupted, and after an interrupt if nothing was added to the lists that
\* lead to it while they were marshalled.  And no test has a failure in the
\* report that passed in Go.  The converse does not hold: a test that fails
\* in LoadTestSteps or Cleanup has none.
StepFailuresShown ==
    Written => /\ \A t \in Test : /\ AnyFailed(t)
                                  /\ pc[t] \in {"cleanup", "over"}
                                  /\ ~interrupted \/ Fixed(t)
                                  => \E c \in Failed(file.cases) : c.test = t
               /\ \A c \in Failed(file.cases) : goFailed[c.test]

\* A test has one failure at most, and that is its last entry: nothing runs
\* after a step that failed.
FailureIsLast == \A c \in Failed(cases), d \in cases :
                    c.test = d.test => d.step <= c.step
=============================================================================
