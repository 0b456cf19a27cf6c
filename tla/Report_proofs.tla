---------------------------- MODULE Report_proofs ----------------------------
(***************************************************************************)
(* Proofs about Report: for any suites and tests, any number of steps and  *)
(* of attempts to write the report.                                        *)
(***************************************************************************)
EXTENDS Report, Integers, FiniteSetTheorems, TLAPS

-----------------------------------------------------------------------------
(* The inductive invariant.                                                *)

States == {"waiting", "loaded", "running", "done", "cleanup", "over"}
Phases == {"open", "suites", "subs", "write", "written", "failed"}

\* The part of TypeOK that has no numbers of the report in it.
Shape ==
    /\ granularity \in {"test", "step"}
    /\ pc \in [Test -> States]
    /\ steps \in [Test -> Seq(BOOLEAN)]
    /\ given \in [Test -> Nat]
    /\ goFailed \in [Test -> BOOLEAN]
    /\ cases \subseteq [test : Test, step : Nat, failed : BOOLEAN]

\* A test has no steps before it runs and hands over none before Done, which
\* hands over all of them.  The failed step is the last.
TestInv(t) ==
    /\ pc[t] \in {"waiting", "loaded"} => steps[t] = <<>>
    /\ pc[t] = "done" => steps[t] # <<>>
    /\ pc[t] \in {"waiting", "loaded", "running"} => given[t] = 0
    /\ pc[t] \in {"cleanup", "over"} => given[t] = Len(steps[t])
    /\ given[t] <= Len(steps[t])
    /\ Len(steps[t]) <= MaxSteps + 1
    /\ \A i \in 1..Len(steps[t]) : steps[t][i] => /\ i = Len(steps[t])
                                                  /\ pc[t] # "running"
                                                  /\ goFailed[t]

\* What a test case in the tree says of its test.
CaseInv(c) ==
    /\ c.step < given[c.test]
    /\ c.failed => AnyFailed(c.test)
    /\ granularity = "test" => c.step = 0
    /\ granularity = "step" /\ c.failed => c.step + 1 = Len(steps[c.test])

\* A failure that was handed over is in the tree.
ShownInv(t) == AnyFailed(t) /\ given[t] = Len(steps[t])
                  => \E c \in cases : c.test = t /\ c.failed

\* What is missing from the file was beside something added meanwhile.
FileInv ==
    /\ file.cases \subseteq cases
    /\ begun.cases \subseteq cases /\ begun.suites \subseteq suites /\ begun.subs \subseteq subs
    /\ Written => /\ \A c \in cases : Fixed(c.test) => c \in file.cases
                  /\ ~raced => file = [cases |-> cases, sub |-> sub, count |-> count,
                                       total |-> total]

TestsInv == /\ Shape
            /\ \A t \in Test : TestInv(t) /\ ShownInv(t)
            /\ \A c \in cases : CaseInv(c)

\* Where Close is: it has one suite in hand, and a list of sub suites.
ClosingInv ==
    /\ closing \in [phase : Phases, left : SUBSET Suite, suite : SUBSET Suite,
                    subs : SUBSET Test]
    /\ lists \in [suites : SUBSET Suite, subs : SUBSET Test]
    /\ closing.left \subseteq lists.suites /\ lists.suites \subseteq suites
    /\ closing.subs \subseteq lists.subs /\ lists.subs \subseteq subs
    /\ closing.phase \notin {"suites", "subs"} => closing.left = {}
    /\ closing.phase # "subs" => closing.suite = {} /\ closing.subs = {}
    /\ closing.phase = "subs" =>
         \E s \in suites : closing.suite = {s} /\ \A t \in lists.subs : SuiteOf[t] = s
    /\ closes \in 0..MaxCloses
    /\ closes = 0 <=> closing.phase = "open"

\* If nothing was added since Close began, its loops find what there was, each
\* suite once, and so does the marshaller.  Only an interrupt lets tests add.
RacedInv ==
    /\ raced \in BOOLEAN
    /\ ~interrupted => ~raced
    /\ ~raced /\ closing.phase # "open" => lists.suites = suites
    /\ ~raced /\ closing.phase = "subs" =>
         \E s \in suites : /\ closing.suite = {s} /\ s \notin closing.left
                          /\ lists.subs = SubSuites(s)
    /\ ~raced /\ closing.phase \in {"write", "written"} =>
         begun = [suites |-> suites, subs |-> subs, cases |-> cases, sub |-> sub,
                  count |-> count]

\* A test starts when all suites are there; a Close that nobody interrupted
\* for finds all tests over, or none loaded.
LoadInv ==
    /\ {loaded, interrupted} \subseteq BOOLEAN /\ suites \subseteq Suite
    /\ ~loaded => suites = {}
    /\ \A t \in Test : pc[t] # "waiting" => suites = Suite
    /\ closing.phase # "open" /\ ~interrupted
         => ~loaded \/ (suites = Suite /\ \A t \in Test : pc[t] = "over")

\* A test that can hand over steps has its sub suite.
SubsInv ==
    /\ subs \subseteq Test
    /\ granularity = "test" => subs = {}
    /\ granularity = "step" => /\ \A t \in Test : pc[t] \in {"running", "done"} => t \in subs
                               /\ \A c \in cases : c.test \in subs

\* What the numbers are.
Number == [tests : Nat, failures : Nat]

\* The sub suites Close has not added to the suite yet, the test cases that
\* have been counted for the suite, and the suites that are in the total.
Pending(s) == IF s \in closing.left THEN Test
              ELSE IF s \in closing.suite THEN closing.subs ELSE {}
Counted(s) == {c \in cases : /\ SuiteOf[c.test] = s
                             /\ granularity = "step" => /\ closing.phase # "open"
                                                        /\ c.test \notin Pending(s)}
Summed == IF closing.phase = "open" THEN {} ELSE suites \ (closing.left \cup closing.suite)

\* In the first Close what has been counted is counted once, if nothing has
\* been added meanwhile.
NumbersInv ==
    /\ IsFiniteSet(cases)
    /\ sub \in [Test -> Number] /\ count \in [Suite -> Number] /\ total \in Number
    /\ granularity = "test" => \A t \in Test : sub[t] = Zero
    /\ granularity = "step" => \A t \in Test : sub[t] = Num(Of(t)) /\ sub[t].tests = given[t]
    /\ closes <= 1 /\ ~raced => /\ \A s \in Suite : count[s] = Num(Counted(s))
                                /\ total = Num({c \in cases : SuiteOf[c.test] \in Summed})

\* Each Close takes as many suites as there are, and as many sub suites for each.
OfSuite == Cardinality(Test) * SubLimit
LimitInv ==
    /\ \A t \in Test : sub[t].failures <= sub[t].tests
    /\ \A s \in Suite : count[s].failures <= count[s].tests
    /\ total.failures <= total.tests
    /\ granularity = "test" => \A s \in Suite :
         count[s].tests + Cardinality({t \in Test : given[t] = 0}) <= Cardinality(Test)
    /\ granularity = "step" => \A s \in Suite :
         count[s].tests + (Cardinality(closing.left) * OfSuite
                           + Cardinality(closing.subs) * SubLimit)
           <= closes * (Cardinality(Suite) * OfSuite)
    /\ total.tests + (Cardinality(closing.left) + Cardinality(closing.suite)) * SuiteLimit
         <= closes * (Cardinality(Suite) * SuiteLimit)

IInv == /\ TestsInv /\ FileInv /\ ClosingInv /\ LoadInv /\ SubsInv /\ RacedInv
        /\ NumbersInv /\ LimitInv

-----------------------------------------------------------------------------
(* Types.                                                                  *)

\* The parts of Shape for one test, and for one test case.
LEMMA Types ==
    ASSUME Shape, NEW t \in Test
    PROVE  /\ granularity \in {"test", "step"} /\ pc[t] \in States
           /\ steps[t] \in Seq(BOOLEAN) /\ Len(steps[t]) \in Nat
           /\ given[t] \in Nat /\ goFailed[t] \in BOOLEAN
           /\ \A i \in 1..Len(steps[t]) : steps[t][i] \in BOOLEAN
<1>1. granularity \in {"test", "step"} /\ pc[t] \in States /\ steps[t] \in Seq(BOOLEAN)
      /\ given[t] \in Nat /\ goFailed[t] \in BOOLEAN
  BY Zenon DEF Shape
<1> QED BY <1>1

LEMMA CaseTypes ==
    ASSUME Shape, NEW c \in cases
    PROVE  c.test \in Test /\ c.step \in Nat /\ c.failed \in BOOLEAN
BY DEF Shape

-----------------------------------------------------------------------------
(* Tests and their cases.                                                  *)

LEMMA InitTests == Init => TestsInv
<1> SUFFICES ASSUME Init PROVE TestsInv
  OBVIOUS
<1>1. Shape
  BY DEF Init, Shape, States
<1>2. ASSUME NEW t \in Test PROVE TestInv(t) /\ ShownInv(t)
  BY ReportAssumption DEF Init, TestInv, ShownInv, AnyFailed
<1>3. cases = {}
  BY DEF Init
<1> QED BY <1>1, <1>2, <1>3 DEF TestsInv
Core == <<granularity, pc, steps, given, goFailed, cases>>

\* Most actions of Close and of loading do not touch a test or a test case.
LEMMA Quiet == ASSUME TestsInv, UNCHANGED Core PROVE TestsInv'
<1>1. granularity' = granularity /\ pc' = pc /\ steps' = steps /\ given' = given
      /\ goFailed' = goFailed /\ cases' = cases
  BY DEF Core
<1>2. Shape'
  BY <1>1, Zenon DEF TestsInv, Shape
<1>3. \A t \in Test : TestInv(t)' /\ ShownInv(t)'
  BY <1>1 DEF TestsInv, TestInv, ShownInv, AnyFailed
<1>4. \A c \in cases' : CaseInv(c)'
  BY <1>1 DEF TestsInv, CaseInv, AnyFailed
<1> QED BY <1>2, <1>3, <1>4 DEF TestsInv

\* A step of one test: what has to be shown for it and its test cases.
LEMMA OneTest ==
    ASSUME TestsInv, NEW t \in Test, granularity' = granularity, Shape', cases \subseteq cases',
           \A u \in Test \ {t} : /\ pc'[u] = pc[u] /\ steps'[u] = steps[u]
                                 /\ given'[u] = given[u] /\ goFailed'[u] = goFailed[u],
           TestInv(t)', ShownInv(t)',
           \A c \in cases' : (c \in cases /\ c.test # t) \/ CaseInv(c)'
    PROVE  TestsInv'
<1>1. \A u \in Test \ {t} : TestInv(u)'
  BY DEF TestsInv, TestInv
<1>2. \A u \in Test \ {t} : ShownInv(u)'
  BY DEF TestsInv, ShownInv, AnyFailed
<1>3. ASSUME NEW c \in cases, c.test # t PROVE CaseInv(c)'
  <2>1. c.test \in Test \ {t}
    BY <1>3, CaseTypes DEF TestsInv
  <2> QED BY <2>1 DEF TestsInv, CaseInv, AnyFailed
<1> QED BY <1>1, <1>2, <1>3 DEF TestsInv

LEMMA LoadStepsStep == ASSUME TestsInv, NEW t \in Test, LoadTestSteps(t) PROVE TestsInv'
<1> USE DEF LoadTestSteps, At
<1>1. PICK ok \in BOOLEAN : /\ pc' = [pc EXCEPT ![t] = IF ok THEN "loaded" ELSE "over"]
                            /\ goFailed' = [goFailed EXCEPT ![t] = ~ok]
  OBVIOUS
<1>2. Shape'
  BY <1>1 DEF TestsInv, Shape, States, tree, output
<1>3. TestInv(t) /\ pc[t] = "waiting" /\ pc'[t] \in {"loaded", "over"}
      /\ steps' = steps /\ given' = given /\ cases' = cases
  BY <1>1 DEF TestsInv, Shape, tree, output
<1>4. steps[t] = <<>> /\ given[t] = 0
  BY <1>3 DEF TestInv
<1>5. TestInv(t)' /\ ShownInv(t)'
  BY <1>3, <1>4 DEF TestInv, ShownInv, AnyFailed
<1>6. \A c \in cases' : c.test # t
  BY <1>3, <1>4, CaseTypes DEF TestsInv, CaseInv
<1> QED BY <1>1, <1>2, <1>3, <1>5, <1>6, OneTest DEF TestsInv, Shape, output, tree

LEMMA ReporterStep == ASSUME TestsInv, NEW t \in Test, NewTestReporter(t) PROVE TestsInv'
<1> USE DEF NewTestReporter, At
<1>1. Shape'
  BY DEF TestsInv, Shape, States, output
<1>2. TestInv(t) /\ pc[t] = "loaded" /\ pc'[t] = "running"
      /\ steps' = steps /\ given' = given /\ cases' = cases
  BY DEF TestsInv, Shape, output
<1>3. steps[t] = <<>> /\ given[t] = 0
  BY <1>2 DEF TestInv
<1>4. TestInv(t)' /\ ShownInv(t)'
  BY <1>2, <1>3 DEF TestInv, ShownInv, AnyFailed
<1>5. \A c \in cases' : c.test # t
  BY <1>2, <1>3, CaseTypes DEF TestsInv, CaseInv
<1> QED BY <1>1, <1>2, <1>4, <1>5, OneTest DEF TestsInv, Shape, output

\* Before the step no step of the test has failed, so that a failure is the
\* last entry.
LEMMA RunStepStep == ASSUME TestsInv, NEW t \in Test, RunStep(t) PROVE TestsInv'
<1> USE DEF RunStep, At
<1>1. PICK failed \in BOOLEAN :
        /\ steps' = [steps EXCEPT ![t] = Append(@, failed)]
        /\ goFailed' = [goFailed EXCEPT ![t] = @ \/ failed]
        /\ pc' = [pc EXCEPT ![t] = IF failed THEN "done" ELSE "running"]
  OBVIOUS
<1>2. TestInv(t) /\ pc[t] = "running" /\ Len(steps[t]) <= MaxSteps
      /\ given' = given /\ cases' = cases
  BY DEF TestsInv, tree
<1>3. given[t] = 0 /\ \A i \in 1..Len(steps[t]) : ~steps[t][i]
  BY <1>2 DEF TestInv
<1>4. steps[t] \in Seq(BOOLEAN) /\ Len(steps[t]) \in Nat
  BY Types DEF TestsInv
<1>5. goFailed' \in [Test -> BOOLEAN] /\ (failed => goFailed'[t])
  BY <1>1, Zenon DEF TestsInv, Shape
<1>6. Shape'
  <2>1. pc' \in [Test -> States]
    BY <1>1 DEF TestsInv, Shape, States
  <2>2. steps' \in [Test -> Seq(BOOLEAN)]
    <3>1. Append(steps[t], failed) \in Seq(BOOLEAN)
      BY <1>4
    <3> QED BY <1>1, <3>1, Zenon DEF TestsInv, Shape
  <2> QED BY <1>2, <1>5, <2>1, <2>2, Zenon DEF TestsInv, Shape
<1>7. /\ steps'[t] = Append(steps[t], failed)
      /\ Len(steps'[t]) = Len(steps[t]) + 1
      /\ \A i \in 1..Len(steps[t]) : ~steps'[t][i]
      /\ steps'[t][Len(steps[t]) + 1] = failed
      /\ steps'[t] # <<>>
  <2>1. steps'[t] = Append(steps[t], failed)
    BY <1>1 DEF TestsInv, Shape
  <2> QED BY <2>1, <1>3, <1>4
<1>8. pc'[t] = IF failed THEN "done" ELSE "running"
  BY <1>1 DEF TestsInv, Shape
<1>9. TestInv(t)'
  <2>1. ASSUME NEW i \in 1..Len(steps'[t]), steps'[t][i]
        PROVE  i = Len(steps'[t]) /\ pc'[t] # "running" /\ goFailed'[t]
    <3>1. i = Len(steps[t]) + 1
      BY <2>1, <1>4, <1>7
    <3>2. failed
      BY <2>1, <3>1, <1>7
    <3> QED BY <3>1, <3>2, <1>5, <1>7, <1>8
  <2> QED BY <2>1, <1>2, <1>3, <1>4, <1>7, <1>8, ReportAssumption DEF TestInv
<1>10. ShownInv(t)'
  BY <1>2, <1>3, <1>4, <1>7 DEF ShownInv, AnyFailed
<1>11. \A c \in cases' : c.test # t
  BY <1>2, <1>3, CaseTypes DEF TestsInv, CaseInv
<1> QED BY <1>1, <1>2, <1>6, <1>9, <1>10, <1>11, OneTest DEF TestsInv, Shape, tree,
   output

\* The end of Run: every step has passed.
LEMMA ReturnsStep == ASSUME TestsInv, NEW t \in Test, RunReturns(t) PROVE TestsInv'
<1> USE DEF RunReturns, At
<1>1. Shape'
  BY DEF TestsInv, Shape, States, tree, output
<1>2. TestInv(t) /\ ShownInv(t) /\ pc[t] = "running" /\ pc'[t] = "done" /\ steps[t] # <<>>
      /\ steps' = steps /\ given' = given /\ cases' = cases /\ goFailed' = goFailed
  BY DEF TestsInv, Shape, tree, output
<1>3. TestInv(t)' /\ ShownInv(t)'
  BY <1>2 DEF TestInv, ShownInv, AnyFailed
<1>4. given[t] = 0
  BY <1>2 DEF TestInv
<1>5. \A c \in cases' : c.test # t
  BY <1>2, <1>4, CaseTypes DEF TestsInv, CaseInv
<1> QED BY <1>1, <1>2, <1>3, <1>5, OneTest DEF TestsInv, Shape, tree, output

\* Done hands over all results of a test at once: the case has its failure.
LEMMA DoneTestStep == ASSUME TestsInv, NEW t \in Test, DoneTest(t) PROVE TestsInv'
<1> USE DEF DoneTest, At
<1>0. PICK c0 : c0 = [test |-> t, step |-> 0, failed |-> Failure(t)]
  OBVIOUS
<1>1. TestInv(t) /\ ShownInv(t) /\ pc[t] = "done" /\ given[t] = 0 /\ granularity = "test"
      /\ steps' = steps /\ pc' = pc /\ goFailed' = goFailed /\ granularity' = granularity
  BY DEF TestsInv, output
<1>2. steps[t] \in Seq(BOOLEAN) /\ Len(steps[t]) \in Nat \ {0} /\ given'[t] = Len(steps[t])
      /\ \A i \in 1..Len(steps[t]) : steps[t][i] \in BOOLEAN
  BY <1>1, Types DEF TestsInv, Shape, TestInv
<1>3. c0.test = t /\ c0.step = 0 /\ (c0.failed <=> AnyFailed(t))
  BY <1>0, Zenon DEF Failure
<1>4. cases' = cases \cup {c0}
  BY <1>0
<1>5. c0 \in [test : Test, step : Nat, failed : BOOLEAN]
  <2>1. Failure(t) \in BOOLEAN
    BY Zenon DEF Failure, AnyFailed
  <2> QED BY <1>0, <2>1
<1>6. Shape'
  <2>1. given' \in [Test -> Nat]
    BY <1>2 DEF TestsInv, Shape
  <2> QED BY <1>1, <1>4, <1>5, <2>1, Zenon DEF TestsInv, Shape
<1>7. TestInv(t)'
  BY <1>1, <1>2 DEF TestInv
<1>8. ShownInv(t)'
  BY <1>1, <1>3, <1>4 DEF ShownInv, AnyFailed
<1>9. \A c \in cases : c.test # t
  BY <1>1, CaseTypes DEF TestsInv, CaseInv
<1>10. CaseInv(c0)'
  <2>1. AnyFailed(t)' <=> AnyFailed(t)
    BY <1>1, Zenon DEF AnyFailed
  <2>2. c0.step < given'[c0.test] /\ (c0.failed => AnyFailed(c0.test)')
    BY <1>2, <1>3, <2>1
  <2> QED BY <1>1, <1>3, <2>2 DEF CaseInv
<1> QED BY <1>1, <1>4, <1>6, <1>7, <1>8, <1>9, <1>10, OneTest DEF TestsInv, Shape,
   output

\* Done hands over one step: the last is the one that may have failed.
LEMMA DoneStepStep == ASSUME TestsInv, NEW t \in Test, DoneStep(t) PROVE TestsInv'
<1> USE DEF DoneStep, At
<1> DEFINE n == given[t]
<1>0. PICK c0 : c0 = [test |-> t, step |-> n, failed |-> steps[t][n + 1]]
  OBVIOUS
<1>1. TestInv(t) /\ ShownInv(t) /\ pc[t] = "done" /\ granularity = "step"
      /\ steps' = steps /\ pc' = pc /\ goFailed' = goFailed /\ granularity' = granularity
  BY DEF TestsInv, output
<1>2. steps[t] \in Seq(BOOLEAN) /\ Len(steps[t]) \in Nat /\ n \in Nat /\ given'[t] = n + 1
      /\ n < Len(steps[t]) /\ \A i \in 1..Len(steps[t]) : steps[t][i] \in BOOLEAN
  BY <1>1, Types DEF TestsInv, Shape
<1>3. c0.test = t /\ c0.step = n /\ c0.failed = steps[t][n + 1]
  BY <1>0
<1>4. cases' = cases \cup {c0}
  BY <1>0
<1>5. c0 \in [test : Test, step : Nat, failed : BOOLEAN]
  BY <1>0, <1>2
<1>6. Shape'
  <2>1. given' \in [Test -> Nat]
    BY <1>2 DEF TestsInv, Shape
  <2> QED BY <1>1, <1>4, <1>5, <2>1, Zenon DEF TestsInv, Shape
<1>7. TestInv(t)'
  BY <1>1, <1>2 DEF TestInv
<1>8. ShownInv(t)'
  <2> SUFFICES ASSUME AnyFailed(t)', given'[t] = Len(steps'[t])
               PROVE  \E c \in cases' : c.test = t /\ c.failed
    BY DEF ShownInv
  <2>1. PICK i \in 1..Len(steps[t]) : steps[t][i]
    BY <1>1 DEF AnyFailed
  <2>2. i = n + 1
    BY <1>1, <1>2, <2>1 DEF TestInv
  <2>3. c0.failed
    BY <1>3, <2>1, <2>2
  <2> QED BY <1>3, <1>4, <2>3
<1>9. CaseInv(c0)'
  <2>1. ASSUME c0.failed PROVE AnyFailed(t)' /\ n + 1 = Len(steps'[t])
    <3>1. n + 1 \in 1..Len(steps[t]) /\ steps[t][n + 1]
      BY <2>1, <1>2, <1>3
    <3>2. n + 1 = Len(steps[t])
      BY <3>1, <1>1 DEF TestInv
    <3> QED BY <3>1, <3>2, <1>1 DEF AnyFailed
  <2>2. c0.step < given'[c0.test]
    BY <1>2, <1>3
  <2> QED BY <1>1, <1>3, <2>1, <2>2 DEF CaseInv
<1>10. ASSUME NEW c \in cases, c.test = t PROVE CaseInv(c)'
  <2>1. CaseInv(c) /\ c.step \in Nat
    BY CaseTypes DEF TestsInv
  <2>2. AnyFailed(t)' <=> AnyFailed(t)
    BY <1>1, Zenon DEF AnyFailed
  <2> QED BY <1>1, <1>2, <1>10, <2>1, <2>2 DEF CaseInv
<1> QED BY <1>1, <1>4, <1>6, <1>7, <1>8, <1>9, <1>10, OneTest DEF TestsInv, Shape,
   output

\* Done returns when everything is handed over.
LEMMA DoneEnd == ASSUME TestsInv, NEW t \in Test, Done(t) PROVE TestsInv'
<1> USE DEF Done, At
<1>1. Shape'
  BY DEF TestsInv, Shape, States, tree, output
<1>2. TestInv(t) /\ ShownInv(t) /\ pc[t] = "done" /\ pc'[t] = "cleanup" /\ given[t] = Len(steps[t])
      /\ steps' = steps /\ given' = given /\ cases' = cases /\ goFailed' = goFailed
      /\ granularity' = granularity
  BY DEF TestsInv, Shape, tree, output
<1>3. TestInv(t)' /\ ShownInv(t)'
  BY <1>2 DEF TestInv, ShownInv, AnyFailed
<1>4. \A c \in cases' : CaseInv(c)'
  BY <1>2 DEF TestsInv, CaseInv, AnyFailed
<1> QED BY <1>1, <1>2, <1>3, <1>4, OneTest DEF TestsInv, Shape, tree, output

\* A cleanup may fail the test, and adds nothing to the tree.
LEMMA CleanupStep == ASSUME TestsInv, NEW t \in Test, Cleanup(t) PROVE TestsInv'
<1> USE DEF Cleanup, At
<1>1. PICK failed \in BOOLEAN : goFailed' = [goFailed EXCEPT ![t] = @ \/ failed]
  OBVIOUS
<1>2. goFailed' \in [Test -> BOOLEAN] /\ (goFailed[t] => goFailed'[t])
  BY <1>1, Zenon DEF TestsInv, Shape
<1>3. TestInv(t) /\ ShownInv(t) /\ pc[t] = "cleanup" /\ pc'[t] = "over"
      /\ steps' = steps /\ given' = given /\ cases' = cases /\ granularity' = granularity
  BY DEF TestsInv, Shape, tree, output
<1>4. Shape'
  <2>1. pc' \in [Test -> States]
    BY DEF TestsInv, Shape, States
  <2> QED BY <1>2, <1>3, <2>1, Zenon DEF TestsInv, Shape
<1>5. TestInv(t)' /\ ShownInv(t)'
  BY <1>2, <1>3 DEF TestInv, ShownInv, AnyFailed
<1>6. \A c \in cases' : CaseInv(c)'
  BY <1>3 DEF TestsInv, CaseInv, AnyFailed
<1> QED BY <1>1, <1>3, <1>4, <1>5, <1>6, OneTest DEF TestsInv, Shape, tree, output

LEMMA TestStep == ASSUME TestsInv, NEW t \in Test, TestNext(t) PROVE TestsInv'
BY LoadStepsStep, ReporterStep, RunStepStep, ReturnsStep, DoneTestStep, DoneStepStep,
   DoneEnd, CleanupStep DEF TestNext

\* The actions that touch neither a test nor a test case.
CloseNext == \/ LoadTests \/ StopAfterTests \/ Interrupt \/ AddSuite \/ Closed \/ Write
             \/ WriteFails
             \/ \E s \in Suite : NewSuiteReport(s) \/ Summarize(s)
             \/ \E t \in Test : AddSub(t)

LEMMA CloseQuiet == ASSUME CloseNext PROVE UNCHANGED Core
<1>1. CASE LoadTests \/ \E s \in Suite : NewSuiteReport(s) \/ Summarize(s)
  BY <1>1 DEF Core, LoadTests, NewSuiteReport, Summarize, tests, tree, output
<1>2. CASE StopAfterTests \/ Interrupt \/ Closed \/ Write \/ WriteFails
  BY <1>2 DEF Core, StopAfterTests, Interrupt, Closed, Write, WriteFails, tests, tree
<1>3. CASE AddSuite \/ \E t \in Test : AddSub(t)
  BY <1>3 DEF Core, AddSuite, AddSub, tests
<1> QED BY <1>1, <1>2, <1>3 DEF CloseNext

\* A step is one of Close or loading, of a test, or none.
LEMMA NextCases == Next => CloseNext \/ (\E t \in Test : TestNext(t)) \/ UNCHANGED vars
BY DEF Next, CloseNext, Terminated

LEMMA NextTests == TestsInv /\ [Next]_vars => TestsInv'
<1> SUFFICES ASSUME TestsInv, [Next]_vars PROVE TestsInv'
  OBVIOUS
<1>1. CASE UNCHANGED vars
  BY <1>1, Quiet DEF vars, tests, tree, Core
<1>2. CASE CloseNext
  BY <1>2, Quiet, CloseQuiet
<1>3. CASE \E t \in Test : TestNext(t)
  BY <1>3, TestStep
<1> QED BY <1>1, <1>2, <1>3, NextCases

-----------------------------------------------------------------------------
(* Loading and Close.                                                      *)

LEMMA InitControl == Init => ClosingInv /\ LoadInv /\ SubsInv /\ RacedInv /\ FileInv
<1> SUFFICES ASSUME Init PROVE ClosingInv /\ LoadInv /\ SubsInv /\ RacedInv /\ FileInv
  OBVIOUS
<1>1. ClosingInv
  BY ReportAssumption DEF Init, ClosingInv, Open, Phases
<1>2. LoadInv /\ SubsInv /\ RacedInv
  BY DEF Init, LoadInv, SubsInv, RacedInv, Open
<1>3. FileInv
  BY DEF Init, FileInv, Written, Open, NoFile, Nothing
<1> QED BY <1>1, <1>2, <1>3

\* The tests and the loading of suites leave Close alone.
LEMMA TestsKeepClose ==
    ASSUME \/ \E t \in Test : TestNext(t)
           \/ LoadTests
           \/ \E s \in Suite : NewSuiteReport(s)
    PROVE  /\ Alive
           /\ UNCHANGED <<granularity, closing, lists, begun, closes, file, interrupted, total>>
<1>1. CASE LoadTests \/ \E s \in Suite : NewSuiteReport(s)
  BY <1>1 DEF LoadTests, NewSuiteReport, tree, output
<1>2. ASSUME NEW t \in Test, TestNext(t)
      PROVE  /\ Alive
             /\ UNCHANGED <<granularity, closing, lists, begun, closes, file, interrupted, total>>
  <2>1. CASE LoadTestSteps(t) \/ NewTestReporter(t) \/ RunStep(t) \/ RunReturns(t)
    BY <2>1 DEF LoadTestSteps, NewTestReporter, RunStep, RunReturns, At, tree, output
  <2>2. CASE DoneTest(t) \/ DoneStep(t) \/ Done(t) \/ Cleanup(t)
    BY <2>2 DEF DoneTest, DoneStep, Done, Cleanup, At, tree, output
  <2> QED BY <1>2, <2>1, <2>2 DEF TestNext
<1> QED BY <1>1, <1>2

\* What they do to the sets that Close reads.
LEMMA TestsGrow ==
    ASSUME SubsInv, LoadInv,
           \/ \E t \in Test : TestNext(t)
           \/ LoadTests
           \/ \E s \in Suite : NewSuiteReport(s)
    PROVE  /\ suites \subseteq suites' /\ suites' \subseteq Suite
           /\ subs \subseteq subs' /\ subs' \subseteq Test
<1>1. CASE LoadTests \/ \E s \in Suite : NewSuiteReport(s)
  BY <1>1 DEF LoadTests, NewSuiteReport, tree, SubsInv, LoadInv
<1>2. ASSUME NEW t \in Test, TestNext(t)
      PROVE  suites' = suites /\ subs \subseteq subs' /\ subs' \subseteq Test
  <2>1. CASE LoadTestSteps(t) \/ NewTestReporter(t) \/ RunStep(t) \/ RunReturns(t)
    BY <2>1 DEF LoadTestSteps, NewTestReporter, RunStep, RunReturns, tree, SubsInv
  <2>2. CASE DoneTest(t) \/ DoneStep(t) \/ Done(t) \/ Cleanup(t)
    BY <2>2 DEF DoneTest, DoneStep, Done, Cleanup, tree, SubsInv
  <2> QED BY <1>2, <2>1, <2>2 DEF TestNext
<1> QED BY <1>1, <1>2 DEF LoadInv

\* The actions of Close leave tests and suites alone.
CloseOnly == \/ StopAfterTests \/ Interrupt \/ AddSuite \/ Closed \/ Write \/ WriteFails
             \/ \E s \in Suite : Summarize(s)
             \/ \E t \in Test : AddSub(t)

LEMMA CloseKeepsTests ==
    ASSUME CloseOnly
    PROVE  UNCHANGED <<granularity, loaded, suites, pc, steps, given, goFailed, subs, cases, sub,
                       raced>>
<1>1. CASE StopAfterTests \/ Interrupt \/ Closed \/ Write \/ WriteFails
  BY <1>1 DEF StopAfterTests, Interrupt, Closed, Write, WriteFails, tests, tree
<1>2. CASE AddSuite
  BY <1>2 DEF AddSuite, tests
<1>3. CASE \E s \in Suite : Summarize(s)
  BY <1>3 DEF Summarize, tests, tree
<1>4. CASE \E t \in Test : AddSub(t)
  BY <1>4 DEF AddSub, tests
<1> QED BY <1>1, <1>2, <1>3, <1>4 DEF CloseOnly

\* A step is one of Close, of a test or of loading, or none.
LEMMA NextSplit == Next => \/ CloseOnly
                           \/ \/ \E t \in Test : TestNext(t)
                              \/ LoadTests
                              \/ \E s \in Suite : NewSuiteReport(s)
                           \/ UNCHANGED vars
BY DEF Next, CloseOnly, Terminated

\* The parts of closing after each action of Close.
LEMMA StartEffect ==
    ASSUME StartClose, closes \in Nat, suites \subseteq Suite
    PROVE  /\ closing' \in [phase : Phases, left : SUBSET Suite, suite : SUBSET Suite,
                            subs : SUBSET Test]
           /\ closing'.phase = "suites" /\ closing'.left = suites
           /\ closing'.suite = {} /\ closing'.subs = {} /\ closes' = closes + 1
           /\ lists' \in [suites : SUBSET Suite, subs : SUBSET Test]
           /\ lists'.suites = suites /\ lists'.subs = {} /\ begun' = Nothing
BY DEF StartClose, Open, Phases

\* The loop over the suites takes one off its list and finds s.
LEMMA SummarizeEffect ==
    ASSUME ClosingInv, SubsInv, LoadInv, NEW s \in Suite, Summarize(s)
    PROVE  \E x \in closing.left :
             /\ s \in suites /\ (lists.suites = suites => s = x)
             /\ closing' \in [phase : Phases, left : SUBSET Suite, suite : SUBSET Suite,
                              subs : SUBSET Test]
             /\ closing.phase = "suites" /\ closing.suite = {} /\ closing.subs = {}
             /\ closing'.phase = "subs" /\ closing'.left = closing.left \ {x}
             /\ closing'.suite = {s} /\ closing'.subs = SubSuites(s)
             /\ SubSuites(s) \in SUBSET Test /\ SubSuites(s) \subseteq subs
             /\ lists' \in [suites : SUBSET Suite, subs : SUBSET Test]
             /\ lists'.suites = lists.suites /\ lists'.subs = SubSuites(s)
             /\ UNCHANGED <<begun, closes, count, total, raced, file, interrupted>>
<1>1. PICK x \in closing.left :
        /\ s \in Find(x, lists.suites, suites)
        /\ closing' = [phase |-> "subs", left |-> closing.left \ {x}, suite |-> {s},
                       subs |-> SubSuites(s)]
  BY DEF Summarize
<1>2. s \in suites /\ (lists.suites = suites => s = x)
  BY <1>1 DEF Find, ClosingInv
<1>3. SubSuites(s) \in SUBSET Test /\ SubSuites(s) \subseteq subs
  BY DEF SubSuites, SubsInv
<1>4. /\ closing.phase = "suites" /\ lists' = [lists EXCEPT !.subs = SubSuites(s)]
      /\ UNCHANGED <<begun, closes, count, total, raced, file, interrupted>>
  BY DEF Summarize, tree
<1>5. /\ closing' \in [phase : Phases, left : SUBSET Suite, suite : SUBSET Suite,
                       subs : SUBSET Test]
      /\ closing'.phase = "subs" /\ closing'.left = closing.left \ {x}
      /\ closing'.suite = {s} /\ closing'.subs = SubSuites(s)
  <2>1. closing.left \ {x} \in SUBSET Suite
    BY DEF ClosingInv
  <2> QED BY <1>1, <1>3, <2>1 DEF Phases
<1>6. /\ lists' \in [suites : SUBSET Suite, subs : SUBSET Test]
      /\ lists'.suites = lists.suites /\ lists'.subs = SubSuites(s)
  BY <1>3, <1>4 DEF ClosingInv
<1>7. closing.suite = {} /\ closing.subs = {}
  BY <1>4 DEF ClosingInv
<1> QED BY <1>2, <1>3, <1>4, <1>5, <1>6, <1>7

\* The loop over the sub suites takes one off its list and finds t.
LEMMA AddSubEffect ==
    ASSUME ClosingInv, SubsInv, NEW t \in Test, AddSub(t)
    PROVE  \E s \in suites, x \in closing.subs :
             /\ closing.suite = {s} /\ SuiteOf[t] = s /\ t \in subs
             /\ (lists.subs = SubSuites(s) => t = x)
             /\ count' = [count EXCEPT ![s] = Plus(@, sub[t])]
             /\ closing' \in [phase : Phases, left : SUBSET Suite, suite : SUBSET Suite,
                              subs : SUBSET Test]
             /\ closing.phase = "subs" /\ closing'.phase = "subs"
             /\ closing'.left = closing.left /\ closing'.suite = closing.suite
             /\ closing'.subs = closing.subs \ {x}
             /\ UNCHANGED <<lists, begun, closes, total, raced, file, interrupted>>
<1>1. PICK s \in closing.suite, x \in closing.subs :
        /\ t \in Find(x, lists.subs, SubSuites(s))
        /\ count' = [count EXCEPT ![s] = Plus(@, sub[t])]
        /\ closing' = [closing EXCEPT !.subs = @ \ {x}]
  BY DEF AddSub
<1>2. /\ closing.phase = "subs"
      /\ UNCHANGED <<lists, begun, closes, total, raced, file, interrupted>>
  BY DEF AddSub
<1>3. closing.suite = {s} /\ s \in suites /\ x \in lists.subs /\ SuiteOf[x] = s /\ x \in subs
  BY <1>1, <1>2 DEF ClosingInv
<1>4. /\ SuiteOf[t] = s /\ t \in subs
      /\ lists.subs = SubSuites(s) => t = x
  BY <1>1, <1>3 DEF Find, SubSuites
<1>5. /\ closing' \in [phase : Phases, left : SUBSET Suite, suite : SUBSET Suite,
                       subs : SUBSET Test]
      /\ closing'.phase = "subs" /\ closing'.left = closing.left
      /\ closing'.suite = closing.suite /\ closing'.subs = closing.subs \ {x}
  BY <1>1, <1>2 DEF ClosingInv
<1> QED BY <1>1, <1>2, <1>3, <1>4, <1>5

LEMMA AddSuiteEffect ==
    ASSUME ClosingInv, AddSuite
    PROVE  /\ closing' \in [phase : Phases, left : SUBSET Suite, suite : SUBSET Suite,
                            subs : SUBSET Test]
           /\ closing.phase = "subs" /\ closing.subs = {}
           /\ closing'.phase = "suites" /\ closing'.left = closing.left
           /\ closing'.suite = {} /\ closing'.subs = {}
           /\ UNCHANGED <<lists, begun, closes, count, raced, file, interrupted>>
BY DEF AddSuite, ClosingInv, Phases

LEMMA PhaseEffect ==
    ASSUME ClosingInv, NEW p \in Phases, closing' = [closing EXCEPT !.phase = p]
    PROVE  /\ closing' \in [phase : Phases, left : SUBSET Suite, suite : SUBSET Suite,
                            subs : SUBSET Test]
           /\ closing'.phase = p /\ closing'.left = closing.left
           /\ closing'.suite = closing.suite /\ closing'.subs = closing.subs
BY DEF ClosingInv

\* The last step of Close, the file, and the end of the attempts.
LEMMA EndEffect ==
    ASSUME ClosingInv, \/ Closed \/ Write
                       \/ WriteFails /\ ~(closes < MaxCloses)
    PROVE  /\ closing' \in [phase : Phases, left : SUBSET Suite, suite : SUBSET Suite,
                            subs : SUBSET Test]
           /\ closing.phase \in {"suites", "write"}
           /\ closing'.phase \in {"write", "written", "failed"}
           /\ closing.left = {} /\ closing'.left = {}
           /\ closing.suite = {} /\ closing'.suite = {}
           /\ closing.subs = {} /\ closing'.subs = {}
           /\ UNCHANGED <<lists, closes, count, total, raced, interrupted>>
<1>1. CASE Closed
  <2>1. /\ closing.phase = "suites" /\ closing.left = {} /\ "write" \in Phases
        /\ closing' = [closing EXCEPT !.phase = "write"]
        /\ UNCHANGED <<lists, closes, count, total, raced, interrupted>>
    BY <1>1 DEF Closed, tree, Phases
  <2> QED BY <2>1, PhaseEffect DEF ClosingInv
<1>2. CASE Write
  <2>1. /\ closing.phase = "write" /\ "written" \in Phases
        /\ closing' = [closing EXCEPT !.phase = "written"]
        /\ UNCHANGED <<lists, closes, count, total, raced, interrupted>>
    BY <1>2 DEF Write, tree, Phases
  <2> QED BY <2>1, PhaseEffect DEF ClosingInv
<1>3. CASE WriteFails /\ ~(closes < MaxCloses)
  <2>1. /\ closing.phase = "write" /\ "failed" \in Phases
        /\ closing' = [closing EXCEPT !.phase = "failed"]
        /\ UNCHANGED <<lists, closes, count, total, raced, interrupted>>
    BY <1>3 DEF WriteFails, tree, Phases
  <2> QED BY <2>1, PhaseEffect DEF ClosingInv
<1> QED BY <1>1, <1>2, <1>3

\* The actions of Close, by what they do to its position.
Begins == StopAfterTests \/ Interrupt \/ (WriteFails /\ closes < MaxCloses)
Ends == Closed \/ Write \/ (WriteFails /\ ~(closes < MaxCloses))

LEMMA CloseSplit ==
    CloseOnly => \/ Begins \/ Ends \/ AddSuite
                 \/ (\E s \in Suite : Summarize(s)) \/ (\E t \in Test : AddSub(t))
BY DEF CloseOnly, Begins, Ends

LEMMA BeginsEffect ==
    ASSUME ClosingInv, LoadInv, Begins
    PROVE  /\ StartClose /\ closes < MaxCloses /\ closes \in Nat
           /\ closing.phase \in {"open", "write"}
           /\ closes = 0 <=> closing.phase = "open"
           /\ UNCHANGED <<count, total, raced, file>>
           /\ ~interrupted' => ~interrupted
<1>1. closes \in 0..MaxCloses /\ MaxCloses \in Nat \ {0} /\ (closes = 0 <=> closing.phase = "open")
  BY ReportAssumption DEF ClosingInv
<1>2. CASE StopAfterTests
  BY <1>1, <1>2 DEF StopAfterTests, Open, tree
<1>3. CASE Interrupt
  BY <1>1, <1>3 DEF Interrupt, Open, tree
<1>4. CASE WriteFails /\ closes < MaxCloses
  BY <1>1, <1>4 DEF WriteFails, tree
<1> QED BY <1>2, <1>3, <1>4 DEF Begins

\* Close goes from suite to suite.
LEMMA NextClosing ==
    ASSUME ClosingInv, SubsInv, LoadInv, [Next]_vars PROVE ClosingInv'
<1>1. CASE UNCHANGED vars
  BY <1>1 DEF ClosingInv, vars, tests, tree, output
<1>2. CASE \/ \E t \in Test : TestNext(t)
           \/ LoadTests
           \/ \E s \in Suite : NewSuiteReport(s)
  BY <1>2, TestsKeepClose, TestsGrow DEF ClosingInv
<1>3. CASE CloseOnly
  <2>1. suites' = suites /\ subs' = subs /\ suites \subseteq Suite /\ subs \subseteq Test
    BY <1>3, CloseKeepsTests DEF LoadInv, SubsInv
  <2>2. closes \in 0..MaxCloses /\ MaxCloses \in Nat \ {0}
    BY ReportAssumption DEF ClosingInv
  <2>3. CASE Begins
    <3>1. StartClose /\ closes < MaxCloses
      BY <2>3, BeginsEffect
    <3>2. closes' \in 1..MaxCloses
      BY <2>2, <3>1, <2>1, StartEffect
    <3> QED BY <3>1, <3>2, <2>1, <2>2, StartEffect DEF ClosingInv
  <2>4. ASSUME NEW s \in Suite, Summarize(s) PROVE ClosingInv'
    <3>1. \A t \in SubSuites(s) : SuiteOf[t] = s
      BY DEF SubSuites
    <3> QED BY <3>1, <2>1, <2>4, SummarizeEffect DEF ClosingInv
  <2>5. ASSUME NEW t \in Test, AddSub(t) PROVE ClosingInv'
    BY <2>1, <2>5, AddSubEffect DEF ClosingInv
  <2>6. CASE AddSuite
    BY <2>1, <2>6, AddSuiteEffect DEF ClosingInv
  <2>7. CASE Ends
    BY <2>1, <2>7, EndEffect DEF ClosingInv, Ends
  <2> QED BY <1>3, <2>3, <2>4, <2>5, <2>6, <2>7, CloseSplit
<1> QED BY <1>1, <1>2, <1>3, NextSplit

\* A test that takes a step is not over, and all suites are there.
LEMMA TestRuns ==
    ASSUME LoadInv, NEW t \in Test, TestNext(t)
    PROVE  suites = Suite /\ loaded /\ pc[t] # "over" /\ UNCHANGED <<loaded, suites>>
<1>1. pc[t] # "over" /\ (pc[t] # "waiting" \/ suites = Suite)
  BY DEF TestNext, At, LoadTestSteps, NewTestReporter, RunStep, RunReturns, DoneTest,
         DoneStep, Done, Cleanup
<1>2. suites = Suite /\ SuiteOf[t] \in Suite
  BY <1>1, ReportAssumption DEF LoadInv
<1>3. loaded
  BY <1>2 DEF LoadInv
<1>4. UNCHANGED <<loaded, suites>>
  <2>1. CASE LoadTestSteps(t) \/ NewTestReporter(t) \/ RunStep(t) \/ RunReturns(t)
    BY <2>1 DEF LoadTestSteps, NewTestReporter, RunStep, RunReturns
  <2>2. CASE DoneTest(t) \/ DoneStep(t) \/ Done(t) \/ Cleanup(t)
    BY <2>2 DEF DoneTest, DoneStep, Done, Cleanup
  <2> QED BY <2>1, <2>2 DEF TestNext
<1> QED BY <1>1, <1>2, <1>3, <1>4

\* Without an interrupt nothing is done to the tree behind the back of Close.
LEMMA Frozen ==
    ASSUME LoadInv, NEW t \in Test, TestNext(t)
    PROVE  closing.phase = "open" \/ interrupted
BY TestRuns DEF LoadInv

\* Nothing is loaded once Close has begun without an interrupt.
LEMMA NextLoad ==
    ASSUME TestsInv, ClosingInv, LoadInv, [Next]_vars PROVE LoadInv'
<1>1. CASE UNCHANGED vars
  BY <1>1 DEF LoadInv, vars, tests, tree, output
<1>2. ASSUME NEW t \in Test, TestNext(t) PROVE LoadInv'
  <2>1. UNCHANGED <<closing, interrupted>>
    BY <1>2, TestsKeepClose
  <2>2. closing.phase = "open" \/ interrupted
    BY <1>2, Frozen
  <2> QED BY <1>2, <2>1, <2>2, TestRuns DEF LoadInv
<1>3. CASE LoadTests
  <2>1. UNCHANGED <<suites, pc, closing, interrupted>> /\ loaded'
    BY <1>3 DEF LoadTests, output
  <2>2. closing.phase = "open" \/ interrupted
    BY <1>3 DEF LoadTests, Open
  <2> QED BY <2>1, <2>2 DEF LoadInv
<1>4. ASSUME NEW s \in Suite, NewSuiteReport(s) PROVE LoadInv'
  <2>1. UNCHANGED <<loaded, pc, closing, interrupted>> /\ suites' = suites \cup {s} /\ loaded
        /\ s \notin suites
    BY <1>4 DEF NewSuiteReport, output
  <2>2. \A t \in Test : pc[t] = "waiting"
    BY <2>1 DEF LoadInv
  <2> QED BY <2>1, <2>2 DEF LoadInv
<1>5. CASE CloseOnly
  <2>1. UNCHANGED <<loaded, suites, pc>>
    BY <1>5, CloseKeepsTests
  <2>2. CASE StopAfterTests
    <3>1. interrupted' = interrupted
      BY <2>2 DEF StopAfterTests
    <3> QED BY <2>1, <2>2, <3>1 DEF StopAfterTests, LoadInv
  <2>3. CASE Interrupt
    BY <2>1, <2>3 DEF Interrupt, LoadInv
  <2>4. ASSUME closing.phase # "open", interrupted' = interrupted PROVE LoadInv'
    BY <2>1, <2>4 DEF LoadInv
  <2>5. CASE AddSuite \/ Closed \/ Write \/ WriteFails \/ (\E s \in Suite : Summarize(s))
             \/ (\E t \in Test : AddSub(t))
    BY <2>4, <2>5 DEF AddSuite, Closed, Write, WriteFails, Summarize, AddSub
  <2> QED BY <1>5, <2>2, <2>3, <2>5 DEF CloseOnly
<1> QED BY <1>1, <1>2, <1>3, <1>4, <1>5, NextSplit

\* Sub suites are made before they are used.
LEMMA NextSubs ==
    ASSUME TestsInv, SubsInv, [Next]_vars PROVE SubsInv'
<1>1. CASE UNCHANGED vars
  BY <1>1 DEF SubsInv, vars, tests, tree
<1>2. CASE CloseOnly \/ LoadTests \/ \E s \in Suite : NewSuiteReport(s)
  <2>1. UNCHANGED <<granularity, pc, subs, cases>>
    BY <1>2, CloseKeepsTests DEF LoadTests, NewSuiteReport, tree
  <2> QED BY <2>1 DEF SubsInv
<1>3. ASSUME NEW t \in Test, TestNext(t) PROVE SubsInv'
  <2>0. pc \in [Test -> States]
    BY DEF TestsInv, Shape
  <2>1. CASE NewTestReporter(t)
    BY <2>0, <2>1 DEF NewTestReporter, SubsInv
  <2>2. CASE LoadTestSteps(t) \/ RunStep(t) \/ RunReturns(t) \/ Done(t) \/ Cleanup(t)
    <3>1. UNCHANGED <<granularity, subs, cases>>
      BY <2>2 DEF LoadTestSteps, RunStep, RunReturns, Done, Cleanup, tree
    <3>2. \A u \in Test : pc'[u] \in {"running", "done"} => pc[u] \in {"running", "done"}
      BY <2>0, <2>2 DEF At, LoadTestSteps, RunStep, RunReturns, Done, Cleanup
    <3> QED BY <3>1, <3>2 DEF SubsInv
  <2>3. CASE DoneTest(t)
    BY <2>3 DEF DoneTest, SubsInv
  <2>4. CASE DoneStep(t)
    <3>1. t \in subs
      BY <2>4 DEF DoneStep, At, SubsInv
    <3> QED BY <2>4, <3>1 DEF DoneStep, SubsInv
  <2> QED BY <1>3, <2>1, <2>2, <2>3, <2>4 DEF TestNext
<1> QED BY <1>1, <1>2, <1>3, NextSplit

\* Every addition to the tree since Close began is noticed.
LEMMA Noticed ==
    ASSUME SubsInv,
           \/ \E t \in Test : TestNext(t)
           \/ LoadTests
           \/ \E s \in Suite : NewSuiteReport(s)
    PROVE  \/ Added
           \/ UNCHANGED <<suites, subs, cases, sub, count, raced>>
<1>1. CASE LoadTests \/ \E s \in Suite : NewSuiteReport(s)
  BY <1>1 DEF LoadTests, NewSuiteReport, tree
<1>2. ASSUME NEW t \in Test, TestNext(t)
      PROVE  Added \/ UNCHANGED <<suites, subs, cases, sub, count, raced>>
  <2>1. CASE LoadTestSteps(t) \/ NewTestReporter(t) \/ RunStep(t) \/ RunReturns(t)
    BY <2>1 DEF LoadTestSteps, NewTestReporter, RunStep, RunReturns, tree
  <2>2. CASE DoneTest(t) \/ DoneStep(t) \/ Done(t) \/ Cleanup(t)
    BY <2>2 DEF DoneTest, DoneStep, Done, Cleanup, tree
  <2> QED BY <1>2, <2>1, <2>2 DEF TestNext
<1> QED BY <1>1, <1>2

\* What is added while Close is open or an interrupt is at work is no race
\* without being noticed.
LEMMA AddsLate ==
    ASSUME LoadInv,
           \/ \E t \in Test : TestNext(t)
           \/ LoadTests
           \/ \E s \in Suite : NewSuiteReport(s)
    PROVE  \/ closing.phase = "open" \/ interrupted
           \/ UNCHANGED <<suites, subs, cases, sub, count, raced>>
<1>1. CASE LoadTests
  BY <1>1 DEF LoadTests, tree
<1>2. ASSUME NEW s \in Suite, NewSuiteReport(s) PROVE closing.phase = "open" \/ interrupted
  BY <1>2 DEF NewSuiteReport, LoadInv
<1> QED BY <1>1, <1>2, Frozen

\* Nothing is found twice unless something was added.
LEMMA NextRaced ==
    ASSUME ClosingInv, LoadInv, SubsInv, RacedInv, [Next]_vars PROVE RacedInv'
<1>1. CASE UNCHANGED vars
  BY <1>1 DEF RacedInv, SubSuites, vars, tests, tree, output
<1>2. CASE \/ \E t \in Test : TestNext(t)
           \/ LoadTests
           \/ \E s \in Suite : NewSuiteReport(s)
  <2>1. UNCHANGED <<closing, lists, begun, interrupted>>
    BY <1>2, TestsKeepClose
  <2>2. CASE UNCHANGED <<suites, subs, cases, sub, count, raced>>
    BY <2>1, <2>2 DEF RacedInv, SubSuites
  <2>3. CASE Added
    <3>1. closing.phase = "open" \/ interrupted
          \/ UNCHANGED <<suites, subs, cases, sub, count, raced>>
      BY <1>2, AddsLate
    <3>2. CASE closing.phase = "open"
      BY <2>1, <2>3, <3>2 DEF RacedInv, Added
    <3>3. CASE closing.phase # "open" /\ interrupted
      BY <2>1, <2>3, <3>3 DEF RacedInv, Added
    <3> QED BY <2>2, <3>1, <3>2, <3>3
  <2> QED BY <1>2, <2>2, <2>3, Noticed
<1>3. CASE CloseOnly
  <2>1. UNCHANGED <<suites, subs, cases, sub, raced>> /\ suites \subseteq Suite
    BY <1>3, CloseKeepsTests DEF LoadInv
  <2>2. \A s : SubSuites(s)' = SubSuites(s)
    BY <2>1 DEF SubSuites
  <2>3. CASE Begins
    <3>1. /\ StartClose /\ closes \in Nat
          /\ ~interrupted' => ~interrupted
      BY <2>3, BeginsEffect
    <3>2. closing'.phase = "suites" /\ lists'.suites = suites
      BY <2>1, <3>1, StartEffect
    <3> QED BY <2>1, <3>1, <3>2 DEF RacedInv
  <2>4. ASSUME NEW s \in Suite, Summarize(s) PROVE RacedInv'
    <3>1. PICK x \in closing.left :
            /\ s \in suites /\ (lists.suites = suites => s = x)
            /\ closing.phase = "suites" /\ closing'.phase = "subs"
            /\ closing'.left = closing.left \ {x} /\ closing'.suite = {s}
            /\ lists'.suites = lists.suites /\ lists'.subs = SubSuites(s)
            /\ UNCHANGED <<raced, interrupted>>
      BY <2>4, SummarizeEffect
    <3> QED BY <2>1, <2>2, <3>1 DEF RacedInv
  <2>5. ASSUME NEW t \in Test, AddSub(t) PROVE RacedInv'
    <3>1. /\ closing.phase = "subs" /\ closing'.phase = "subs"
          /\ closing'.left = closing.left /\ closing'.suite = closing.suite
          /\ UNCHANGED <<lists, raced, interrupted>>
      BY <2>5, AddSubEffect
    <3> QED BY <2>1, <2>2, <3>1 DEF RacedInv
  <2>6. CASE AddSuite
    BY <2>1, <2>6, AddSuiteEffect DEF RacedInv
  <2>7. CASE Ends
    <3>1. /\ closing.phase \in {"suites", "write"}
          /\ closing'.phase \in {"write", "written", "failed"}
          /\ UNCHANGED <<lists, count, raced, interrupted>>
      BY <2>7, EndEffect DEF Ends
    <3>2. CASE Closed
      <4>1. begun' = [suites |-> suites, subs |-> subs, cases |-> cases, sub |-> sub,
                      count |-> count]
        BY <3>2 DEF Closed
      <4> QED BY <2>1, <3>1, <4>1 DEF RacedInv
    <3>3. CASE Write \/ (WriteFails /\ ~(closes < MaxCloses))
      <4>1. begun' = begun /\ closing.phase = "write"
        BY <3>3 DEF Write, WriteFails
      <4> QED BY <2>1, <3>1, <4>1 DEF RacedInv
    <3> QED BY <2>7, <3>2, <3>3 DEF Ends
  <2> QED BY <1>3, <2>3, <2>4, <2>5, <2>6, <2>7, CloseSplit
<1> QED BY <1>1, <1>2, <1>3, NextSplit

\* Test cases are added only.
LEMMA CasesGrow == ASSUME Next PROVE cases \subseteq cases' \/ UNCHANGED vars
<1>1. ASSUME NEW t \in Test, TestNext(t) PROVE cases \subseteq cases'
  <2>1. CASE LoadTestSteps(t) \/ NewTestReporter(t) \/ RunStep(t) \/ RunReturns(t)
    BY <2>1 DEF LoadTestSteps, NewTestReporter, RunStep, RunReturns, tree
  <2>2. CASE DoneTest(t) \/ DoneStep(t) \/ Done(t) \/ Cleanup(t)
    BY <2>2 DEF DoneTest, DoneStep, Done, Cleanup, tree
  <2> QED BY <1>1, <2>1, <2>2 DEF TestNext
<1>2. CASE LoadTests \/ \E s \in Suite : NewSuiteReport(s)
  BY <1>2 DEF LoadTests, NewSuiteReport, tree
<1> QED BY <1>1, <1>2, CloseKeepsTests, NextSplit

\* Numbers that do not change while they are read are read as they are.
LEMMA ReadingsSame ==
    ASSUME NEW D, NEW g \in [D -> [tests : Nat, failures : Nat]], NEW h \in Readings(g, g)
    PROVE  h = g
<1>1. DOMAIN g = D
  OBVIOUS
<1>2. /\ h \in [D -> UNION {Between(g[x], g[x]) : x \in D}]
      /\ \A x \in D : h[x] \in Between(g[x], g[x])
  BY <1>1 DEF Readings
<1>3. ASSUME NEW x \in D PROVE h[x] = g[x]
  <2>1. h[x] \in Between(g[x], g[x])
    BY <1>2
  <2>2. g[x] \in [tests : Nat, failures : Nat]
    OBVIOUS
  <2> QED BY <2>1, <2>2 DEF Between
<1> QED BY <1>2, <1>3

\* What Write has written is in the tree; only what is beside an addition can
\* be missing.
LEMMA NextFile ==
    ASSUME ClosingInv, LoadInv, SubsInv, RacedInv, NumbersInv, FileInv, [Next]_vars
    PROVE  FileInv'
<1>1. CASE UNCHANGED vars
  <2>1. UNCHANGED <<granularity, suites, subs, cases, sub, count, total, raced, closing, begun,
                    file>>
    BY <1>1 DEF vars, tests, tree, output
  <2>2. \A t : Fixed(t)' <=> Fixed(t)
    BY <2>1 DEF Fixed, SubSuites, Beside
  <2> QED BY <2>1, <2>2 DEF FileInv, Written
<1>2. CASE \/ \E t \in Test : TestNext(t)
           \/ LoadTests
           \/ \E s \in Suite : NewSuiteReport(s)
  <2>1. Alive /\ UNCHANGED <<closing, begun, file>>
    BY <1>2, TestsKeepClose
  <2>2. suites \subseteq suites' /\ subs \subseteq subs'
    BY <1>2, TestsGrow
  <2>3. cases \subseteq cases'
    <3>1. Next
      BY <1>2 DEF Next
    <3> QED BY <3>1, CasesGrow DEF vars, tree
  <2> QED BY <2>1, <2>2, <2>3 DEF FileInv, Written, Alive
<1>3. CASE CloseOnly
  <2>1. UNCHANGED <<granularity, suites, subs, cases, sub, raced>>
    BY <1>3, CloseKeepsTests
  <2>2. CASE Begins
    <3>1. StartClose /\ file' = file /\ closes \in Nat
      BY <2>2, BeginsEffect
    <3>2. closing'.phase = "suites" /\ begun' = Nothing
      BY <3>1, StartEffect DEF LoadInv
    <3> QED BY <2>1, <3>1, <3>2 DEF FileInv, Written, Nothing
  <2>3. ASSUME NEW s \in Suite, Summarize(s) PROVE FileInv'
    <3>1. closing'.phase = "subs" /\ UNCHANGED <<begun, file>>
      BY <2>3, SummarizeEffect
    <3> QED BY <2>1, <3>1 DEF FileInv, Written
  <2>4. ASSUME NEW t \in Test, AddSub(t) PROVE FileInv'
    <3>1. closing'.phase = "subs" /\ UNCHANGED <<begun, file>>
      BY <2>4, AddSubEffect
    <3> QED BY <2>1, <3>1 DEF FileInv, Written
  <2>5. CASE AddSuite
    BY <2>1, <2>5, AddSuiteEffect DEF FileInv, Written
  <2>6. CASE Closed
    <3>1. file' = file /\ "write" \in Phases /\ closing' = [closing EXCEPT !.phase = "write"]
          /\ begun' = [suites |-> suites, subs |-> subs, cases |-> cases, sub |-> sub,
                       count |-> count]
      BY <2>6 DEF Closed, Phases
    <3>2. closing'.phase = "write"
      BY <3>1, PhaseEffect
    <3> QED BY <2>1, <3>1, <3>2 DEF FileInv, Written
  <2>7. CASE WriteFails /\ ~(closes < MaxCloses)
    <3>1. UNCHANGED <<begun, file>> /\ "failed" \in Phases
          /\ closing' = [closing EXCEPT !.phase = "failed"]
      BY <2>7 DEF WriteFails, Phases
    <3>2. closing'.phase = "failed"
      BY <3>1, PhaseEffect
    <3> QED BY <2>1, <3>1, <3>2 DEF FileInv, Written
  <2>8. CASE Write
    <3>1. PICK missed \in SUBSET {c \in cases : ~Fixed(c.test)},
               n \in Readings(begun.sub, sub), m \in Readings(begun.count, count) :
             file' = [cases |-> cases \ missed, sub |-> n, count |-> m, total |-> total]
      BY <2>8 DEF Write
    <3>2. closing.phase = "write" /\ UNCHANGED <<begun, count, total>>
      BY <2>8 DEF Write, tree
    <3>3. \A t : Fixed(t)' <=> Fixed(t)
      BY <2>1, <3>2 DEF Fixed, SubSuites, Beside
    <3>4. \A c \in cases : Fixed(c.test) => c \in cases \ missed
      OBVIOUS
    <3>5. file'.cases = cases \ missed
      BY <3>1
    <3>6. ASSUME ~raced
          PROVE  file' = [cases |-> cases, sub |-> sub, count |-> count, total |-> total]
      <4>1. /\ begun.suites = suites /\ begun.subs = subs /\ begun.cases = cases
            /\ begun.sub = sub /\ begun.count = count
        BY <3>2, <3>6 DEF RacedInv
      <4>2. \A t : Fixed(t)
        BY <4>1 DEF Fixed, SubSuites, Beside
      <4>3. cases \ missed = cases
        BY <4>2
      <4>4. n = sub /\ m = count
        BY <4>1, ReadingsSame DEF NumbersInv, Number
      <4> QED BY <3>1, <4>3, <4>4
    <3>7. /\ file'.cases \subseteq cases'
          /\ \A c \in cases' : Fixed(c.test)' => c \in file'.cases
          /\ ~raced' => file' = [cases |-> cases', sub |-> sub', count |-> count',
                                 total |-> total']
      BY <2>1, <3>2, <3>3, <3>4, <3>5, <3>6
    <3> QED BY <2>1, <3>2, <3>7 DEF FileInv
  <2> QED BY <1>3, <2>2, <2>3, <2>4, <2>5, <2>6, <2>7, <2>8, CloseSplit DEF Ends
<1> QED BY <1>1, <1>2, <1>3, NextSplit

-----------------------------------------------------------------------------
(* Numbers of sets of test cases.                                          *)

\* The numbers of a finite set are numbers.
LEMMA FailedFinite ==
    ASSUME NEW C, IsFiniteSet(C)
    PROVE  IsFiniteSet(Failed(C)) /\ Num(C) \in Number
<1>1. Failed(C) \in SUBSET C
  BY DEF Failed
<1>2. IsFiniteSet(Failed(C))
  BY <1>1, FS_Subset
<1>3. Cardinality(C) \in Nat /\ Cardinality(Failed(C)) \in Nat
  BY <1>2, FS_CardinalityType
<1> QED BY <1>2, <1>3 DEF Num, Number

\* Sets without a common test case add up.
LEMMA NumUnion ==
    ASSUME NEW B, NEW C, IsFiniteSet(B), IsFiniteSet(C), B \cap C = {}
    PROVE  Num(B \cup C) = Plus(Num(B), Num(C))
<1>1. Failed(B \cup C) = Failed(B) \cup Failed(C) /\ Failed(B) \cap Failed(C) = {}
  BY DEF Failed
<1>2. IsFiniteSet(Failed(B)) /\ IsFiniteSet(Failed(C))
  BY FailedFinite
<1>3. Cardinality(B \cap C) = 0 /\ Cardinality(Failed(B) \cap Failed(C)) = 0
  BY <1>1, FS_EmptySet
<1>4. Cardinality(B \cup C) = Cardinality(B) + Cardinality(C) - Cardinality(B \cap C)
  BY FS_Union
<1>5. Cardinality(Failed(B) \cup Failed(C)) = Cardinality(Failed(B)) + Cardinality(Failed(C))
                                              - Cardinality(Failed(B) \cap Failed(C))
  BY <1>2, FS_Union
<1>6. Cardinality(B) \in Nat /\ Cardinality(C) \in Nat /\ Cardinality(Failed(B)) \in Nat
      /\ Cardinality(Failed(C)) \in Nat
  BY <1>2, FS_CardinalityType
<1>7. Cardinality(B \cup C) = Cardinality(B) + Cardinality(C)
  BY <1>3, <1>4, <1>6
<1>8. Cardinality(Failed(B) \cup Failed(C)) = Cardinality(Failed(B)) + Cardinality(Failed(C))
  BY <1>3, <1>5, <1>6
<1> QED BY <1>1, <1>7, <1>8 DEF Num, Plus

\* One test case more, and none.
LEMMA NumOne ==
    ASSUME NEW c, c.failed \in BOOLEAN
    PROVE  Num({c}) = One(c.failed) /\ IsFiniteSet({c})
<1>1. IsFiniteSet({c}) /\ Cardinality({c}) = 1 /\ Cardinality({}) = 0
  BY FS_Singleton, FS_EmptySet
<1>2. CASE c.failed
  <2>1. Failed({c}) = {c}
    BY <1>2 DEF Failed
  <2> QED BY <1>1, <1>2, <2>1 DEF Num, One
<1>3. CASE ~c.failed
  <2>1. Failed({c}) = {}
    BY <1>3 DEF Failed
  <2> QED BY <1>1, <1>3, <2>1 DEF Num, One
<1> QED BY <1>2, <1>3

LEMMA NumAdd ==
    ASSUME NEW C, IsFiniteSet(C), NEW c, c.failed \in BOOLEAN, c \notin C
    PROVE  Num(C \cup {c}) = Plus(Num(C), One(c.failed))
<1>1. C \cap {c} = {} /\ IsFiniteSet({c}) /\ Num({c}) = One(c.failed)
  BY NumOne
<1>2. Num(C \cup {c}) = Plus(Num(C), Num({c}))
  BY <1>1, NumUnion
<1> QED BY <1>1, <1>2

LEMMA NumEmpty == Num({}) = Zero
<1>1. Failed({}) = {} /\ Cardinality({}) = 0
  BY FS_EmptySet DEF Failed
<1> QED BY <1>1 DEF Num, Zero

LEMMA PlusType ==
    ASSUME NEW a \in Number, NEW b \in Number
    PROVE  Plus(a, b) \in Number
BY DEF Plus, Number

LEMMA OneType == ASSUME NEW failed PROVE One(failed) \in Number
BY DEF One, Number

-----------------------------------------------------------------------------
(* The numbers of the report.                                              *)

\* Nothing is counted at first.
LEMMA InitNumbers == Init => NumbersInv
<1> SUFFICES ASSUME Init PROVE NumbersInv
  OBVIOUS
<1>1. Zero \in Number /\ IsFiniteSet({}) /\ Zero.tests = 0
  BY FS_EmptySet DEF Zero, Number
<1>2. cases = {} /\ sub = [t \in Test |-> Zero] /\ count = [s \in Suite |-> Zero]
      /\ total = Zero /\ closing.phase = "open" /\ given = [t \in Test |-> 0]
  BY DEF Init, Open
<1>3. \A t : Of(t) = {}
  BY <1>2 DEF Of
<1>4. \A s : Counted(s) = {}
  BY <1>2 DEF Counted
<1>5. {c \in cases : SuiteOf[c.test] \in Summed} = {}
  BY <1>2
<1> QED BY <1>1, <1>2, <1>3, <1>4, <1>5, NumEmpty DEF NumbersInv

\* The sets that are counted are finite.
LEMMA Finite ==
    ASSUME NumbersInv, NEW C \in SUBSET cases
    PROVE  IsFiniteSet(C) /\ Num(C) \in Number
BY FS_Subset, FailedFinite DEF NumbersInv

LEMMA Subsets == ASSUME NEW s, NEW t
                 PROVE  /\ Of(t) \in SUBSET cases /\ Counted(s) \in SUBSET cases
                        /\ {c \in cases : SuiteOf[c.test] \in Summed} \in SUBSET cases
BY DEF Of, Counted

\* Some actions change none of what the numbers are about.
LEMMA NumbersQuiet ==
    ASSUME NumbersInv, UNCHANGED <<granularity, cases, given, sub, count, total, closes,
                                   closing, suites>>,
           raced => raced'
    PROVE  NumbersInv'
<1>1. /\ Summed' = Summed
      /\ \A s : Counted(s)' = Counted(s)
      /\ \A t : Of(t)' = Of(t)
  BY DEF Counted, Pending, Summed, Of
<1> QED BY <1>1 DEF NumbersInv

\* What has to be shown when something is added to the tree: if Close has
\* begun, its numbers are not those of the test cases any more.
LEMMA NumbersLater ==
    ASSUME NumbersInv, UNCHANGED <<granularity, total, closes, closing>>, Added,
           IsFiniteSet(cases'), sub' \in [Test -> Number], count' \in [Suite -> Number],
           granularity = "test" => \A t \in Test : sub'[t] = Zero,
           granularity = "step" => \A t \in Test : /\ sub'[t] = Num(Of(t)')
                                                   /\ sub'[t].tests = given'[t],
           closing.phase = "open" => \A s \in Suite : count[s] = Num(Counted(s))
                                                        => count'[s] = Num(Counted(s)')
    PROVE  NumbersInv'
<1>1. ASSUME ~raced' PROVE closing.phase = "open" /\ ~raced
  BY <1>1 DEF Added
<1>2. closing.phase = "open" => /\ {c \in cases : SuiteOf[c.test] \in Summed} = {}
                              /\ {c \in cases' : SuiteOf[c.test] \in Summed'} = {}
  BY DEF Summed
<1>3. ASSUME closes <= 1, ~raced'
      PROVE  /\ \A s \in Suite : count'[s] = Num(Counted(s)')
             /\ total = Num({c \in cases' : SuiteOf[c.test] \in Summed'})
  <2>1. /\ \A s \in Suite : count[s] = Num(Counted(s))
        /\ total = Num({c \in cases : SuiteOf[c.test] \in Summed})
    BY <1>1, <1>3 DEF NumbersInv
  <2>2. \A s \in Suite : count'[s] = Num(Counted(s)')
    BY <1>1, <1>3, <2>1
  <2>3. Num({c \in cases : SuiteOf[c.test] \in Summed})
          = Num({c \in cases' : SuiteOf[c.test] \in Summed'})
    BY <1>1, <1>2, <1>3, Zenon
  <2> QED BY <2>1, <2>2, <2>3
<1>4. total' \in Number
  BY DEF NumbersInv
<1> QED BY <1>3, <1>4 DEF NumbersInv

\* A test case is that of a test in Done or after it.
LEMMA CaseIsLate ==
    ASSUME TestsInv, NEW c \in cases
    PROVE  c.test \in Test /\ given[c.test] > 0 /\ c.step < given[c.test]
           /\ pc[c.test] \notin {"waiting", "loaded", "running"}
<1>1. c.test \in Test /\ c.step \in Nat /\ CaseInv(c) /\ TestInv(c.test) /\ given[c.test] \in Nat
  BY CaseTypes, Types DEF TestsInv
<1> QED BY <1>1 DEF CaseInv, TestInv

\* A new test case for the test: its suite counts it at once.
LEMMA DoneTestNumbers ==
    ASSUME TestsInv, LoadInv, SubsInv, NumbersInv, NEW t \in Test, DoneTest(t)
    PROVE  NumbersInv'
<1>1. UNCHANGED <<granularity, total, closes, closing, suites, sub>> /\ Added
      /\ granularity = "test" /\ given[t] = 0
  BY DEF DoneTest, output
<1>3. PICK c0 : c0 = [test |-> t, step |-> 0, failed |-> Failure(t)]
  OBVIOUS
<1>4. c0.test = t /\ cases' = cases \cup {c0} /\ c0 \notin cases
  BY <1>1, <1>3, CaseIsLate DEF DoneTest
<1>5. c0.failed \in BOOLEAN
  BY <1>3, Zenon DEF Failure, AnyFailed
<1>6. IsFiniteSet(cases) /\ IsFiniteSet(cases')
  BY <1>4, FS_AddElement DEF NumbersInv
<1> DEFINE s0 == SuiteOf[t]
<1>7. s0 \in Suite /\ count \in [Suite -> Number]
  BY ReportAssumption DEF NumbersInv
<1>8. count' = [count EXCEPT ![s0] = Plus(@, One(c0.failed))]
  BY <1>3 DEF DoneTest
<1>9. One(c0.failed) \in Number
  BY OneType
<1> HIDE DEF s0
<1>10. count' \in [Suite -> Number]
  <2>1. Plus(count[s0], One(c0.failed)) \in Number
    BY <1>7, <1>9, PlusType
  <2> QED BY <1>7, <1>8, <2>1
<1>11. /\ Counted(s0)' = Counted(s0) \cup {c0} /\ c0 \notin Counted(s0)
       /\ \A s \in Suite \ {s0} : Counted(s)' = Counted(s)
  BY <1>1, <1>4 DEF Counted, s0
<1>12. Num(Counted(s0)') = Plus(Num(Counted(s0)), One(c0.failed))
       /\ Num(Counted(s0)) \in Number
  BY <1>5, <1>11, Finite, Subsets, NumAdd
<1>14. \A s \in Suite : count[s] = Num(Counted(s)) => count'[s] = Num(Counted(s)')
  <2>1. count'[s0] = Plus(count[s0], One(c0.failed))
        /\ \A s \in Suite \ {s0} : count'[s] = count[s]
    BY <1>7, <1>8
  <2>2. \A s \in Suite \ {s0} : Num(Counted(s)') = Num(Counted(s))
    BY <1>11
  <2> QED BY <1>12, <2>1, <2>2
<1>15. sub' \in [Test -> Number] /\ \A u \in Test : sub'[u] = Zero
  BY <1>1 DEF NumbersInv
<1> QED BY <1>1, <1>6, <1>10, <1>14, <1>15, NumbersLater

\* A new test case for a step: its sub suite counts it, its suite not before
\* Close.
LEMMA DoneStepNumbers ==
    ASSUME TestsInv, LoadInv, SubsInv, NumbersInv, NEW t \in Test, DoneStep(t)
    PROVE  NumbersInv'
<1>1. UNCHANGED <<granularity, total, closes, closing, suites, count>> /\ Added
      /\ granularity = "step" /\ given[t] < Len(steps[t])
  BY DEF DoneStep, output
<1>3. PICK c0 : c0 = [test |-> t, step |-> given[t], failed |-> steps[t][given[t] + 1]]
  OBVIOUS
<1>4. c0.test = t /\ c0.step = given[t] /\ cases' = cases \cup {c0}
  BY <1>3 DEF DoneStep
<1>5. c0 \notin cases
  <2>1. given[t] \in Nat
    BY Types DEF TestsInv
  <2>2. ASSUME c0 \in cases PROVE FALSE
    <3>1. c0.step < given[c0.test]
      BY <2>2, CaseIsLate
    <3> QED BY <2>1, <3>1, <1>4
  <2> QED BY <2>2
<1>6. c0.failed \in BOOLEAN /\ given[t] \in Nat /\ given' = [given EXCEPT ![t] = given[t] + 1]
      /\ given \in [Test -> Nat]
  BY <1>1, <1>3, Types DEF TestsInv, DoneStep, Shape
<1>7. IsFiniteSet(cases) /\ IsFiniteSet(cases')
  BY <1>4, FS_AddElement DEF NumbersInv
<1>8. sub' = [sub EXCEPT ![t] = Plus(@, One(c0.failed))] /\ sub \in [Test -> Number]
      /\ sub[t] = Num(Of(t)) /\ sub[t].tests = given[t]
  BY <1>1, <1>3 DEF DoneStep, NumbersInv
<1>9. One(c0.failed) \in Number /\ One(c0.failed).tests = 1
  BY OneType DEF One
<1>10. sub' \in [Test -> Number] /\ sub'[t] = Plus(sub[t], One(c0.failed))
       /\ \A u \in Test \ {t} : sub'[u] = sub[u]
  <2>1. Plus(sub[t], One(c0.failed)) \in Number
    BY <1>8, <1>9, PlusType
  <2> QED BY <1>8, <2>1
<1>11. /\ Of(t)' = Of(t) \cup {c0} /\ c0 \notin Of(t)
       /\ \A u \in Test \ {t} : Of(u)' = Of(u)
  BY <1>4, <1>5 DEF Of
<1>12. Num(Of(t)') = Plus(Num(Of(t)), One(c0.failed))
  BY <1>6, <1>11, Finite, Subsets, NumAdd
<1>13. \A u \in Test : sub'[u] = Num(Of(u)') /\ sub'[u].tests = given'[u]
  <2>1. sub'[t] = Num(Of(t)') /\ sub'[t].tests = given'[t]
    BY <1>6, <1>8, <1>9, <1>10, <1>12 DEF Plus
  <2>2. ASSUME NEW u \in Test \ {t}
        PROVE  sub'[u] = Num(Of(u)') /\ sub'[u].tests = given'[u]
    <3>1. sub[u] = Num(Of(u)) /\ sub[u].tests = given[u]
      BY <1>1 DEF NumbersInv
    <3>2. Num(Of(u)') = Num(Of(u)) /\ given'[u] = given[u]
      BY <1>6, <1>11
    <3> QED BY <1>10, <3>1, <3>2
  <2> QED BY <2>1, <2>2
<1>15. ASSUME closing.phase = "open", NEW s \in Suite, count[s] = Num(Counted(s))
       PROVE  count'[s] = Num(Counted(s)')
  <2>1. Counted(s)' = {} /\ Counted(s) = {}
    BY <1>1, <1>15 DEF Counted
  <2> QED BY <1>1, <1>15, <2>1
<1>17. count' \in [Suite -> Number]
  BY <1>1 DEF NumbersInv
<1> QED BY <1>1, <1>7, <1>10, <1>13, <1>15, <1>17, NumbersLater

\* Every other step of a test leaves the numbers alone.
LEMMA TestNumbers ==
    ASSUME TestsInv, LoadInv, SubsInv, NumbersInv, NEW t \in Test, TestNext(t)
    PROVE  NumbersInv'
<1>1. CASE LoadTestSteps(t) \/ NewTestReporter(t) \/ RunStep(t) \/ RunReturns(t)
  <2>1. /\ UNCHANGED <<granularity, cases, given, sub, count, total, closes, closing, suites>>
        /\ raced' = raced \/ raced' = (raced \/ closing.phase # "open")
    BY <1>1 DEF LoadTestSteps, NewTestReporter, RunStep, RunReturns, Added, tree, output
  <2>2. raced => raced'
    BY <2>1
  <2> QED BY <2>1, <2>2, NumbersQuiet
<1>2. CASE Done(t) \/ Cleanup(t)
  BY <1>2, NumbersQuiet DEF Done, Cleanup, tree, output
<1> QED BY <1>1, <1>2, DoneTestNumbers, DoneStepNumbers DEF TestNext

\* A new suite has no test cases.
LEMMA SuiteNumbers ==
    ASSUME LoadInv, SubsInv, NumbersInv, NEW s \in Suite, NewSuiteReport(s)
    PROVE  NumbersInv'
<1>1. UNCHANGED <<granularity, total, closes, closing, cases, sub, count, given>> /\ Added
  BY DEF NewSuiteReport, output
<1>3. \A r : Counted(r)' = Counted(r)
  BY <1>1 DEF Counted, Pending
<1>4. \A t : Of(t)' = Of(t)
  BY <1>1 DEF Of
<1>6. /\ granularity = "test" => \A t \in Test : sub'[t] = Zero
      /\ granularity = "step" => \A t \in Test : sub'[t] = Num(Of(t)') /\ sub'[t].tests = given'[t]
  BY <1>1, <1>4 DEF NumbersInv
<1>7. IsFiniteSet(cases') /\ sub' \in [Test -> Number] /\ count' \in [Suite -> Number]
  BY <1>1 DEF NumbersInv
<1> QED BY <1>1, <1>3, <1>6, <1>7, NumbersLater

\* What has to be shown of an action of Close, which leaves the cases alone.
LEMMA NumbersClose ==
    ASSUME NumbersInv, UNCHANGED <<granularity, cases, sub, given>>,
           count' \in [Suite -> Number], total' \in Number,
           closes' <= 1 /\ ~raced' =>
             /\ \A s \in Suite : count'[s] = Num(Counted(s)')
             /\ total' = Num({c \in cases' : SuiteOf[c.test] \in Summed'})
    PROVE  NumbersInv'
<1>1. \A t : Of(t)' = Of(t)
  BY DEF Of
<1>2. /\ IsFiniteSet(cases') /\ sub' \in [Test -> Number]
      /\ granularity' = "test" => \A t \in Test : sub'[t] = Zero
      /\ granularity' = "step" => \A t \in Test : sub'[t] = Num(Of(t)') /\ sub'[t].tests = given'[t]
  BY <1>1 DEF NumbersInv
<1> QED BY <1>2 DEF NumbersInv

\* Nothing is counted by a step of Close that changes its position only.
LEMMA PositionNumbers ==
    ASSUME NumbersInv, CloseOnly, UNCHANGED <<count, total, raced>>,
           closes' <= 1 => closes <= 1,
           closes' <= 1 /\ ~raced => Summed' = Summed /\ \A s \in Suite : Counted(s)' = Counted(s)
    PROVE  NumbersInv'
<1>1. UNCHANGED <<granularity, cases, sub, given>>
  BY CloseKeepsTests
<1>2. count \in [Suite -> Number] /\ total \in Number
  BY DEF NumbersInv
<1>3. ASSUME closes' <= 1, ~raced
      PROVE  /\ \A s \in Suite : count[s] = Num(Counted(s)')
             /\ total = Num({c \in cases : SuiteOf[c.test] \in Summed'})
  <2>1. /\ \A s \in Suite : count[s] = Num(Counted(s))
        /\ total = Num({c \in cases : SuiteOf[c.test] \in Summed})
    BY <1>3 DEF NumbersInv
  <2>2. Summed' = Summed /\ \A s \in Suite : Counted(s)' = Counted(s)
    BY <1>3
  <2> QED BY <2>1, <2>2
<1> QED BY <1>1, <1>2, <1>3, NumbersClose

\* Close starts: nothing has been counted if the cases are those of steps.
LEMMA StartNumbers ==
    ASSUME TestsInv, ClosingInv, LoadInv, NumbersInv, CloseOnly, Begins
    PROVE  NumbersInv'
<1>1. StartClose /\ closes \in Nat /\ (closes = 0 <=> closing.phase = "open")
      /\ UNCHANGED <<count, total, raced>>
  BY BeginsEffect
<1>2. UNCHANGED <<granularity, cases, sub, given, suites>>
  BY CloseKeepsTests
<1>3. /\ closing'.phase = "suites" /\ closing'.left = suites
      /\ closing'.suite = {} /\ closes' = closes + 1
  BY <1>1, StartEffect DEF LoadInv
<1>4. closing.phase = "open" => Summed = {} /\ Summed' = {}
  BY <1>1, <1>2, <1>3 DEF Summed
<1>6. \A c \in cases : SuiteOf[c.test] \in suites
  <2>1. ASSUME NEW c \in cases PROVE SuiteOf[c.test] \in suites
    <3>1. c.test \in Test /\ pc[c.test] # "waiting"
      BY CaseIsLate
    <3>2. suites = Suite
      BY <3>1 DEF LoadInv
    <3> QED BY <3>1, <3>2, ReportAssumption
  <2> QED BY <2>1
<1>7. ASSUME closing.phase = "open", NEW s \in Suite PROVE Counted(s)' = Counted(s)
  BY <1>2, <1>3, <1>6, <1>7, CaseTypes DEF Counted, Pending, TestsInv
<1>8. closes' <= 1 => closes <= 1 /\ closing.phase = "open"
  BY <1>1, <1>3
<1> QED BY <1>1, <1>4, <1>7, <1>8, PositionNumbers

LEMMA SummarizeNumbers ==
    ASSUME TestsInv, ClosingInv, LoadInv, SubsInv, RacedInv, NumbersInv,
           NEW s \in Suite, Summarize(s)
    PROVE  NumbersInv'
<1>1. CloseOnly
  BY DEF CloseOnly
<1>2. UNCHANGED <<granularity, cases, suites, subs>>
  BY <1>1, CloseKeepsTests
<1>3. PICK x \in closing.left :
        /\ lists.suites = suites => s = x
        /\ closing.phase = "suites" /\ closing.suite = {}
        /\ closing'.phase = "subs" /\ closing'.left = closing.left \ {x}
        /\ closing'.suite = {s} /\ closing'.subs = SubSuites(s)
        /\ UNCHANGED <<closes, count, total, raced>>
  BY SummarizeEffect
<1>4. ASSUME ~raced PROVE Summed' = Summed /\ \A r \in Suite : Counted(r)' = Counted(r)
  <2>1. s = x
    BY <1>3, <1>4 DEF RacedInv
  <2>2. Summed' = Summed
    BY <1>2, <1>3, <2>1 DEF Summed
  <2>3. ASSUME NEW r \in Suite PROVE Counted(r)' = Counted(r)
    <3>1. CASE r = s
      BY <1>2, <1>3, <2>1, <3>1, CaseTypes DEF Counted, Pending, SubSuites, SubsInv, TestsInv
    <3>2. CASE r # s
      BY <1>2, <1>3, <2>1, <3>2 DEF Counted, Pending
    <3> QED BY <3>1, <3>2
  <2> QED BY <2>2, <2>3
<1> QED BY <1>1, <1>3, <1>4, PositionNumbers

\* A sub suite is added: its cases are counted for the suite, once.
LEMMA AddSubNumbers ==
    ASSUME TestsInv, ClosingInv, LoadInv, SubsInv, RacedInv, NumbersInv,
           NEW t \in Test, AddSub(t)
    PROVE  NumbersInv'
<1>1. CloseOnly
  BY DEF CloseOnly
<1>2. UNCHANGED <<granularity, cases, suites, subs, sub, given>>
  BY <1>1, CloseKeepsTests
<1>3. PICK s \in suites, x \in closing.subs :
        /\ closing.suite = {s} /\ SuiteOf[t] = s
        /\ lists.subs = SubSuites(s) => t = x
        /\ count' = [count EXCEPT ![s] = Plus(@, sub[t])]
        /\ closing.phase = "subs" /\ closing'.phase = "subs"
        /\ closing'.left = closing.left /\ closing'.suite = closing.suite
        /\ closing'.subs = closing.subs \ {x}
        /\ UNCHANGED <<closes, total, raced>>
  BY AddSubEffect
<1>4. Summed' = Summed /\ s \in Suite
  BY <1>2, <1>3 DEF Summed, LoadInv
<1>6. granularity = "step"
  BY <1>3 DEF ClosingInv, SubsInv, TestsInv, Shape
<1>8. sub[t] = Num(Of(t)) /\ sub[t] \in Number /\ count \in [Suite -> Number] /\ total \in Number
  BY <1>6 DEF NumbersInv
<1>10. count' \in [Suite -> Number] /\ count'[s] = Plus(count[s], sub[t])
       /\ \A r \in Suite \ {s} : count'[r] = count[r]
  <2>1. Plus(count[s], sub[t]) \in Number
    BY <1>4, <1>8, PlusType
  <2> QED BY <1>3, <1>4, <1>8, <2>1
<1>11. ASSUME closes <= 1, ~raced
       PROVE  /\ \A r \in Suite : count'[r] = Num(Counted(r)')
              /\ total = Num({c \in cases : SuiteOf[c.test] \in Summed})
  <2>0. t = x /\ s \notin closing.left
    BY <1>3, <1>11 DEF RacedInv
  <2>1. /\ \A r \in Suite : count[r] = Num(Counted(r))
        /\ total = Num({c \in cases : SuiteOf[c.test] \in Summed})
    BY <1>11 DEF NumbersInv
  <2>2. /\ Counted(s)' = Counted(s) \cup Of(t) /\ Counted(s) \cap Of(t) = {}
        /\ \A r \in Suite \ {s} : Counted(r)' = Counted(r)
    <3>1. \A r \in Suite \ {s} : Counted(r)' = Counted(r)
      BY <1>2, <1>3 DEF Counted, Pending
    <3>2. Counted(s)' = {c \in cases : SuiteOf[c.test] = s /\ c.test \notin closing.subs \ {t}}
      BY <1>2, <1>3, <1>6, <2>0 DEF Counted, Pending
    <3>3. Counted(s) = {c \in cases : SuiteOf[c.test] = s /\ c.test \notin closing.subs}
      BY <1>3, <1>6, <2>0 DEF Counted, Pending
    <3> QED BY <1>3, <2>0, <3>1, <3>2, <3>3 DEF Of
  <2>3. Num(Counted(s)') = Plus(Num(Counted(s)), sub[t])
    <3>1. IsFiniteSet(Counted(s)) /\ IsFiniteSet(Of(t))
      BY Finite, Subsets
    <3>2. Num(Counted(s) \cup Of(t)) = Plus(Num(Counted(s)), Num(Of(t)))
      BY <2>2, <3>1, NumUnion
    <3> QED BY <1>8, <2>2, <3>2
  <2>4. \A r \in Suite \ {s} : Num(Counted(r)') = Num(Counted(r))
    BY <2>2
  <2> QED BY <1>4, <1>10, <2>1, <2>3, <2>4
<1> QED BY <1>2, <1>3, <1>4, <1>8, <1>10, <1>11, NumbersClose

\* The suite in hand is added to the total.
LEMMA AddSuiteNumbers ==
    ASSUME TestsInv, ClosingInv, LoadInv, SubsInv, RacedInv, NumbersInv, AddSuite
    PROVE  NumbersInv'
<1>1. CloseOnly
  BY DEF CloseOnly
<1>2. UNCHANGED <<granularity, cases, suites, sub, given>>
  BY <1>1, CloseKeepsTests
<1>3. /\ closing.phase = "subs" /\ closing.subs = {}
      /\ closing'.phase = "suites" /\ closing'.left = closing.left /\ closing'.suite = {}
      /\ UNCHANGED <<closes, count, raced>>
  BY AddSuiteEffect
<1>4. PICK s \in suites : closing.suite = {s} /\ (~raced => s \notin closing.left)
  <2>1. PICK s \in suites : closing.suite = {s}
    BY <1>3 DEF ClosingInv
  <2>2. ~raced => s \notin closing.left
    BY <1>3, <2>1 DEF RacedInv
  <2> QED BY <2>1, <2>2
<1>5. total' = Plus(total, count[s]) /\ s \in Suite
  BY <1>4 DEF AddSuite, LoadInv
<1>7. count \in [Suite -> Number] /\ total \in Number
  BY DEF NumbersInv
<1>8. total' \in Number
  BY <1>5, <1>7, PlusType
<1>11. ASSUME closes <= 1, ~raced
       PROVE  /\ \A r \in Suite : count[r] = Num(Counted(r)')
              /\ total' = Num({c \in cases : SuiteOf[c.test] \in Summed'})
  <2>1. /\ \A r \in Suite : count[r] = Num(Counted(r))
        /\ total = Num({c \in cases : SuiteOf[c.test] \in Summed})
    BY <1>11 DEF NumbersInv
  <2>2. \A r \in Suite : Counted(r)' = Counted(r)
    BY <1>2, <1>3, <1>4, <1>11 DEF Counted, Pending
  <2>3. Counted(s) = {c \in cases : SuiteOf[c.test] = s}
    BY <1>3, <1>4, <1>11 DEF Counted, Pending
  <2>4. Summed' = Summed \cup {s} /\ s \notin Summed
    BY <1>2, <1>3, <1>4, <1>11 DEF Summed
  <2> DEFINE Before == {c \in cases : SuiteOf[c.test] \in Summed}
  <2>5. {c \in cases : SuiteOf[c.test] \in Summed'} = Before \cup Counted(s)
        /\ Before \cap Counted(s) = {}
    BY <2>3, <2>4
  <2>6. IsFiniteSet(Before) /\ IsFiniteSet(Counted(s))
    BY Finite, Subsets
  <2>7. total = Num(Before) /\ count[s] = Num(Counted(s))
    BY <1>5, <2>1
  <2> HIDE DEF Before
  <2>8. Num(Before \cup Counted(s)) = Plus(Num(Before), Num(Counted(s)))
    BY <2>5, <2>6, NumUnion
  <2>9. total' = Num({c \in cases : SuiteOf[c.test] \in Summed'})
    BY <1>5, <2>5, <2>7, <2>8
  <2>10. \A r \in Suite : Num(Counted(r)') = Num(Counted(r))
    BY <2>2
  <2> QED BY <2>1, <2>9, <2>10
<1> QED BY <1>2, <1>3, <1>7, <1>8, <1>11, NumbersClose

\* The numbers after any step.
LEMMA NextNumbers ==
    ASSUME TestsInv, ClosingInv, LoadInv, SubsInv, RacedInv, NumbersInv, [Next]_vars
    PROVE  NumbersInv'
<1>1. CASE UNCHANGED vars
  BY <1>1, NumbersQuiet DEF vars, tests, tree, output
<1>2. ASSUME NEW t \in Test, TestNext(t) PROVE NumbersInv'
  BY <1>2, TestNumbers
<1>3. CASE LoadTests
  BY <1>3, NumbersQuiet DEF LoadTests, tree, output
<1>4. ASSUME NEW s \in Suite, NewSuiteReport(s) PROVE NumbersInv'
  BY <1>4, SuiteNumbers
<1>5. CASE CloseOnly
  <2>1. UNCHANGED <<granularity, cases, suites, sub, given>>
    BY <1>5, CloseKeepsTests
  <2>2. CASE Ends
    <3>1. /\ closing.phase # "open" /\ closing'.phase # "open"
          /\ closing'.left = closing.left /\ closing'.suite = closing.suite
          /\ closing'.subs = closing.subs
          /\ UNCHANGED <<closes, count, total, raced>>
      BY <2>2, EndEffect DEF Ends
    <3>2. Summed' = Summed /\ \A s \in Suite : Counted(s)' = Counted(s)
      BY <2>1, <3>1 DEF Summed, Counted, Pending
    <3> QED BY <1>5, <3>1, <3>2, PositionNumbers
  <2> QED BY <1>5, <2>2, CloseSplit, StartNumbers, SummarizeNumbers, AddSubNumbers,
             AddSuiteNumbers
<1> QED BY <1>1, <1>2, <1>3, <1>4, <1>5, NextSplit

-----------------------------------------------------------------------------
(* Limits of the numbers.                                                  *)

\* Products, by themselves: the provers do them in no other context.
LEMMA TimesMonotone ==
    ASSUME NEW a \in Nat, NEW b \in Nat, NEW k \in Nat, a <= b
    PROVE  a * k <= b * k /\ a * k \in Nat /\ b * k \in Nat
<1>1. PICK d \in Nat : b = a + d
  <2>1. b - a \in Nat /\ b = a + (b - a)
    OBVIOUS
  <2> QED BY <2>1
<1>2. (a + d) * k = a * k + d * k /\ a * k \in Nat /\ d * k \in Nat
  OBVIOUS
<1> QED BY <1>1, <1>2

LEMMA TimesOnce == ASSUME NEW a \in Nat \ {0}, NEW k \in Nat PROVE k <= a * k
<1>1. 1 * k <= a * k
  BY TimesMonotone
<1> QED BY <1>1

LEMMA TimesNext ==
    ASSUME NEW a \in Nat, NEW k \in Nat
    PROVE  (a + 1) * k = a * k + k /\ a * k \in Nat
OBVIOUS

\* The constants and the limits are numbers.
LEMMA Constants ==
    /\ Cardinality(Test) \in Nat /\ Cardinality(Suite) \in Nat
    /\ SubLimit \in Nat \ {0} /\ MaxCloses \in Nat \ {0} /\ SuiteLimit \in Nat
    /\ OfSuite \in Nat /\ OfSuite = Cardinality(Test) * SubLimit
    /\ Cardinality(Suite) * OfSuite \in Nat /\ Cardinality(Suite) * SuiteLimit \in Nat
    /\ SuiteLimit = MaxCloses * (Cardinality(Suite) * OfSuite)
<1>1. Cardinality(Test) \in Nat /\ Cardinality(Suite) \in Nat
  BY ReportAssumption, FS_CardinalityType
<1>2. SubLimit \in Nat \ {0} /\ MaxCloses \in Nat \ {0}
  BY ReportAssumption DEF SubLimit
<1>3. OfSuite \in Nat /\ OfSuite = Cardinality(Test) * SubLimit
  BY <1>1, <1>2, TimesNext DEF OfSuite
<1>4. Cardinality(Suite) * OfSuite \in Nat
  BY <1>1, <1>3, TimesNext
<1>5. SuiteLimit = MaxCloses * (Cardinality(Suite) * OfSuite)
  BY DEF SuiteLimit, OfSuite
<1>6. SuiteLimit \in Nat
  BY <1>2, <1>4, <1>5, TimesNext
<1>7. Cardinality(Suite) * SuiteLimit \in Nat
  BY <1>1, <1>6, TimesNext
<1> QED BY <1>1, <1>2, <1>3, <1>4, <1>5, <1>6, <1>7

\* Sets of tests and of suites are finite, and no larger than all.
LEMMA TestsIn == ASSUME NEW R \in SUBSET Test
                 PROVE  Cardinality(R) \in Nat /\ Cardinality(R) <= Cardinality(Test)
BY ReportAssumption, FS_Subset, FS_CardinalityType

LEMMA SuitesIn == ASSUME NEW R \in SUBSET Suite
                  PROVE  /\ IsFiniteSet(R) /\ Cardinality(R) \in Nat
                         /\ Cardinality(R) <= Cardinality(Suite)
BY ReportAssumption, FS_Subset, FS_CardinalityType

\* What is left of the lists of Close, in numbers.
LEMMA LeftTypes ==
    ASSUME ClosingInv
    PROVE  /\ IsFiniteSet(closing.left) /\ Cardinality(closing.left) \in Nat
           /\ IsFiniteSet(closing.subs) /\ Cardinality(closing.subs) \in Nat
           /\ Cardinality(closing.left) * OfSuite \in Nat
           /\ Cardinality(closing.subs) * SubLimit \in Nat
           /\ closes \in Nat /\ closes <= MaxCloses
           /\ closes * (Cardinality(Suite) * OfSuite) \in Nat
<1>1. IsFiniteSet(closing.left) /\ Cardinality(closing.left) \in Nat
  BY SuitesIn DEF ClosingInv
<1>2. closing.subs \in SUBSET Test
  BY DEF ClosingInv
<1>3. IsFiniteSet(closing.subs) /\ Cardinality(closing.subs) \in Nat
  BY <1>2, TestsIn, FS_Subset, ReportAssumption
<1>4. closes \in Nat /\ closes <= MaxCloses
  BY ReportAssumption DEF ClosingInv
<1>5. /\ Cardinality(closing.left) * OfSuite \in Nat
      /\ Cardinality(closing.subs) * SubLimit \in Nat
      /\ closes * (Cardinality(Suite) * OfSuite) \in Nat
  BY <1>1, <1>3, <1>4, Constants, TimesNext
<1> QED BY <1>1, <1>3, <1>4, <1>5

LEMMA NumberTypes ==
    ASSUME NumbersInv
    PROVE  /\ \A s \in Suite : count[s].tests \in Nat /\ count[s].failures \in Nat
           /\ \A t \in Test : sub[t].tests \in Nat /\ sub[t].failures \in Nat
           /\ total.tests \in Nat /\ total.failures \in Nat
BY DEF NumbersInv, Number

\* A sub suite has no more entries than the test has steps.
LEMMA SubBound ==
    ASSUME TestsInv, NumbersInv, NEW t \in Test
    PROVE  sub[t].tests \in 0..SubLimit
<1>1. given[t] \in Nat /\ Len(steps[t]) \in Nat /\ given[t] <= Len(steps[t])
      /\ Len(steps[t]) <= MaxSteps + 1 /\ granularity \in {"test", "step"}
  <2>1. given[t] \in Nat /\ Len(steps[t]) \in Nat /\ granularity \in {"test", "step"}
    BY Types DEF TestsInv
  <2>2. given[t] <= Len(steps[t]) /\ Len(steps[t]) <= MaxSteps + 1
    BY DEF TestsInv, TestInv
  <2> QED BY <2>1, <2>2
<1>2. granularity = "test" => sub[t].tests = 0
  BY DEF NumbersInv, Zero
<1>3. granularity = "step" => sub[t].tests = given[t]
  BY DEF NumbersInv
<1> QED BY <1>1, <1>2, <1>3, ReportAssumption DEF SubLimit

\* The invariant gives the limit of a suite, and that of the total.
LEMMA CountBound ==
    ASSUME TestsInv, ClosingInv, NumbersInv, LimitInv, NEW s \in Suite
    PROVE  count[s].tests \in 0..SuiteLimit
<1> DEFINE N == Cardinality(Test)
<1> DEFINE L == Cardinality(Suite) * OfSuite
<1>1. count[s].tests \in Nat /\ granularity \in {"test", "step"}
      /\ closes \in Nat /\ closes <= MaxCloses
  BY NumberTypes, LeftTypes DEF TestsInv, Shape
<1>2. L \in Nat /\ SuiteLimit = MaxCloses * L /\ SuiteLimit \in Nat /\ MaxCloses \in Nat \ {0}
  BY Constants
<1>3. CASE granularity = "test"
  <2>1. count[s].tests + Cardinality({t \in Test : given[t] = 0}) <= N
    BY <1>3 DEF LimitInv
  <2>2. Cardinality({t \in Test : given[t] = 0}) \in Nat
    BY TestsIn
  <2>3. N <= OfSuite
    <3>1. N \in Nat /\ SubLimit \in Nat \ {0} /\ OfSuite = N * SubLimit
      BY Constants
    <3> HIDE DEF N
    <3>2. N <= SubLimit * N
      BY <3>1, TimesOnce
    <3>3. SubLimit * N = N * SubLimit
      BY <3>1
    <3> QED BY <3>1, <3>2, <3>3
  <2>4. OfSuite <= L
    <3>1. Cardinality(Suite) # 0
      BY ReportAssumption, FS_EmptySet
    <3> QED BY <3>1, Constants, TimesOnce
  <2>5. L <= SuiteLimit
    BY <1>2, TimesOnce
  <2> HIDE DEF N, L
  <2>6. N \in Nat /\ OfSuite \in Nat
    BY Constants DEF N
  <2> QED BY <1>1, <1>2, <2>1, <2>2, <2>3, <2>4, <2>5, <2>6
<1>4. CASE granularity = "step"
  <2> DEFINE a == Cardinality(closing.left) * OfSuite
  <2> DEFINE b == Cardinality(closing.subs) * SubLimit
  <2>1. count[s].tests + (a + b) <= closes * L
    BY <1>4 DEF LimitInv
  <2>2. a \in Nat /\ b \in Nat
    BY LeftTypes
  <2> HIDE DEF a, b, L
  <2>3. closes * L <= SuiteLimit /\ closes * L \in Nat
    BY <1>1, <1>2, TimesMonotone
  <2> QED BY <1>1, <1>2, <2>1, <2>2, <2>3
<1> QED BY <1>1, <1>3, <1>4

LEMMA TotalBound ==
    ASSUME ClosingInv, NumbersInv, LimitInv
    PROVE  total.tests \in 0..TotalLimit
<1> DEFINE a == (Cardinality(closing.left) + Cardinality(closing.suite)) * SuiteLimit
<1> DEFINE b == closes * (Cardinality(Suite) * SuiteLimit)
<1>1. total.tests \in Nat /\ closes \in Nat /\ closes <= MaxCloses
  BY NumberTypes DEF ClosingInv
<1>2. total.tests + a <= b
  BY DEF LimitInv
<1>3. a \in Nat
  <2>1. Cardinality(closing.left) \in Nat /\ Cardinality(closing.suite) \in Nat
    BY SuitesIn DEF ClosingInv
  <2>2. Cardinality(closing.left) + Cardinality(closing.suite) \in Nat
    BY <2>1
  <2> QED BY <2>2, Constants, TimesNext
<1>4. b <= TotalLimit /\ b \in Nat /\ TotalLimit \in Nat
  BY <1>1, Constants, TimesMonotone DEF TotalLimit
<1> HIDE DEF a, b
<1> QED BY <1>1, <1>2, <1>3, <1>4

\* No Close, no numbers.
LEMMA InitLimits == Init => LimitInv
<1> SUFFICES ASSUME Init PROVE LimitInv
  OBVIOUS
<1>1. /\ sub = [t \in Test |-> Zero] /\ count = [s \in Suite |-> Zero] /\ total = Zero
      /\ closing.left = {} /\ closing.suite = {} /\ closes = 0
  BY DEF Init, Open
<1>2. Zero.tests = 0 /\ Zero.failures = 0 /\ Cardinality({}) = 0
  BY FS_EmptySet DEF Zero
<1>3. 0 * SubLimit = 0 /\ 0 * OfSuite = 0 /\ 0 * (Cardinality(Suite) * OfSuite) = 0
      /\ (0 + 0) * SuiteLimit = 0 /\ 0 * (Cardinality(Suite) * SuiteLimit) = 0
  <2> DEFINE a == Cardinality(Suite) * OfSuite
  <2> DEFINE b == Cardinality(Suite) * SuiteLimit
  <2>1. a \in Nat /\ b \in Nat /\ SuiteLimit \in Nat /\ SubLimit \in Nat /\ OfSuite \in Nat
    BY Constants
  <2> HIDE DEF a, b
  <2>2. 0 * SubLimit = 0 /\ 0 * OfSuite = 0 /\ 0 * a = 0 /\ (0 + 0) * SuiteLimit = 0 /\ 0 * b = 0
    BY <2>1
  <2> QED BY <2>2 DEF a, b
<1>4. Cardinality({t \in Test : given[t] = 0}) <= Cardinality(Test)
      /\ Cardinality({t \in Test : given[t] = 0}) \in Nat
  BY TestsIn
<1>5. closing.subs = {}
  BY DEF Init, Open
<1>6. /\ \A s \in Suite : count[s].tests = 0 /\ count[s].failures = 0
      /\ \A t \in Test : sub[t].tests = 0 /\ sub[t].failures = 0
      /\ total.tests = 0 /\ total.failures = 0
  BY <1>1, <1>2
<1>7. \A s \in Suite : count[s].tests + (Cardinality(closing.left) * OfSuite
                                           + Cardinality(closing.subs) * SubLimit)
                         <= closes * (Cardinality(Suite) * OfSuite)
  BY <1>1, <1>2, <1>3, <1>5, <1>6
<1>8. total.tests + (Cardinality(closing.left) + Cardinality(closing.suite)) * SuiteLimit
        <= closes * (Cardinality(Suite) * SuiteLimit)
  BY <1>1, <1>2, <1>3, <1>6
<1>9. \A s \in Suite :
         count[s].tests + Cardinality({t \in Test : given[t] = 0}) <= Cardinality(Test)
  <2>1. Cardinality(Test) \in Nat
    BY Constants
  <2> QED BY <1>4, <1>6, <2>1
<1> QED BY <1>6, <1>7, <1>8, <1>9 DEF LimitInv

\* Some actions change none of what the limits are about.
LEMMA LimitsQuiet ==
    ASSUME LimitInv, UNCHANGED <<granularity, given, sub, count, total, closes>>,
           closing'.left = closing.left, closing'.suite = closing.suite,
           closing'.subs = closing.subs
    PROVE  LimitInv'
BY DEF LimitInv

\* Failures stay within tests.
LEMMA PlusTests ==
    ASSUME NEW a \in Number, NEW b \in Number, a.failures <= a.tests, b.failures <= b.tests
    PROVE  /\ Plus(a, b).tests = a.tests + b.tests
           /\ Plus(a, b).failures <= Plus(a, b).tests
BY DEF Plus, Number

LEMMA OneTests == ASSUME NEW failed PROVE One(failed).tests = 1 /\ One(failed).failures <= 1
BY DEF One

\* For granularity "test", each test is counted once, in Done.
LEMMA TestLimits ==
    ASSUME TestsInv, ClosingInv, NumbersInv, LimitInv, NEW t \in Test, TestNext(t)
    PROVE  LimitInv'
<1>0. UNCHANGED <<granularity, closing, closes, total>>
  BY TestsKeepClose
<1>1. CASE LoadTestSteps(t) \/ NewTestReporter(t) \/ RunStep(t) \/ RunReturns(t)
  BY <1>1, LimitsQuiet DEF LoadTestSteps, NewTestReporter, RunStep, RunReturns, tree,
     output
<1>2. CASE Done(t) \/ Cleanup(t)
  BY <1>2, LimitsQuiet DEF Done, Cleanup, tree, output
<1>3. CASE DoneTest(t)
  <2>1. granularity = "test" /\ given[t] = 0 /\ sub' = sub
        /\ given' = [given EXCEPT ![t] = Len(steps[t])]
        /\ count' = [count EXCEPT ![SuiteOf[t]] = Plus(@, One(Failure(t)))]
    BY <1>3 DEF DoneTest
  <2>2. Len(steps[t]) # 0
    BY <1>3, Types DEF DoneTest, At, TestsInv, TestInv
  <2> DEFINE Z == {u \in Test : given[u] = 0}
  <2> DEFINE Y == {u \in Test : given'[u] = 0}
  <2>3. Y = Z \ {t} /\ t \in Z /\ Z \in SUBSET Test
    BY <2>1, <2>2 DEF TestsInv, Shape
  <2> HIDE DEF Y, Z
  <2>4. Cardinality(Y) = Cardinality(Z) - 1 /\ Cardinality(Z) \in Nat
    BY <2>3, TestsIn, FS_RemoveElement, FS_Subset, ReportAssumption
  <2>5. count \in [Suite -> Number] /\ SuiteOf[t] \in Suite
    BY ReportAssumption DEF NumbersInv
  <2>6. \A s \in Suite : count'[s].failures <= count'[s].tests
                         /\ count'[s].tests <= count[s].tests + 1
                         /\ count[s].tests \in Nat /\ count'[s].tests \in Nat
    <3>1. /\ Plus(count[SuiteOf[t]], One(Failure(t))).tests = count[SuiteOf[t]].tests + 1
          /\ Plus(count[SuiteOf[t]], One(Failure(t))).failures
               <= Plus(count[SuiteOf[t]], One(Failure(t))).tests
      BY <2>5, PlusTests, OneTests, OneType DEF LimitInv
    <3>2. \A s \in Suite : count[s].tests \in Nat /\ count[s].failures \in Nat
                           /\ count[s].failures <= count[s].tests
      BY NumberTypes DEF LimitInv
    <3> QED BY <2>1, <2>5, <3>1, <3>2
  <2>7. \A s \in Suite : count'[s].tests + Cardinality(Y) <= Cardinality(Test)
    <3>1. \A s \in Suite : count[s].tests + Cardinality(Z) <= Cardinality(Test)
      BY <2>1 DEF LimitInv, Z
    <3> QED BY <2>4, <2>6, <3>1, Constants
  <2>8. granularity' # "step"
    BY <1>0, <2>1
  <2> QED BY <1>0, <2>1, <2>6, <2>7, <2>8 DEF LimitInv, Y
<1>4. CASE DoneStep(t)
  <2>1. granularity = "step" /\ count' = count
        /\ sub' = [sub EXCEPT ![t] = Plus(@, One(steps[t][given[t] + 1]))]
    BY <1>4 DEF DoneStep
  <2>2. sub \in [Test -> Number] /\ \A u \in Test : sub[u].failures <= sub[u].tests
    BY DEF NumbersInv, LimitInv
  <2>3. Plus(sub[t], One(steps[t][given[t] + 1])).failures
          <= Plus(sub[t], One(steps[t][given[t] + 1])).tests
    BY <2>2, PlusTests, OneTests, OneType
  <2>4. \A u \in Test : sub'[u].failures <= sub'[u].tests
    BY <2>1, <2>2, <2>3
  <2> QED BY <1>0, <2>1, <2>4 DEF LimitInv
<1> QED BY <1>1, <1>2, <1>3, <1>4 DEF TestNext

\* Each Close may take every suite once more, and for each all sub suites.
LEMMA StartLimits ==
    ASSUME ClosingInv, LoadInv, NumbersInv, LimitInv, StartClose,
           closing.phase \in {"open", "write"},
           UNCHANGED <<granularity, given, sub, count, total, suites>>
    PROVE  LimitInv'
<1> DEFINE K == Cardinality(Suite) * OfSuite
<1> DEFINE L == Cardinality(Suite) * SuiteLimit
<1>1. closing.left = {} /\ closing.suite = {} /\ closing.subs = {} /\ closes \in Nat
      /\ suites \in SUBSET Suite
  BY LeftTypes DEF ClosingInv, LoadInv
<1>2. closing'.left = suites /\ closing'.suite = {} /\ closing'.subs = {} /\ closes' = closes + 1
  BY <1>1, StartEffect
<1>3. K \in Nat /\ L \in Nat /\ SubLimit \in Nat /\ SuiteLimit \in Nat /\ OfSuite \in Nat
      /\ Cardinality({}) = 0
  BY Constants, FS_EmptySet
<1>4. ASSUME granularity = "step", NEW s \in Suite
      PROVE  count[s].tests + (Cardinality(suites) * OfSuite + Cardinality({}) * SubLimit)
               <= (closes + 1) * K
  <2> DEFINE p == Cardinality(suites) * OfSuite
  <2>1. count[s].tests + (Cardinality({}) * OfSuite + Cardinality({}) * SubLimit) <= closes * K
    BY <1>1, <1>4 DEF LimitInv
  <2>2. p <= K /\ p \in Nat
    BY <1>1, SuitesIn, Constants, TimesMonotone
  <2>3. (closes + 1) * K = closes * K + K /\ closes * K \in Nat
    BY <1>1, <1>3, TimesNext
  <2>4. count[s].tests \in Nat
    BY NumberTypes
  <2>5. Cardinality({}) * SubLimit = 0 /\ Cardinality({}) * OfSuite = 0
    BY <1>3
  <2> HIDE DEF p, K
  <2> QED BY <1>3, <2>1, <2>2, <2>3, <2>4, <2>5 DEF p
<1>5. total.tests + (Cardinality(suites) + Cardinality({})) * SuiteLimit <= (closes + 1) * L
  <2>1. total.tests + (Cardinality({}) + Cardinality({})) * SuiteLimit <= closes * L
    BY <1>1 DEF LimitInv
  <2>2. Cardinality(suites) * SuiteLimit <= L /\ Cardinality(suites) * SuiteLimit \in Nat
        /\ Cardinality(suites) \in Nat
    BY <1>1, SuitesIn, Constants, TimesMonotone
  <2>3. (closes + 1) * L = closes * L + L /\ closes * L \in Nat
    BY <1>1, <1>3, TimesNext
  <2>4. total.tests \in Nat
    BY NumberTypes
  <2>5. (Cardinality({}) + Cardinality({})) * SuiteLimit = 0
        /\ Cardinality(suites) + Cardinality({}) = Cardinality(suites)
    BY <1>3, <2>2
  <2> HIDE DEF L
  <2> QED BY <1>3, <2>1, <2>2, <2>3, <2>4, <2>5
<1>6. \A s \in Suite : granularity = "test" =>
        count[s].tests + Cardinality({t \in Test : given[t] = 0}) <= Cardinality(Test)
  BY DEF LimitInv
<1> QED BY <1>2, <1>4, <1>5, <1>6 DEF LimitInv

\* A suite is taken off the list; its sub suites, or those of another, are
\* still to be added.
LEMMA SummarizeLimits ==
    ASSUME ClosingInv, SubsInv, LoadInv, NumbersInv, LimitInv, NEW s \in Suite, Summarize(s)
    PROVE  LimitInv'
<1>1. CloseOnly
  BY DEF CloseOnly
<1>2. UNCHANGED <<granularity, given, sub>>
  BY <1>1, CloseKeepsTests
<1>3. PICK x \in closing.left :
        /\ closing.suite = {} /\ closing.subs = {} /\ closing'.left = closing.left \ {x}
        /\ closing'.suite = {s} /\ closing'.subs = SubSuites(s) /\ SubSuites(s) \in SUBSET Test
        /\ UNCHANGED <<closes, count, total>>
  BY SummarizeEffect
<1> DEFINE l == Cardinality(closing.left \ {x})
<1>4. l \in Nat /\ Cardinality(closing.left) = l + 1 /\ Cardinality({s}) = 1 /\ Cardinality({}) = 0
  <2>1. IsFiniteSet(closing.left) /\ Cardinality(closing.left) \in Nat
    BY LeftTypes
  <2>2. l = Cardinality(closing.left) - 1
    BY <1>3, <2>1, FS_RemoveElement
  <2>3. l \in Nat
    <3>1. closing.left \ {x} \in SUBSET Suite
      BY DEF ClosingInv
    <3> QED BY <3>1, SuitesIn
  <2>4. Cardinality({s}) = 1 /\ Cardinality({}) = 0
    BY FS_Singleton, FS_EmptySet
  <2> HIDE DEF l
  <2> QED BY <2>1, <2>2, <2>3, <2>4
<1> HIDE DEF l
<1>5. ASSUME granularity = "step", NEW r \in Suite
      PROVE  count[r].tests + (l * OfSuite + Cardinality(SubSuites(s)) * SubLimit)
               <= closes * (Cardinality(Suite) * OfSuite)
  <2> DEFINE K == closes * (Cardinality(Suite) * OfSuite)
  <2> DEFINE p == Cardinality(SubSuites(s)) * SubLimit
  <2> DEFINE n == l * OfSuite
  <2>1. count[r].tests
          + (Cardinality(closing.left) * OfSuite + Cardinality(closing.subs) * SubLimit) <= K
    BY <1>5 DEF LimitInv
  <2>2. Cardinality(closing.left) * OfSuite = n + OfSuite /\ n \in Nat
        /\ Cardinality(closing.subs) * SubLimit = 0
    <3>1. Cardinality(closing.left) = l + 1 /\ Cardinality(closing.subs) = 0
      BY <1>3, <1>4
    <3>2. (l + 1) * OfSuite = l * OfSuite + OfSuite /\ l * OfSuite \in Nat
      BY <1>4, Constants, TimesNext
    <3>3. 0 * SubLimit = 0
      BY Constants
    <3> QED BY <3>1, <3>2, <3>3
  <2>3. p <= OfSuite /\ p \in Nat /\ OfSuite \in Nat
    BY <1>3, TestsIn, Constants, TimesMonotone
  <2>4. K \in Nat /\ count[r].tests \in Nat
    BY LeftTypes, NumberTypes
  <2> HIDE DEF K, p, n
  <2>5. count[r].tests + (n + p) <= K
    BY <2>1, <2>2, <2>3, <2>4
  <2> QED BY <2>5 DEF K, p, n
<1>6. Cardinality(closing'.left) + Cardinality(closing'.suite)
        = Cardinality(closing.left) + Cardinality(closing.suite)
  BY <1>3, <1>4 DEF l
<1> QED BY <1>2, <1>3, <1>5, <1>6 DEF LimitInv, l

\* A sub suite is added, and is not on the list any more.
LEMMA AddSubLimits ==
    ASSUME TestsInv, ClosingInv, SubsInv, LoadInv, NumbersInv, LimitInv, NEW t \in Test, AddSub(t)
    PROVE  LimitInv'
<1>1. CloseOnly
  BY DEF CloseOnly
<1>2. UNCHANGED <<granularity, given, sub>>
  BY <1>1, CloseKeepsTests
<1>3. PICK s \in suites, x \in closing.subs :
        /\ count' = [count EXCEPT ![s] = Plus(@, sub[t])]
        /\ closing'.left = closing.left /\ closing'.suite = closing.suite
        /\ closing'.subs = closing.subs \ {x} /\ UNCHANGED <<closes, total>>
  BY AddSubEffect
<1>4. granularity = "step" /\ s \in Suite
  BY <1>3 DEF ClosingInv, SubsInv, LoadInv, TestsInv, Shape
<1>6. /\ count \in [Suite -> Number] /\ sub[t] \in Number
      /\ \A r \in Suite : count[r].failures <= count[r].tests
      /\ sub[t].failures <= sub[t].tests
  BY DEF NumbersInv, LimitInv
<1>7. /\ count'[s].tests = count[s].tests + sub[t].tests
      /\ count'[s].failures <= count'[s].tests
      /\ \A r \in Suite \ {s} : count'[r] = count[r]
  <2>1. count'[s] = Plus(count[s], sub[t]) /\ \A r \in Suite \ {s} : count'[r] = count[r]
    BY <1>3, <1>4, <1>6
  <2> QED BY <1>4, <1>6, <2>1, PlusTests
<1>8. \A r \in Suite : count'[r].failures <= count'[r].tests
  BY <1>6, <1>7
<1> DEFINE p == Cardinality(closing.subs \ {x})
<1>9. p \in Nat /\ Cardinality(closing.subs) = p + 1
  <2>1. IsFiniteSet(closing.subs) /\ Cardinality(closing.subs) \in Nat
    BY LeftTypes
  <2>2. p = Cardinality(closing.subs) - 1
    BY <1>3, <2>1, FS_RemoveElement
  <2>3. p \in Nat
    <3>1. closing.subs \ {x} \in SUBSET Test
      BY DEF ClosingInv
    <3> QED BY <3>1, TestsIn
  <2> HIDE DEF p
  <2> QED BY <2>1, <2>2, <2>3
<1> HIDE DEF p
<1>10. ASSUME NEW r \in Suite
       PROVE  count'[r].tests + (Cardinality(closing.left) * OfSuite + p * SubLimit)
                <= closes * (Cardinality(Suite) * OfSuite)
  <2> DEFINE K == closes * (Cardinality(Suite) * OfSuite)
  <2> DEFINE n == Cardinality(closing.left) * OfSuite
  <2>1. count[r].tests + (n + (p + 1) * SubLimit) <= K
    BY <1>4, <1>9 DEF LimitInv
  <2>2. (p + 1) * SubLimit = p * SubLimit + SubLimit /\ p * SubLimit \in Nat
    BY <1>9, Constants, TimesNext
  <2>3. K \in Nat /\ n \in Nat /\ count[r].tests \in Nat /\ SubLimit \in Nat
    BY LeftTypes, NumberTypes, Constants
  <2>4. sub[t].tests \in 0..SubLimit
    BY SubBound
  <2>5. count'[r].tests = count[r].tests + sub[t].tests \/ count'[r].tests = count[r].tests
    BY <1>7
  <2> HIDE DEF K, n
  <2>6. count'[r].tests + (n + p * SubLimit) <= K
    BY <2>1, <2>2, <2>3, <2>4, <2>5
  <2> QED BY <2>6 DEF K, n
<1> QED BY <1>2, <1>3, <1>4, <1>6, <1>8, <1>10 DEF LimitInv, p

\* A suite is added, and is not in hand any more.
LEMMA AddSuiteLimits ==
    ASSUME TestsInv, ClosingInv, LoadInv, NumbersInv, LimitInv, AddSuite
    PROVE  LimitInv'
<1>1. CloseOnly
  BY DEF CloseOnly
<1>2. UNCHANGED <<granularity, given, sub>>
  BY <1>1, CloseKeepsTests
<1>3. /\ closing.phase = "subs" /\ closing.subs = {}
      /\ closing'.left = closing.left /\ closing'.suite = {} /\ closing'.subs = {}
      /\ UNCHANGED <<closes, count>>
  BY AddSuiteEffect
<1>4. PICK s \in suites : closing.suite = {s}
  BY <1>3 DEF ClosingInv
<1>5. total' = Plus(total, count[s]) /\ s \in Suite
  BY <1>4 DEF AddSuite, LoadInv
<1>6. /\ total \in Number /\ count[s] \in Number
      /\ total.failures <= total.tests /\ count[s].failures <= count[s].tests
  BY <1>5 DEF NumbersInv, LimitInv
<1>7. total'.tests = total.tests + count[s].tests /\ total'.failures <= total'.tests
  BY <1>5, <1>6, PlusTests
<1>9. total'.tests + (Cardinality(closing'.left) + Cardinality(closing'.suite)) * SuiteLimit
        <= closes * (Cardinality(Suite) * SuiteLimit)
  <2> DEFINE L == closes * (Cardinality(Suite) * SuiteLimit)
  <2> DEFINE l == Cardinality(closing.left)
  <2>1. l \in Nat /\ Cardinality({}) = 0 /\ Cardinality({s}) = 1 /\ l + 0 = l
    <3>1. l \in Nat
      BY LeftTypes
    <3>2. Cardinality({}) = 0 /\ Cardinality({s}) = 1
      BY FS_Singleton, FS_EmptySet
    <3> HIDE DEF l
    <3> QED BY <3>1, <3>2
  <2>2. total.tests + (l + 1) * SuiteLimit <= L
    BY <1>4, <2>1 DEF LimitInv
  <2>3. (l + 1) * SuiteLimit = l * SuiteLimit + SuiteLimit /\ l * SuiteLimit \in Nat
    BY <2>1, Constants, TimesNext
  <2>4. count[s].tests \in 0..SuiteLimit /\ SuiteLimit \in Nat /\ total.tests \in Nat
    BY <1>5, CountBound, Constants, NumberTypes
  <2>5. L \in Nat
    BY LeftTypes, Constants, TimesNext
  <2> HIDE DEF L
  <2>6. Cardinality(closing'.left) + Cardinality(closing'.suite) = l
    BY <1>3, <2>1
  <2> HIDE DEF l
  <2>7. total'.tests + l * SuiteLimit <= L
    BY <1>7, <2>2, <2>3, <2>4, <2>5
  <2> QED BY <2>6, <2>7 DEF L
<1> QED BY <1>2, <1>3, <1>7, <1>9 DEF LimitInv

\* The limits after any step.
LEMMA NextLimits ==
    ASSUME TestsInv, ClosingInv, LoadInv, SubsInv, NumbersInv, LimitInv, [Next]_vars
    PROVE  LimitInv'
<1>1. CASE UNCHANGED vars
  BY <1>1, LimitsQuiet DEF vars, tests, tree, output
<1>2. CASE LoadTests \/ \E s \in Suite : NewSuiteReport(s)
  BY <1>2, LimitsQuiet DEF LoadTests, NewSuiteReport, tree, output
<1>3. CASE CloseOnly
  <2>1. UNCHANGED <<granularity, given, sub, suites>>
    BY <1>3, CloseKeepsTests
  <2>2. CASE Begins
    <3>1. StartClose /\ closing.phase \in {"open", "write"} /\ UNCHANGED <<count, total>>
      BY <2>2, BeginsEffect
    <3> QED BY <2>1, <3>1, StartLimits
  <2>3. CASE Ends
    <3>1. /\ closing'.left = closing.left /\ closing'.suite = closing.suite
          /\ closing'.subs = closing.subs /\ UNCHANGED <<closes, count, total>>
      BY <2>3, EndEffect DEF Ends
    <3> QED BY <2>1, <3>1, LimitsQuiet
  <2> QED BY <1>3, <2>2, <2>3, CloseSplit, SummarizeLimits, AddSubLimits, AddSuiteLimits
<1> QED BY <1>1, <1>2, <1>3, NextSplit, TestLimits

-----------------------------------------------------------------------------
(* The theorems.                                                           *)

\* The invariant holds at first and is kept by every step.
LEMMA InitIInv == Init => IInv
BY InitTests, InitControl, InitNumbers, InitLimits DEF IInv

LEMMA NextIInv == IInv /\ [Next]_vars => IInv'
BY NextTests, NextFile, NextClosing, NextLoad, NextSubs, NextRaced, NextNumbers, NextLimits
   DEF IInv

LEMMA IInvHolds == Spec => []IInv
BY InitIInv, NextIInv, PTL DEF Spec

LEMMA NumbersLimit ==
    ASSUME NEW n \in Number, NEW limit \in Nat, n.tests \in 0..limit, n.failures <= n.tests
    PROVE  n \in Numbers(limit)
BY DEF Number, Numbers

\* The invariant gives the types, with the limits.
LEMMA IInvTypes == IInv => TypeOK
<1> SUFFICES ASSUME IInv PROVE TypeOK
  OBVIOUS
<1>1. /\ TestsInv /\ FileInv /\ ClosingInv /\ LoadInv /\ SubsInv /\ RacedInv
      /\ NumbersInv /\ LimitInv
  BY DEF IInv
<1>2. /\ granularity \in {"test", "step"}
      /\ pc \in [Test -> {"waiting", "loaded", "running", "done", "cleanup", "over"}]
      /\ steps \in [Test -> Seq(BOOLEAN)] /\ given \in [Test -> Nat]
      /\ goFailed \in [Test -> BOOLEAN]
  BY <1>1, Zenon DEF TestsInv, Shape, States
<1>3. \A t \in Test : given[t] <= Len(steps[t]) /\ Len(steps[t]) <= MaxSteps + 1
  BY <1>1 DEF TestsInv, TestInv
<1>4. cases \subseteq Cases
  <2> SUFFICES ASSUME NEW c \in cases PROVE c \in Cases
    OBVIOUS
  <2>1. c \in [test : Test, step : Nat, failed : BOOLEAN]
    BY <1>1 DEF TestsInv, Shape
  <2>2. c.test \in Test /\ c.step \in Nat /\ c.step < given[c.test]
    BY <1>1, <2>1, CaseIsLate
  <2>3. given[c.test] \in Nat /\ Len(steps[c.test]) \in Nat
    BY <1>1, <2>2, Types DEF TestsInv
  <2>4. c.step \in 0..MaxSteps
    BY <1>3, <2>2, <2>3, ReportAssumption
  <2> QED BY <2>1, <2>4 DEF Cases
<1>5. sub \in [Test -> Numbers(SubLimit)]
  <2>1. sub \in [Test -> Number] /\ \A t \in Test : sub[t].failures <= sub[t].tests
    BY <1>1 DEF NumbersInv, LimitInv
  <2>2. \A t \in Test : sub[t] \in Numbers(SubLimit)
    BY <1>1, <2>1, SubBound, Constants, NumbersLimit
  <2> QED BY <2>1, <2>2
<1>6. count \in [Suite -> Numbers(SuiteLimit)]
  <2>1. count \in [Suite -> Number] /\ \A s \in Suite : count[s].failures <= count[s].tests
    BY <1>1 DEF NumbersInv, LimitInv
  <2>2. \A s \in Suite : count[s] \in Numbers(SuiteLimit)
    BY <1>1, <2>1, CountBound, Constants, NumbersLimit
  <2> QED BY <2>1, <2>2
<1>7. total \in Numbers(TotalLimit)
  <2>1. total \in Number /\ total.failures <= total.tests
    BY <1>1 DEF NumbersInv, LimitInv
  <2>2. TotalLimit \in Nat
    BY Constants, TimesNext DEF TotalLimit
  <2> QED BY <1>1, <2>1, <2>2, TotalBound, NumbersLimit
<1>8. /\ {loaded, interrupted, raced} \subseteq BOOLEAN
      /\ suites \subseteq Suite /\ subs \subseteq Test
  BY <1>1, Zenon DEF LoadInv, SubsInv, RacedInv
<1>9. /\ closing \in [phase : {"open", "suites", "subs", "write", "written", "failed"},
                      left : SUBSET Suite, suite : SUBSET Suite, subs : SUBSET Test]
      /\ lists \in [suites : SUBSET Suite, subs : SUBSET Test]
      /\ closes \in 0..MaxCloses
  BY <1>1 DEF ClosingInv, Phases
<1>10. /\ begun.suites \subseteq Suite /\ begun.subs \subseteq Test /\ begun.cases \subseteq Cases
       /\ file.cases \subseteq Cases
  BY <1>1, <1>4, <1>8 DEF FileInv
<1> QED BY <1>10, <1>2, <1>3, <1>4, <1>5, <1>6, <1>7, <1>8, <1>9, Zenon DEF TypeOK

\* A test case with a failure is that of the last step of a test.
LEMMA LastFails == IInv => FailureIsLast
<1> SUFFICES ASSUME IInv, NEW c \in Failed(cases), NEW d \in cases, c.test = d.test
             PROVE  d.step <= c.step
  BY DEF FailureIsLast
<1>1. TestsInv /\ c \in cases /\ c.failed
  BY DEF IInv, Failed
<1>2. c.test \in Test /\ c.step \in Nat /\ d.step \in Nat /\ d.step < given[d.test]
  BY <1>1, CaseTypes, CaseIsLate DEF TestsInv
<1>3. CaseInv(c) /\ CaseInv(d) /\ given[c.test] <= Len(steps[c.test])
  BY <1>1, <1>2 DEF TestsInv, TestInv
<1>4. granularity \in {"test", "step"} /\ given[c.test] \in Nat /\ Len(steps[c.test]) \in Nat
  BY <1>1, <1>2, Types DEF TestsInv
<1>5. CASE granularity = "test"
  BY <1>2, <1>3, <1>5 DEF CaseInv
<1>6. CASE granularity = "step"
  <2>1. c.step + 1 = Len(steps[c.test])
    BY <1>1, <1>3, <1>6 DEF CaseInv
  <2> QED BY <1>2, <1>3, <1>4, <2>1
<1> QED BY <1>4, <1>5, <1>6

LEMMA FailuresAreShown == IInv => StepFailuresShown
<1> SUFFICES ASSUME IInv, Written
             PROVE  /\ \A t \in Test : /\ AnyFailed(t)
                                       /\ pc[t] \in {"cleanup", "over"}
                                       /\ ~interrupted \/ Fixed(t)
                                       => \E c \in Failed(file.cases) : c.test = t
                    /\ \A c \in Failed(file.cases) : goFailed[c.test]
  BY DEF StepFailuresShown
<1>1. TestsInv /\ FileInv /\ RacedInv
  BY DEF IInv
<1>2. ASSUME NEW t \in Test, AnyFailed(t), pc[t] \in {"cleanup", "over"},
             ~interrupted \/ Fixed(t)
      PROVE  \E c \in Failed(file.cases) : c.test = t
  <2>1. given[t] = Len(steps[t]) /\ ShownInv(t)
    BY <1>1, <1>2 DEF TestsInv, TestInv
  <2>2. PICK c \in cases : c.test = t /\ c.failed
    BY <1>2, <2>1 DEF ShownInv
  <2>3. c \in file.cases
    <3>1. CASE ~interrupted
      BY <1>1, <2>2, <3>1 DEF FileInv, RacedInv
    <3>2. CASE Fixed(t)
      BY <1>1, <2>2, <3>2 DEF FileInv
    <3> QED BY <1>2, <3>1, <3>2
  <2> QED BY <2>2, <2>3 DEF Failed
<1>3. ASSUME NEW c \in Failed(file.cases) PROVE goFailed[c.test]
  <2>1. c \in cases /\ c.failed
    BY <1>1 DEF Failed, FileInv
  <2>2. c.test \in Test /\ CaseInv(c)
    BY <1>1, <2>1, CaseTypes DEF TestsInv
  <2>3. PICK i \in 1..Len(steps[c.test]) : steps[c.test][i]
    BY <2>1, <2>2 DEF CaseInv, AnyFailed
  <2> QED BY <1>1, <2>2, <2>3 DEF TestsInv, TestInv
<1> QED BY <1>2, <1>3

\* When the file is written every suite is in the total.
LEMMA CountsAddUp == IInv => NumbersAddUp
<1> SUFFICES ASSUME IInv, Written, closes = 1, ~interrupted \/ ~raced
             PROVE  /\ \A s \in suites : file.count[s] = Num(In(s))
                    /\ \A t \in subs : file.sub[t] = Num(Of(t))
                    /\ file.total = Num(cases)
  BY DEF NumbersAddUp
<1>1. /\ TestsInv /\ LoadInv /\ SubsInv /\ NumbersInv /\ ClosingInv /\ ~raced
      /\ file.count = count /\ file.sub = sub /\ file.total = total
  BY DEF IInv, FileInv, RacedInv
<1>2. /\ closing.phase = "written" /\ closing.left = {} /\ closing.suite = {}
      /\ suites \subseteq Suite
  BY <1>1 DEF ClosingInv, LoadInv, Written
<1>3. /\ \A s \in Suite : count[s] = Num(Counted(s))
      /\ total = Num({c \in cases : SuiteOf[c.test] \in Summed})
  BY <1>1 DEF NumbersInv
<1>4. ASSUME NEW s \in suites PROVE count[s] = Num(In(s))
  <2>1. Counted(s) = In(s)
    BY <1>2 DEF Counted, Pending, In
  <2> QED BY <1>2, <1>3, <2>1
<1>5. ASSUME NEW t \in subs PROVE sub[t] = Num(Of(t))
  <2>1. granularity = "step" /\ t \in Test
    BY <1>1 DEF SubsInv, TestsInv, Shape
  <2> QED BY <1>1, <2>1 DEF NumbersInv
<1>6. {c \in cases : SuiteOf[c.test] \in Summed} = cases
  <2> SUFFICES ASSUME NEW c \in cases PROVE SuiteOf[c.test] \in Summed
    OBVIOUS
  <2>1. c.test \in Test /\ pc[c.test] # "waiting"
    BY <1>1, CaseIsLate
  <2>2. suites = Suite
    BY <1>1, <2>1 DEF LoadInv
  <2>3. SuiteOf[c.test] \in Suite
    BY <2>1, ReportAssumption
  <2> QED BY <1>2, <2>2, <2>3 DEF Summed
<1> QED BY <1>1, <1>3, <1>4, <1>5, <1>6

\* Every value has its type, and no number of the report exceeds what as many
\* Closes as there were can have added.
THEOREM TypeCorrect == Spec => []TypeOK
BY IInvHolds, IInvTypes, PTL

\* AddTestcase and Close: the numbers of a report closed once are those of the
\* test cases, for every suite, every sub suite and in total, unless tests that
\* an interrupt did not wait for have added to the report since.
THEOREM NumbersTrue == Spec => []NumbersAddUp
BY IInvHolds, CountsAddUp, PTL

\* Done: the failure of a step is in the report, unless an interrupt had it
\* written while tests were adding to the same lists; and no test that passed
\* has one.
THEOREM FailuresReported == Spec => []StepFailuresShown
BY IInvHolds, FailuresAreShown, PTL

\* Run stops at the first failed step: a failure is the last entry of a test.
THEOREM FailureLast == Spec => []FailureIsLast
BY IInvHolds, LastFails, PTL
=============================================================================
