# Verification of kuttl

TLA+ models of the KUbernetes Test TooL (`src/internal`), checked with TLC, with
theorems checked by TLAPS. The models follow the Go code, not its documentation;
where the two disagree, a run shows it (see *Findings*).

## 1. The system

kuttl runs declarative tests against a Kubernetes cluster. A **harness** brings up
or connects to a cluster and runs **test cases** in parallel. A case owns a
namespace and runs its **steps** one after the other. A step deletes objects, runs
**commands**, applies objects with **CreateOrUpdate**, and then checks assertions in
a loop until they hold or its time is up. Every request to the API server goes
through a **retrying client**. The results go into a **report**.

| Component | State | Operations | Talks to |
|---|---|---|---|
| retry (`kubernetes/retry_client.go`) | `lastErr`, two unbuffered channels, a goroutine per attempt | `retry`, `validateErrors` | the request it wraps, the context |
| CreateOrUpdate (same file) | `updated`, shared with the attempt | `CreateOrUpdate`, `patchObject`, `RetryClient.*` | API server; called by `Step.Create` |
| Test case (`testcase/case.go`) | namespace name, eager clients, stack of cleanups | `NewCase`, `setup`, `createNamespace`, `didNsExist`, `deleteNamespace`, `Run` | API servers of several clusters; steps; report |
| Step (`step/step.go`, `kubernetes/wait.go`) | objects to delete, apply, assert; errors of the last check | `Run`, `DeleteExisting`, `Create`, `Check*`, `LoadYAML` | API server, commands |
| Commands (`utils/commands.go`) | processes and their deadlines | `RunCommand(s)`, `RunAssertCommands` | operating system |
| Harness (`harness/harness.go`) | `env`, `kind`, `bgProcesses`, `report`, `stopping`, cached clients | `Run`, `Setup`, `RunTests`, `Stop`, `fatal`, `Report` | kind, envtest, signals, cases |
| Report (`report/report.go`) | tree of suites and cases with counts | `Step`, `Done`, `AddTestcase`, `Close`, `Report` | cases (parallel), harness |
| Client cache (`harness.go` 238-374, `kubernetes/client.go`) | `config`, `client`, `dclient` under two locks | `Config`, `Client`, `DiscoveryClient` | harness, cases |
| Step loading (`step.go` 533-693, `file/name.go`, `utils/files`) | fields of `Step` as files are merged | `LoadYAML`, `CollectTestStepFiles` | files |
| Comparison and CEL (`utils/subset.go`, `expressions/cel.go`) | none | `IsSubset`, `RunAssertExpressions` | step |
| Assert and errors commands (`assert/assert.go`) | none | `Assert`, `Errors` | step |

What is hard here, and a test hardly reaches:

* **Interleavings**: an attempt that retry gave up still answers or still writes;
  parallel cases share a user supplied namespace; an interrupt runs `Stop` while
  `Setup`, the tests or another `Stop` is going on.
* **Unreliable answers**: a request can be served and its answer unreadable. It is
  sent again, and its own effect looks like somebody else's.
* **Stale state**: objects are read, and acted upon, while others change them.
* **Time**: deadlines, polls, the rounding of the rest of a timeout.
* **Partial failure**: what was created before an error has to be removed.
* **Nesting**: `Stop` reports, the report fails, `fatal` calls `Stop`.

The list of hazards with their lines and the properties that watch them is in
`PROJECT.json`.

What makes each component correct: retry never invents an answer and leaves nothing
running that it need not; CreateOrUpdate says truthfully what it did, and only the
creator of an object cleans it up; a case removes what it made and nothing else;
a step passes only on a complete check; the harness leaves nothing running and
touches nothing that is not its own; the report tells what happened.

## 2. Modules

| Module | Models | Run |
|---|---|---|
| `RetryPromise` | what a caller of retry may rely on (abstract) | through `MCRetry` |
| `Retry`, `MCRetry` | one call of retry | `retry` |
| `Retry_proofs` | theorems about `Retry` | |
| `ApplyPromise` | what a step may rely on when it applies an object (abstract) | through `MCCreateOrUpdate` |
| `CreateOrUpdate`, `MCCreateOrUpdate` | CreateOrUpdate, and its use in `Step.Create` | `create_or_update`, `create_or_update_created` |
| `CreateOrUpdate_proofs` | theorems about `CreateOrUpdate`, its refinement among them | |
| `TestCase`, `MCTestCase` | cases, namespaces, cleanups | `test_case` |
| `TestCase_proofs` | theorems about `TestCase` | |
| `StepRun`, `MCStepRun` | one step: deletions, commands, the assertion loop, collectors | `step_run`, `step_run_hang`, `step_run_background` |
| `StepRun_proofs` | theorems about `StepRun` | |
| `Harness`, `MCHarness` | Setup, Stop and interrupts | `harness`, `harness_report` |
| `Harness_proofs` | theorems about `Harness` | |
| `Report`, `MCReport` | the report while parallel tests add to it | `report` |
| `Report_proofs` | theorems about `Report` | |
| `StepLoad`, `MCStepLoad` | from the files of a directory to steps | `step_load` |
| `StepLoad_proofs` | theorems about lists of objects and about `StepLoad` | |
| `Subset` | IsSubset, the comparison of objects | through `MCAssertCli` |
| `AssertCli`, `MCAssertCli` | `kuttl assert` and `kuttl errors`, CheckResource and CheckResourceAbsent | `assert_cli` |
| `AssertCli_proofs` | theorems about `Subset` and `AssertCli` | |

### Retry

The calling goroutine (`pc`, `lastErr`, `cur`, `ret`) starts one goroutine per
iteration (`Spawn`) and waits in its select (`SelectDone`, `SelectErr`,
`SelectCtx`). `gs` is the state of each goroutine: `Land` is the effect of its
request on the server, `FnOk` and `FnErr` are the returns of `fn` (a panic that is
recovered is an error). A send on an unbuffered channel and its receive are one
action (`Receive`). Goroutine identities are used again after the goroutine has
exited, so that the loop needs no bound. `RetryPromise` hides goroutines and channels;
`Retry` implements it with `outcome <- ret`, `recent <- lastErr`,
`expired <- ctxDone`.

### CreateOrUpdate

The outer retry (`SelectDone`, `SelectErr`, `SelectCtx`) around Get and then Patch or
Create; each of these is a `RetryClient` call, whose own retry on an unparsable
answer is `Garble`. The server is the object with its resource version and answers
as Kubernetes does (external, from the errors that the code tells apart). A request
given up with the context may still land (`StrayLands`). `Finish` is the end of
`CreateOrUpdate` and what `Step.Create` makes of it; `RunCleanup` is the cleanup at
the end of the test. `ApplyPromise` has only the object, the last write, the outcome
and the cleanup, and no requests; `CreateOrUpdate` implements it with `outcome` and
`last`, which name what was returned and what was written last.

### TestCase

Each case has a `pc`, the eager clients still to set up, a current step and the stack
of its cleanups. A client is a kubeconfig path with a context and leads to a cluster
(`clusterOf`), so two clients may share one. `getEagerClients` keeps clients by path
alone (`EagerClients`). `CreateNs*` and `Probe` are `createNamespace` with `didNsExist`;
`SkipNs`, `DeleteNs`, `PollNs`, `AwaitNs`, `DeleteObj` and `CleanupFails` are the cleanups.
`Finalize` is the namespace controller (external). A name may be created again while
the poll of another case still waits for it to go; a case whose timeout is not
positive (`timed`) may then poll for ever.

What a step applies is one object in the namespace of the case. `ApplyAnswered` has the
answers of `CreateOrUpdate` that `CreateOrUpdate.tla` finds: made, with a cleanup; made but
reported as updated, without one (`stray`); really updated. The other half of `RunStep` is
an error of Create, after which the object may be there already, as when the deadline
passes just after it was made, or be made later: `lateObjs` holds the request until
`ServeObj` serves it. A namespace whose creation was given up is the same with `lateNs` and
`ServeNs`. `unclear` marks a case that cannot know that it made a namespace: no answer, an
error after a request that was served, or AlreadyExists after an answer that could not be
parsed.

### StepRun

The phases of `Step.Run` and of one `Check` are actions of their own, and `WorldMoves`
changes the objects between any two of them. Time is in ticks, `Unit` of them to the
second, so that the cut of `int(timeoutF-elapsed)` is visible. `clock` stays at the
largest timeout once it is there: no bound on time. The objects to delete, the commands
of the step and those of its TestAssert are lists, in the code's order: a list of
deletions is deleted one by one and then polled one by one from the beginning, an error
ends a list of commands. `RunAssertExpressions` is the code's count of errors; the
property uses what assertAny and assertAll mean (`ExpressionsHold`). A command that is
killed returns only when the children that hold its output are gone (`lingers`,
`Killed`). `hasTimeoutErr` looks at all errors of a Check: of an assert command
(`lateCommand`), and of a read of the cluster, whose own error may wrap
`context.DeadlineExceeded`, as that of a dial or of an http client does (`lateRead`).
`Runs` says which collectors are valid; one of them stands for their list, for nothing
depends on how they end. One object each stands for those to assert and to forbid;
`AssertCli` has several. `GetTimeout()` and `Timeout` of the step are the same number.

### Harness

`pc` is the progress of Setup and RunTests in the goroutine of the test, `stop` the
progress of `Stop` in that goroutine and in the one that waits for an interrupt. The
fields of the harness (`field`, `bgField`) and what really runs (`running`, `bg`) are
kept apart. A nil pointer that is used is a `panic`. `fatal` and T.Fatal follow from
`stopping` and from which goroutine calls: T.Fatal ends its own goroutine only.
A Stop called by `fatal` never returns to what called it, so one position per
goroutine is enough. Bringing up kind is step by step (`StartKind`, `IsRunning`,
`RunKind`, `AddContainers`), because `h.kind` is set before kind is asked whether the
cluster is there; `IsRunning` and `AddContainers` may panic (`setupPanic`). A control
plane that runs but whose client cannot be made, and a cluster whose end is an error,
are forgotten (`lost`).

### Report

Each test has a `pc`, its `steps` (its stepReports) and what `Done` has handed over
(`given`); `DoneTest` and `DoneStep` are one `AddTestcase` each, atomic under the lock
of the suite. `cases`, `sub`, `count` and `total` are the tree of suites with its numbers.
`Close` is `StartClose`, `Summarize`, `AddSub`, `AddSuite` and `Closed`, one step for
each addition, because it takes no lock and an interrupt may run it while tests are
in `Done`. Its loops take the length of a list once, while `AddTestSuite`, `NewSubSuite`
and `AddTestcase` append to the list and sort it in place: a loop over a list that was
added to may find one element twice and another not at all. `Find` gives any element of
the list instead of the one that stood there, and `lists` has what the loop began with.
`Write` does the same for the marshaller: where a list on the way to a test case was added
to since `begun` (not `Fixed`), the test case may be missing from the file, and a number may
have any value between that of the beginning and that of the end (`Readings`). `cases` of
the file is a set, so an entry written twice does not show. A report that cannot be
written is closed again, which adds the numbers once more. `Harness` has the nested Stops
behind it and does not look into the tree.

### StepLoad

`Collected` and `Parse` say which entries of the directory count and for which index;
`Collect`, `BeginStep`, `EndStep` and `Sort` are `LoadTestSteps`; `SkipFile`, `LoadYAML` and
`LoadFails` are one file. A name is what the regular expression makes of it. A file is
known by its place: the entry of the directory it is in and its number there, which
is also the order (`Before`) in which the files of a step are loaded; `files` has the
places that are left. Two places may have the same file in them, and each counts.
`Only` is the loop over a list that sorts out objects by their kind. The merge is
the code's, file by file; the properties look at the directory as a whole. They
also say what a reader of `LoadYAML` may not expect: the objects that a TestStep names
by path are added again for every later file (`Rounds`); a TestStep or TestAssert
reached by path is an error, respectively in force, only if a further file follows.

### Subset and AssertCli

An object is a map with `kind`, `metadata` and the rest, made of maps, slices and
scalars that know their type. `IsSubset` is the recursive function of the code; `Facts`
is an independent account of what a value says: that it is a map, a slice of some
length or a certain scalar, and what its parts say. `Depth` gives how deep a value is
nested, for no value is a part of itself: with it, what both recursive functions
compute can be proved. `IsObject` is the form of a Kubernetes object.
`Init`, `LoadFails` and `Load` are the command line and the files; `BeginRound`,
`CheckOne`, `EndRound` and `Wake` are the loops of `Assert` and `Errors`, which differ only
in `CheckResource` and `CheckResourceAbsent`; `Report` is the verdict. `Read` is Get by
name or List by labels and namespace. `Namespaced` changes the declared object itself,
as the code does. `Unanswered` is every failure of a client, of discovery or of a
request. `WorldMoves` changes the cluster between any two reads.

## 3. What the runs check

**retry** - `OnlyCurrentInFlight`: no answer of an earlier attempt can reach the
select. `NilMeansEffect`, `QuietUnlessTimedOut`: nil means done; a goroutine is left
behind only after the context ended. `ImplementsPromise`: refinement. `Returns`: with a
deadline the call returns, even if `fn` never does or every attempt gives a tolerated
error. Two goroutine identities would be enough because only one is alive at a time,
and the third makes room for what would break that. The errors are those of
CreateOrUpdate: two that are tolerated, which tells the most recent one from an earlier
one, and others.

**create_or_update** - `ResultNamesLastWrite`, `NoLostUpdate`, `CleanupSparesOthers`;
`ImplementsApply`: refinement of `ApplyPromise`, by which a successful call writes no
more and exactly an object that was created is cleaned up. Bounds: two unparsable answers
(`MaxGarbled`: one for each of two nested requests) and three writes by others
(`MaxOthers`: create, change and delete, or a delete and a create between two
requests of ours).

**test_case** - `NamespaceReady`, `NothingLeftBehind`, `OnlyCreatorDeletes`,
`EveryCaseEnds`. Two cases, one with an eager step in each of two contexts of a second
kubeconfig and one with a lazy step; one context leads to the default cluster or to the
other. `MaxGarbled = 1`. `MCSettings` has five settings: generated names on one default
cluster; generated names with deletion skipped; a user's namespace without a timeout,
where both cases meet in the default cluster; and each kind of name with a client that
may not create namespaces. The others repeat these: with generated names no case meets
another, and without a timeout the poll only has one way less to go on. `EveryCaseEnds`
is about cases with a timeout. `NamespaceReady` is not about an eager step whose
kubeconfig an earlier eager step uses with another context (see Findings).
`NothingLeftBehind` says that a case that is done left no namespace that it made, unless
a cleanup failed (`dirty`) or it could not know (`unclear`), and no object but one in
the namespace of the user for which Create registered no cleanup (`stray`): with
generated names even that one goes with its namespace, and a late request finds none.
Two cases are the least that share a namespace; a third adds another user of it and no
other kind of conflict.

**step_run** - `PassMeansHeld`, `FailsOnlyAtTimeout`, `DeletedBeforeApplied`,
`StepEnds`. Timeouts of one and two seconds and one below 0, half-second ticks: at
least two rounds of the loop and a fractional rest. Two objects to delete (one may
come back while the other is waited for), lists of no and of two commands with and
without background, two assert commands, one expression in both assertAny and
assertAll and one more in each, a valid and an invalid collector. `FailsOnlyAtTimeout` sets
a step apart whose last Check had a read that timed out (see Findings).

**harness** - `NothingRunning`, `RunningClusterKept`, `ReportTruthful`,
`NoPanicAlone`, `HarnessEnds`. What the code does lose is set apart by name: `lost`,
`setupPanic`, an interrupt during Setup (`early`), and, for the cluster found running, an
interrupt before `IsRunning` returns. All modes, with and without a report and
`SkipClusterDelete`; the report may fail at every attempt. `MaxCount = 2`: closes and
failures are counted as 0, 1, more.

**report** - `NumbersAddUp`, `StepFailuresShown`, `FailureIsLast`. Two tests of one suite
are the least that contend for its lock, and for the places of a list that is sorted
under a loop; the empty suite is one more addition of `Close`; `MaxSteps = 1` (setup and
one step), `MaxCloses = 2`. Without an interrupt, which is how the tests normally end, the
numbers and the failures are complete. After one, the numbers are if nothing was added
since `Close` began, and the failure of a step is there if nothing was added to the lists
on the way to it since the marshaller began. The tests of a suite are
interchangeable (symmetry; no liveness is checked here).

**step_load** - `ObjectsKept`, `OneTestStep`, `LastAssertHolds`, `StepsInOrder`.
`ObjectsKept` counts plain objects, and `LastAssertHolds` is not about a TestAssert that
a TestStep names by path. Three entries are the least with a file after a TestStep with
paths and another after that; 32-bit indices become `MaxIndex = 2`, with a prefix above
it.

**assert_cli** - `ValidMeansSeen`, `InvalidOnlyAtEnd`, `CommandEnds`. Timeouts of -1, 0, 1
and 2: none, the only, the first and the last round. Declarations by name, by label, by kind and
namespace, with and without a namespace, of a kind without namespaces, with a slice
of another length and a field of another type; up to two objects, so that the cluster
changes between two reads of a round. With a timeout of 0 or less both commands say
valid without a look at the cluster; `ValidMeansSeen` is about the others.

Every property has a mutant of the code (operators marked *mutant*) that breaks it.

### Fairness

* `Retry`: weak fairness of the caller (the scheduler runs it), of the deadline, and
  strong fairness of `SelectCtx`: a Go select picks among ready cases at random, so a
  case that is ready again and again is picked. None for `fn`.
* `TestCase`: weak fairness of each case, none for the namespace controller nor for the
  requests it gave up. A step (`RunStep`) and each request of a cleanup are one action, so
  this assumes that they end: a step whose assert command hangs does not
  (`step_run_hang`), and then neither does its case.
* `StepRun`: weak fairness of the step and of time. `FairCommandsSpec` adds that
  commands end, with their children; without it (`step_run_hang`) kuttl itself must
  end them.
* `AssertCli`: weak fairness of the command (one goroutine whose requests are answered,
  well or not), none for the cluster.
* `Harness`: weak fairness of the two goroutines; an interrupt need not come and a
  report need not ever be writable.

### Findings

Each is a run that expects a violation of what the project says of itself.

| Run | What happens | Where |
|---|---|---|
| `create_or_update_created` | own object reported as updated after a lost answer: no cleanup | `retry_client.go:336` |
| `step_run_hang` | the rest of the timeout is cut to 0, which means forever for an assert command | `step.go:491` |
| `step_run_background` | background commands of steps do run in the background and are never stopped | `step.go:473` |
| `harness_report` | a report that cannot be written keeps the cluster running | `harness.go:643` |

Some more, without a run of their own. A read of the cluster whose connection times out
fails the step at once, with time left and no late command, because `hasTimeoutErr`
looks at every error of the Check (`step.go:496`, `738-745`); without `lateRead`, TLC
finds `FailsOnlyAtTimeout` violated. An object that a step made stays in the namespace
of the user when Create was told that it had been updated, or ended with an error, as it
does when the deadline passes just after the write (`step.go:198-209`,
`retry_client.go:336`, `350`); without `stray`, TLC finds `NothingLeftBehind` violated.
The report that an interrupt writes may count a sub suite twice or not at all, and lack
entries of tests that are done (`report.go:215`, `203-207`, `175-178`); without `raced`
and `Fixed`, TLC finds `NumbersAddUp` and `StepFailuresShown` violated. Eager clients
are kept by path (`case.go:368`): of several contexts of one kubeconfig only the first
gets the namespace, though `keps/0008-multi-cluster.md:52` has it created in every
cluster the case uses; without `Overlooked`, TLC finds `NamespaceReady` violated. An
interrupt before `IsRunning` returns finds `h.kind` set, and `Stop` deletes the cluster
that was running before (`harness.go:132`; the exception of `RunningClusterKept`). A
control plane whose client cannot be made keeps running (`setup.go:112`; `lost` in
`StartEnv`). A kind cluster that somebody else creates between `IsRunning` and
`kind.Run` makes Run fail with `h.kind` set, and `Stop` deletes it (`OtherStarts`,
`RunKind`, `TakeDown` in `Harness`), though the comment at `harness.go:135` says that
kuttl does not stop an existing cluster. `kuttl assert --timeout 0` says valid whatever
the files declare (`assert.go:34`, `BeginRound`).

## 4. What is proved

TLAPS checks these for every value of the constants, from the assumptions named in
the modules. Every theorem follows from an inductive invariant `IInv`, whose parts
each say one thing and were first checked by TLC on the runs' instances: the initial
states satisfy it, every step keeps it (a lemma for each action, or group of actions
that change the same), and it implies the property.

| Module | Theorems | The property |
|---|---|---|
| `Retry_proofs` | `TypeCorrect`, `NoStaleAnswer`, `SuccessIsReal`, `NothingLeftBehind`, `Refinement` | `TypeOK`, `OnlyCurrentInFlight`, `NilMeansEffect`, `QuietUnlessTimedOut`, `ImplementsPromise` |
| `CreateOrUpdate_proofs` | `TypeCorrect`, `NilNamesLastWrite`, `PatchOverwritesNothing`, `CleanupOnlyReplaced`, `ApplyRefinement` | `TypeOK`, `ResultNamesLastWrite`, `NoLostUpdate`, `CleanupSparesOthers`, `ImplementsApply` |
| `TestCase_proofs` | `TypeCorrect`, `CreatorDeletes`, `StepFindsNamespace`, `CleansUp` | `TypeOK`, `OnlyCreatorDeletes`, `NamespaceReady`, `NothingLeftBehind` |
| `StepRun_proofs` | `TypeCorrect`, `DeletedFirst`, `PassIsHeld`, `FailureIsLate` | `TypeOK`, `DeletedBeforeApplied`, `PassMeansHeld`, `FailsOnlyAtTimeout` |
| `Harness_proofs` | `TypeCorrect`, `NothingLeft`, `NoNilPointer`, `TruthfulReport`, `FoundClusterKept` | `TypeOK`, `NothingRunning`, `NoPanicAlone`, `ReportTruthful`, `RunningClusterKept` |
| `Report_proofs` | `TypeCorrect`, `NumbersTrue`, `FailuresReported`, `FailureLast` | `TypeOK`, `NumbersAddUp`, `StepFailuresShown`, `FailureIsLast` |
| `StepLoad_proofs` | `TypeCorrect`, `KeepsObjects`, `OneTestStepHolds`, `LastAssert`, `InOrder` | `TypeOK`, `ObjectsKept`, `OneTestStep`, `LastAssertHolds`, `StepsInOrder` |
| `AssertCli_proofs` | `SubsetIsFacts`, `TypeCorrect`, `ValidIsSeen`, `InvalidIsLate` | `TypeOK`, `ValidMeansSeen`, `InvalidOnlyAtEnd` |

**Retry.** For any set of goroutines, any errors, with or without a deadline, from
`RetryAssumption` (the tolerated errors are errors, nil is none of them).
`OnlyCurrentInFlight` alone is not inductive: that a new goroutine starts only when
the previous one is gone follows from where the caller is. `IInv` says for each
place of the caller what the current goroutine does, that an attempt with answer nil
has landed, and that what landed counts as an effect; the refinement uses that where a
step needs the effect.

**CreateOrUpdate.** For any bounds on lost answers and on the writes of others. The
properties are about the end of a call, and rest on what its attempt knows before:
`AttemptInv` says how `updated` and the version that was read go with the request in
hand, `AnswerInv` that a good answer stands for the last write, `StrayInv` that a
request given up ends its attempt and the call, `CallInv` that a call without an error
leaves nobody who could still write, `VersionInv` that what others wrote has a version
the attempt has not read, `OwnerInv` that an object of the call is replaced only after
somebody deleted it. `ApplyRefinement` maps every step to one of `ApplyPromise` or to a
stutter.

**TestCase.** For any set of cases, clients and kubeconfigs, any clusters that they
lead to and any steps. `NameInv` keeps generated names apart; with `HomeInv`, an
object is in a namespace that is there, it is what makes an object without a cleanup go
with the namespace of its case; `LateInv` says that a case with an open request for a
namespace is `unclear`; `CaseInv` says for one case where it
is (`ControlInv`, `ClientInv`), that it will delete the user's namespace only where it
made it, and once (`CreatorInv`), that the namespaces it has set up are there until its
steps are over (`ReadyInv`), and that its stack has a cleanup for whatever it has made and
knows of (`CleanupInv`). A step of one case disturbs
another only through the namespaces they share, which is the main case of the proof.

**StepRun.** For any unit of time, lists, expressions and collectors, and any timeouts of
which one is positive and the largest. `CheckInv` carries, from phase to phase of one
Check, that no errors means that everything up to here was found to hold; `GoneInv`
which names of the list were seen free; `TimeInv` and `EndInv` relate the clock of
the step, the rest of the timeout and the way out of the loop.

**Harness.** From `HarnessAssumption` (`MaxCount` is at least 2, so that one and more
than one are told apart). Two threads with one Stop each: `PhaseInv` says where they can
be, the other parts what fields and processes are left for each place
of each of them. `NothingRunning` and `NoPanicAlone` are parts of `IInv` themselves.

**Report.** For any finite sets of suites and tests, any number of steps and of Closes.
`RacedInv` says that the loops find what there was if nothing was added since Close began,
and that only an interrupt lets tests add. `NumbersInv` says what the numbers are then, while
Close is on its way: those of a suite count the test cases of the sub suites that Close
has taken off its list, and the total those of the suites it has taken off. `FileInv` says
which test cases cannot be missing from the file. `LimitInv` bounds the numbers over several
Closes, also where a loop finds the same element each time.

**StepLoad.** For any directories, objects and largest index, from `LoadAssumption`,
which says what form they have. The properties compare the steps of the case with all
files of the directory; while files are still to load, none of them is true of the
step in hand. `Taken` says the same of a step and any set of files: which TestStep and
TestAssert it has and how often each object is in its lists (`StepTaken`, `AssertTaken`,
`ObjectsTaken`). `StepTaken` needs a part that no property has: what is left to apply
has a TestStep in it only right after the file that names it by path, which is why
the next file is refused. `FilesInv` has `Taken` for the files loaded so far, all of which
come before those that are left; `LoadTakes`, the main lemma, is that `LoadYAML` extends
it by the next file. `IndexInv` says that each index found is still in the map, in hand or
built, and `SortedInv` that sorting loses no step. The lemmas before them say what `Only`
does to lists and how objects are counted in them.

**Subset and AssertCli.** `SubsetIsFacts`: the recursive comparison holds of two values
exactly if all that the first says is said by the second, whatever they look like and
however deep they are. For the verdicts this is needed in both directions: a command may
not say valid on less than the facts, and `InvalidOnlyAtEnd` would be false if the
comparison refused what is there. `ReadMissesNone` adds that reading by name, labels
and namespace misses no object that is as declared. The invariants `RoundInv`,
`ErrorInv` and `VerdictInv` then account for each object of a round: as wanted when
it was read, or with an error.

Induction over data: the induction theorems of the library cannot be used, for they take
an operator as a parameter. `StepLoad_proofs` and `AssertCli_proofs` use
well-foundedness as a statement about sets instead: among the lists or values for
which the claim is false there is a smallest one (`SmallestNumber`,
`SmallestValue`), and that one gives a contradiction. That a recursive definition has a
solution at all is proved in the same way (`FiltersExist`, `SolutionExists`).

What the proofs have corrected in the models: the outcome and the last write of
`CreateOrUpdate`, which the refinement hands to `ApplyPromise`, were CASEs with
arms that overlap, of which the prover may take either and TLC takes the first; the
bound on the numbers in `Report.TypeOK` was too small from four Closes on, as the
sub suites are added once more each time (found as a step that could not be proved,
confirmed by TLC); `StepLoad` had the files of a step as a list, in which two equal
files could not be told apart, so that what was loaded could not be said of the
directory: they are places now. None concerns the code.

Only model-checked:

* liveness (`Returns`, `EveryCaseEnds`, `StepEnds`, `HarnessEnds`, `CommandEnds`): the
  prover handles neither fairness nor ENABLED in these proofs;
* the runs that find a violation: a counterexample is its own proof.


## 5. Not modelled

* Formatting, logging, events, downloads, archives and the parsing of YAML: no state that a
  property could be about.
* `List`, `Update`, `Delete`, `Watch` of the client and its status writer: the same
  retry around another request.
* kind, envtest, the API server and the namespace controller: libraries and
  services, external in the map.
* In `TestCase`, objects outside of the namespace of the case, those without a namespace and
  what the commands of a test create: one for which Create registered no cleanup stays
  with generated names, too.
* The namespace of a case that was created by a request whose answer was lost: the
  steps are in `TestCase`, but `NothingLeftBehind` sets such a case apart. It is left
  in place, though `docs/testing/reference.md:44` has it removed; the cause is the one
  of `create_or_update_created`.
* `index` of a TestStep: the code overwrites it with the one of the file name, though
  `docs/testing/reference.md:83` says it overrides that one.
* Data races on fields (`h.kind`, `h.env`, `stopping`, `updated`) are interleavings of
  whole reads and writes. So are those on the lists and numbers of the report; a slice
  header that is read in halves, or a number that is written between an interrupt's
  reading and adding to it, is not modelled, and no property speaks of numbers and lists
  that are added to meanwhile.
* `kuttl assert --namespace ""`: `Namespaced` of the code then removes the field. An
  assumption of `AssertCli` excludes it.
* The locks of the client cache (`clientLock`, `configLock`): taken in that order
  everywhere, after Setup they guard fields that no longer change but for `Client(true)`.
  A cached client that does not work is a read that fails.
* Precedence of flags over the configuration file: straight-line code. Its help says of
  a few flags what the code of `cmd/test.go` does otherwise; no state is involved.
* `Step.Clean`: called by its own test only.

## 6. Plan

1. Done: `Retry` with its promise, `CreateOrUpdate` with `ApplyPromise`, `TestCase`,
   `StepRun` with lists, expressions and collectors, `Harness`, `Report`, `StepLoad`,
   `Subset`, `AssertCli`.
2. Done: the theorems of section 4, which state every safety property of the runs and
   both refinements.
3. Open: an abstract specification of the ownership of namespaces for `TestCase`, with
   the refinement proved.

Bounds stay small in that plan: two or three actors of a kind, one or two failures
of a kind, every order of them.
