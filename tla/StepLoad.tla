------------------------------ MODULE StepLoad ------------------------------
(***************************************************************************)
(* Loading the steps of a test case: which entries of its directory belong *)
(* to which step (internal/utils/files, internal/file/name.go), and the    *)
(* merge of the files of a step, one by one, into its lists of objects     *)
(* (LoadYAML in internal/step/step.go; LoadTestSteps of                    *)
(* internal/testcase/case.go).                                             *)
(*                                                                         *)
(* A file is its name, taken apart as the pattern for names does, and its  *)
(* objects; what cannot be read or parsed is a file that is not readable.  *)
(* Of a step, what cannot go wrong in the merge is left out: its name,     *)
(* context and kubeconfig.                                                 *)
(* Files and steps come in any order: os.ReadDir sorts by name, "0-z"      *)
(* before "00-a", and the steps are in a map.                              *)
(***************************************************************************)
EXTENDS Naturals, Sequences, FiniteSets, SequencesExt

CONSTANTS
    Objects,    \* what can be written in a file, by its kind
    Contents,   \* the directories: sequences of entries
    MaxIndex,   \* the largest index that is parsed, 2^31-1 in the code
    None        \* a missing prefix, TestStep or TestAssert

Kinds == {"plain", "TestStep", "TestAssert", "TestFile"}
Names == [matches : BOOLEAN, prefix : Nat \cup {None}, first : {"apply", "assert", "errors"}]
Files == [name : Names, readable : BOOLEAN, objects : Seq(Objects)]

ASSUME LoadAssumption ==
    /\ MaxIndex \in Nat /\ None \notin Nat /\ None \notin Objects
    /\ \A o \in Objects :
          /\ o.kind \in Kinds
          /\ o.kind = "TestStep" =>
                /\ o.loading \in {None, "lazy", "eager", "invalid"}
                /\ {o.apply, o.assert, o.error} \subseteq Seq(Objects)
    /\ Contents \subseteq Seq([name : Names, ignored : BOOLEAN, files : Seq(Files)])

VARIABLES
    entries,  \* the directory
    pc,       \* "collect", "steps", "files", "sorted" or "failed"
    todo,     \* the steps in the map that are still to load
    files,    \* the files still to load into cur, each as <<entry, file>>
    cur,      \* the step that is loaded
    built,    \* testSteps
    steps     \* the steps of the case

vars == <<entries, pc, todo, files, cur, built, steps>>

-----------------------------------------------------------------------------
(* Names.                                                                  *)

Unknown == [type |-> "unknown", hasIndex |-> FALSE, index |-> 0]

\* mutant: the index is not limited to 32 bits
Parse_Wide(name) ==
    IF ~name.matches THEN Unknown
    ELSE [type |-> name.first,
          hasIndex |-> name.prefix # None,
          index |-> IF name.prefix = None THEN 0 ELSE name.prefix]

\* A name has the form of the pattern or not; then it has a prefix, and
\* its first component tells the type.
Parse(name) ==
    IF ~name.matches \/ (name.prefix # None /\ name.prefix > MaxIndex)
    THEN Unknown
    ELSE [type |-> name.first,
          hasIndex |-> name.prefix # None,
          index |-> IF name.prefix = None THEN 0 ELSE name.prefix]

Collected(e) == /\ ~e.ignored
                /\ Parse(e.name).type # "unknown"
                /\ Parse(e.name).hasIndex

Indices == {Parse(entries[i].name).index : i \in {j \in DOMAIN entries : Collected(entries[j])}}

\* The files of a step; those in a directory need no index of their own.
CollectTestStepFiles(index) ==
    UNION {{e} \X DOMAIN entries[e].files :
        e \in {d \in DOMAIN entries : /\ Collected(entries[d])
                                     /\ Parse(entries[d].name).index = index}}

File(p) == entries[p[1]].files[p[2]]

\* The order of loading: that of os.ReadDir, in the directory and in those
\* that are entries of it.
Before(p, q) == p[1] < q[1] \/ (p[1] = q[1] /\ p[2] < q[2])
IsNext(p) == p \in files /\ \A q \in files : q = p \/ Before(p, q)

-----------------------------------------------------------------------------
(* The merge.                                                              *)

\* The objects of these kinds, in their order.
Only(objects, kinds) ==
    LET found[n \in 0..Len(objects)] ==
          IF n = 0 THEN <<>>
          ELSE IF objects[n].kind \in kinds THEN Append(found[n - 1], objects[n])
          ELSE found[n - 1]
    IN found[Len(objects)]
OfKind(objects, kind) == Only(objects, {kind})
Without(objects, kind) == Only(objects, Kinds \ {kind})

NewStep(index) == [index |-> index, loading |-> None, Step |-> None, Assert |-> None,
                   Asserts |-> <<>>, Errors |-> <<>>, Apply |-> <<>>]

\* mutant: a selector that does not match is overlooked
Skipped_Never(f) == FALSE

Skipped(f) == \E o \in Range(OfKind(f.objects, "TestFile")) : ~o.selected

\* loadOrSkipFile and populateObjectsByType: an error, even for a file that
\* would be skipped, or a type that is not known.
Broken(f) == \/ ~f.readable
             \/ Len(OfKind(f.objects, "TestFile")) > 1
             \/ ~Skipped(f) /\ Parse(f.name).type = "unknown"

Populate(s, f) ==
    LET objects == Without(f.objects, "TestFile")
        type == Parse(f.name).type
    IN [s EXCEPT !.Asserts = IF type = "assert" THEN @ \o objects ELSE @,
                 !.Errors = IF type = "errors" THEN @ \o objects ELSE @,
                 !.Apply = IF type = "apply" THEN @ \o objects ELSE @]

\* mutant: the first TestAssert of a step stays
TakeAssert_First(s) ==
    LET found == OfKind(s.Asserts, "TestAssert")
    IN [s EXCEPT !.Assert = IF @ # None \/ found = <<>> THEN @ ELSE Head(found),
                 !.Asserts = Without(@, "TestAssert")]

TakeAssert(s) ==
    LET found == OfKind(s.Asserts, "TestAssert")
    IN [s EXCEPT !.Assert = IF found = <<>> THEN @ ELSE Last(found),
                 !.Asserts = Without(@, "TestAssert")]

TakeStep(s) ==
    LET found == OfKind(s.Apply, "TestStep")
        step == Head(found)
    IN IF found = <<>> THEN s
       ELSE [s EXCEPT !.Step = step,
                      !.loading = step.loading,
                      !.Apply = Without(@, "TestStep")]

\* The objects of the files that a TestStep lists.
ObjectsFromPath(step, list) == step[list]

\* Whether all of these files are found and can be loaded.
PathsFound(step) == step.readable

\* What the TestStep lists is added after every file, not only after the
\* one with the TestStep in it.
AddPaths(s) ==
    IF s.Step = None THEN s
    ELSE [s EXCEPT !.Apply = @ \o ObjectsFromPath(s.Step, "apply"),
                   !.Asserts = @ \o ObjectsFromPath(s.Step, "assert"),
                   !.Errors = @ \o ObjectsFromPath(s.Step, "error")]

\* The expressions of a TestAssert are built when it is loaded.
LoadPrograms(testAssert) == "invalid" \notin testAssert.expressions

\* mutant: a second TestStep replaces the first
Refused_Never(s, populated) == FALSE

\* The errors after Populate.
Refused(s, populated) ==
    LET found == OfKind(populated.Apply, "TestStep")
    IN \/ \E o \in Range(OfKind(populated.Asserts, "TestAssert")) : ~LoadPrograms(o)
       \/ found # <<>> /\ (s.Step # None \/ Len(found) > 1)
       \/ \E o \in Range(found) : o.loading = "invalid"

-----------------------------------------------------------------------------
(* LoadTestSteps.                                                          *)

Found(kind) == {o \in Objects : o.kind = kind}
Steps == [index : 0..MaxIndex, loading : {None, "lazy", "eager"},
          Step : Found("TestStep") \cup {None}, Assert : Found("TestAssert") \cup {None},
          Asserts : Seq(Objects), Errors : Seq(Objects), Apply : Seq(Objects)]

TypeOK ==
    /\ pc \in {"collect", "steps", "files", "sorted", "failed"}
    /\ todo \subseteq 0..MaxIndex
    /\ files \subseteq Nat \X Nat
    /\ cur \in Steps \cup {None} /\ built \subseteq Steps /\ steps \in Seq(Steps)
    /\ pc = "files" => cur \in Steps

Init == /\ entries \in Contents
        /\ pc = "collect"
        /\ todo = {} /\ files = {} /\ cur = None
        /\ built = {} /\ steps = <<>>

Collect == /\ pc = "collect"
           /\ todo' = Indices
           /\ pc' = "steps"
           /\ UNCHANGED <<entries, files, cur, built, steps>>

CollectFails == /\ pc = "collect"
                /\ pc' = "failed"
                /\ UNCHANGED <<entries, todo, files, cur, built, steps>>

\* Any order: a range over a map.
BeginStep == /\ pc = "steps"
             /\ \E i \in todo : /\ todo' = todo \ {i}
                                /\ cur' = NewStep(i)
                                /\ files' = CollectTestStepFiles(i)
             /\ pc' = "files"
             /\ UNCHANGED <<entries, built, steps>>

SkipFile == /\ pc = "files"
            /\ \E p \in files : /\ IsNext(p)
                                 /\ ~Broken(File(p)) /\ Skipped(File(p))
                                 /\ files' = files \ {p}
            /\ UNCHANGED <<entries, pc, todo, cur, built, steps>>

LoadYAML == /\ pc = "files"
            /\ \E p \in files :
                  LET populated == Populate(cur, File(p))
                  IN /\ IsNext(p)
                     /\ ~Broken(File(p)) /\ ~Skipped(File(p))
                     /\ ~Refused(cur, populated)
                     /\ cur' = AddPaths(TakeStep(TakeAssert(populated)))
                     /\ files' = files \ {p}
            /\ cur'.Step # None => PathsFound(cur'.Step)
            /\ UNCHANGED <<entries, pc, todo, built, steps>>

LoadFails ==
    /\ pc = "files"
    /\ \E p \in files :
          /\ IsNext(p)
          /\ \/ Broken(File(p))
             \/ /\ ~Skipped(File(p))
                /\ LET populated == Populate(cur, File(p))
                       loaded == TakeStep(populated)
                   IN \/ Refused(cur, populated)
                      \/ loaded.Step # None /\ ~PathsFound(loaded.Step)
    /\ pc' = "failed"
    /\ UNCHANGED <<entries, todo, files, cur, built, steps>>

EndStep == /\ pc = "files" /\ files = {}
           /\ built' = built \cup {cur}
           /\ cur' = None
           /\ pc' = "steps"
           /\ UNCHANGED <<entries, todo, files, steps>>

\* mutant: the steps stay in the order of the map
Sort_Unsorted == /\ pc = "steps" /\ todo = {}
                 /\ steps' \in SetToSeqs(built)
                 /\ pc' = "sorted"
                 /\ UNCHANGED <<entries, todo, files, cur, built>>

Sort == /\ pc = "steps" /\ todo = {}
        /\ \E s \in SetToSeqs(built) :
              /\ \A i, j \in DOMAIN s : i < j => s[i].index < s[j].index
              /\ steps' = s
        /\ pc' = "sorted"
        /\ UNCHANGED <<entries, todo, files, cur, built>>

Terminated == pc \in {"sorted", "failed"} /\ UNCHANGED vars

Next == \/ Collect \/ CollectFails \/ BeginStep \/ SkipFile \/ LoadYAML \/ LoadFails \/ EndStep
        \/ Sort \/ Terminated

Spec == Init /\ [][Next]_vars

-----------------------------------------------------------------------------
(* Properties.  They look at the directory as a whole and not at one file  *)
(* after the other.                                                        *)

\* The files of a step.
Owned(index) == UNION {{e} \X DOMAIN entries[e].files :
                    e \in {d \in DOMAIN entries : /\ entries[d].name.matches
                                                 /\ ~entries[d].ignored
                                                 /\ entries[d].name.prefix = index}}
Selected(f) == \A i \in DOMAIN f.objects : f.objects[i].kind = "TestFile" => f.objects[i].selected
Used(index, type) == {p \in Owned(index) : Selected(File(p)) /\ File(p).name.first = type}
UsedAll(index) == UNION {Used(index, type) : type \in {"apply", "assert", "errors"}}

\* How often an object is in a list, and in the files of these places.
Times(o, objects) == Cardinality({i \in DOMAIN objects : objects[i] = o})
TimesIn(o, P) == Cardinality(UNION {{p} \X {i \in DOMAIN File(p).objects :
                                              File(p).objects[i] = o} : p \in P})
TestSteps(index) == {p \in Used(index, "apply") : OfKind(File(p).objects, "TestStep") # <<>>}
TestAsserts(index) == {p \in Used(index, "assert") : OfKind(File(p).objects, "TestAssert") # <<>>}

\* How often the paths of the TestStep are loaded: after its file and after
\* each that follows.
Rounds(s) == Cardinality({p \in UsedAll(s.index) :
                \A q \in TestSteps(s.index) : ~Before(p, q)})

\* Every plain object, that is, every one but a TestStep, TestAssert or
\* TestFile, of the files of a step that are selected is in the list of its
\* file's type, once for each time it is written there, and no other plain
\* object is in it but those that a TestStep names by path.  (How often
\* LoadYAML adds the latter depends on the files that follow: Rounds.)
ObjectsKept ==
    \A s \in Range(steps) :
       LET Plain(list, type, paths) ==
             \A o \in Objects :
                o.kind = "plain" =>
                   Times(o, list) = TimesIn(o, Used(s.index, type))
                      + (IF s.Step = None THEN 0 ELSE Rounds(s) * Times(o, paths))
       IN /\ Plain(s.Apply, "apply", IF s.Step = None THEN <<>> ELSE s.Step.apply)
          /\ Plain(s.Asserts, "assert", IF s.Step = None THEN <<>> ELSE s.Step.assert)
          /\ Plain(s.Errors, "errors", IF s.Step = None THEN <<>> ELSE s.Step.error)

\* "more than 1 TestStep not allowed": wherever in the files of a step it
\* is, there is one at most, its settings are those of the step, and it is
\* not applied itself.
OneTestStep ==
    \A s \in Range(steps) :
       /\ \A p, q \in TestSteps(s.index) : p = q
       /\ \A p \in TestSteps(s.index) :
             /\ OfKind(File(p).objects, "TestStep") = <<s.Step>>
             /\ s.loading = s.Step.loading
       /\ TestSteps(s.index) = {} => s.Step = None /\ s.loading = None
       /\ OfKind(s.Apply, "TestStep") # <<>> => Rounds(s) = 1

\* The last TestAssert of the files holds, in a step whose TestStep names no
\* TestAssert by a path; one that it names takes the place of those of the
\* files when another file follows, which is not checked here.
LastAssertHolds ==
    \A s \in Range(steps) :
       LET named == IF s.Step = None THEN <<>> ELSE OfKind(s.Step.assert, "TestAssert")
           mine == TestAsserts(s.index)
       IN /\ named = <<>> /\ mine = {} => s.Assert = None
          /\ named = <<>> => \A p \in mine :
                (\A q \in mine : ~Before(p, q))
                => s.Assert = Last(OfKind(File(p).objects, "TestAssert"))

\* The steps of the case run in the order of their indices; every index
\* with an entry that counts has one step, and if one file is bad, there
\* are none.
StepsInOrder ==
    pc \in {"sorted", "failed"} =>
       /\ \A i, j \in DOMAIN steps : i < j => steps[i].index < steps[j].index
       /\ pc = "sorted" =>
             {s.index : s \in Range(steps)} =
                {e.name.prefix : e \in {d \in Range(entries) :
                    d.name.matches /\ ~d.ignored /\ d.name.prefix \in 0..MaxIndex}}
       /\ pc = "failed" => steps = <<>>
=============================================================================
