----------------------------- MODULE MCStepLoad -----------------------------
(* Directories of up to three entries: files of two steps, a directory,     *)
(* and names that do not count.                                             *)
EXTENDS StepLoad

Plain(id) == [kind |-> "plain", id |-> id]
TestAssert(id, expressions) == [kind |-> "TestAssert", id |-> id, expressions |-> expressions]
TestFile(selected) == [kind |-> "TestFile", selected |-> selected]
NoPaths == [kind |-> "TestStep", loading |-> "lazy", readable |-> TRUE,
            apply |-> <<>>, assert |-> <<>>, error |-> <<>>]
WithPaths == [NoPaths EXCEPT !.loading = None,
                             !.apply = <<Plain("cm"), Plain("path")>>,
                             !.assert = <<TestAssert("path", {"any"}), Plain("path")>>,
                             !.error = <<Plain("path")>>]

Name(prefix, first) == [matches |-> TRUE, prefix |-> prefix, first |-> first]
File0(first, objects) == [name |-> Name(None, first), readable |-> TRUE, objects |-> objects]

GoodFiles ==
    { File0("apply", <<Plain("cm")>>),
      File0("apply", <<NoPaths, Plain("cm")>>),
      File0("apply", <<WithPaths, TestFile(TRUE)>>),
      File0("apply", <<[NoPaths EXCEPT !.apply = <<NoPaths>>]>>),
      File0("apply", <<Plain("cm"), TestFile(FALSE)>>),
      File0("assert", <<Plain("cm"), TestAssert("a", {"any"})>>),
      File0("assert", <<TestAssert("b", {"any"}), TestAssert("c", {"any"})>>),
      File0("assert", <<NoPaths>>),
      File0("errors", <<Plain("cm"), Plain("cm")>>) }
BadFiles ==
    { File0("apply", <<[NoPaths EXCEPT !.loading = "invalid"]>>),
      File0("apply", <<[NoPaths EXCEPT !.readable = FALSE]>>),
      File0("apply", <<TestFile(TRUE), TestFile(FALSE)>>),
      File0("assert", <<TestAssert("bad", {"any", "invalid"})>>),
      [File0("apply", <<>>) EXCEPT !.readable = FALSE] }

\* An entry that is a file has itself as its files.
FileEntry(f, prefix) ==
    LET file == [f EXCEPT !.name.prefix = prefix]
    IN [name |-> file.name, ignored |-> FALSE, files |-> <<file>>]
Readme == [File0("apply", <<>>) EXCEPT !.name.matches = FALSE]
Dirs == { [name |-> Name(0, "apply"), ignored |-> FALSE,
           files |-> <<File0("apply", <<NoPaths>>), f>>] :
             f \in {Readme, File0("assert", <<TestAssert("d", {"any"})>>),
                    File0("apply", <<Plain("cm")>>)} }
Good == CHOOSE f \in GoodFiles : f = File0("apply", <<Plain("cm")>>)

Entry == {FileEntry(f, 0) : f \in GoodFiles \cup BadFiles}
         \cup {FileEntry(f, 2) : f \in {Good, File0("errors", <<Plain("cm"), Plain("cm")>>)}}
         \cup {FileEntry(Good, p) : p \in {None, 3}}
         \cup {[FileEntry(Good, 1) EXCEPT !.ignored = TRUE],
               FileEntry(Readme, 1),
               [name |-> Name(1, "apply"), ignored |-> FALSE, files |-> <<>>]}
         \cup Dirs
MCContents == BoundedSeq(Entry, 3)
Written == UNION {Range(f.objects) : f \in UNION {Range(e.files) : e \in Entry}}
MCObjects == Written \cup UNION {Range(o.apply) \cup Range(o.assert) \cup Range(o.error) :
                                    o \in {w \in Written : w.kind = "TestStep"}}
=============================================================================
