------------------------------ MODULE MCReport ------------------------------
(* Two suites: two tests of one step after setup in one, none in the other. *)
EXTENDS Report, TLC

CONSTANTS s1, s2, t1, t2

MCSuite == {s1, s2}
MCTest == {t1, t2}
MCSuiteOf == [t \in MCTest |-> s1]
MCSymmetry == Permutations(MCTest)
=============================================================================
