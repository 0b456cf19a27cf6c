SPECIFICATION Spec
CONSTANTS
    s1 = s1
    s2 = s2
    t1 = t1
    t2 = t2
    Suite <- MCSuite
    Test <- MCTest
    SuiteOf <- MCSuiteOf
    MaxSteps = 1
    MaxCloses = 2
INVARIANTS
    TypeOK
    NumbersAddUp
    StepFailuresShown
    FailureIsLast
SYMMETRY MCSymmetry
