SPECIFICATION FairSpec
CONSTANTS
    Modes = {"existing", "controlplane", "kind"}
    MaxCount = 2
INVARIANTS
    TypeOK
    NothingRunning
    ReportTruthful
    NoPanicAlone
PROPERTIES
    RunningClusterKept
    HarnessEnds
