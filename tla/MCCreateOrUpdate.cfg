SPECIFICATION Spec
CONSTANTS
    RetryOnError = TRUE
    SkipDelete = FALSE
    HasDeadline = TRUE
    MaxGarbled = 2
    MaxOthers = 3
INVARIANTS
    TypeOK
    ResultNamesLastWrite
PROPERTIES
    NoLostUpdate
    CleanupSparesOthers
    ImplementsApply
