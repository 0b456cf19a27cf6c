SPECIFICATION Spec
CONSTANTS
    RetryOnError = TRUE
    SkipDelete = FALSE
    HasDeadline = TRUE
    MaxGarbled = 2
    MaxOthers = 0
INVARIANT UpdatedFalseIfCreated
