SPECIFICATION Spec
CONSTANTS
    None = None
    MaxIndex = 2
    Contents <- MCContents
    Objects <- MCObjects
INVARIANTS
    TypeOK
    ObjectsKept
    OneTestStep
    LastAssertHolds
    StepsInOrder
