SPECIFICATION Spec
CONSTANTS
    o1 = o1
    o2 = o2
    e1 = e1
    e2 = e2
    e3 = e3
    Unit = 2
    Timeouts <- MCTimeouts
    Deletes <- MCDeletes
    Commands <- MCCommands
    AssertCommands = 2
    AssertAny <- MCAny
    AssertAll <- MCAll
    Collectors <- MCCollectors
    Lingers = {FALSE}
INVARIANT NoBackgroundLeft
