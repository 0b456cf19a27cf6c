SPECIFICATION FairSpec
CONSTANTS
    Goroutine = {g1, g2, g3}
    AlreadyExists = AlreadyExists
    Conflict = Conflict
    StatusErr = StatusErr
    PanicErr = PanicErr
    CtxErr = CtxErr
    NoErr = NoErr
    Pending = Pending
    HasDeadline = TRUE
    Err <- MCErr
    Tolerated <- MCTolerated
INVARIANTS
    TypeOK
    OnlyCurrentInFlight
    NilMeansEffect
    QuietUnlessTimedOut
PROPERTIES
    ImplementsPromise
    Returns
