\* Decisions and artifacts of one invoice.
SPECIFICATION FairSpec
CONSTANTS
    first = first
    second = second
    third = third
    Requests = {first, second, third}
    MayBe <- MCMayBe
    Situations <- MCSituations
    NoDecision = NoDecision
    Nothing = Nothing
INVARIANTS
    GateHolds
    TrailIsHistory
    DecisionsKept
PROPERTIES
    EveryRequestReturns
\* Every request may have been answered.
CHECK_DEADLOCK FALSE
