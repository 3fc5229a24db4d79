SPECIFICATION Spec
CONSTANTS
    first = first
    second = second
    third = third
    Requests = {first, second, third}
    MayBe <- MCMayBe
    Situations <- MCSituations
    NoDecision = NoDecision
    Nothing = Nothing
INVARIANT
    NoDecisionErased
CHECK_DEADLOCK FALSE
