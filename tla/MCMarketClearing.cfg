\* Clearing, committing and mandate edits interleaved.
SPECIFICATION MarketSpec
CONSTANTS
    rapid = rapid
    coop = coop
    o1 = o1
    o2 = o2
    Providers = {rapid, coop}
    Opps = {o1, o2}
    NoOpp = NoOpp
    NoResult = NoResult
    Calls = {c1, c2}
    Plans <- MCPlans
    Liquidity0 <- MCLiquidity0
    Ranked <- MCRanked
    Advance <- MCAdvance
    Total <- MCTotal
    Mandate0 <- MCMandate0
    Patches <- MCPatches
INVARIANTS
    PlanWithinCapacity
    RankingRespected
PROPERTIES
    MarketAtomicity
SYMMETRY MCSymmetry
CHECK_DEADLOCK FALSE
